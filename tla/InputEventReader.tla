-------------------------- MODULE InputEventReader --------------------------
(***************************************************************************)
(* libsensors/InputEventReader.cpp: the circular reader every sensor       *)
(* driver uses to take input_event records from its /dev/input node.       *)
(*                                                                         *)
(* The array holds 2 * numEvents records.  fill() lets one read() run past *)
(* mBufferEnd into the second half and then copies the excess back to the  *)
(* front; the test that triggers the copy is mHead > mBufferEnd, so mHead  *)
(* may rest exactly on mBufferEnd.                                         *)
(*                                                                         *)
(* Pointers are offsets from mBuffer.  backlog is what the kernel still    *)
(* holds for the file descriptor (external).                               *)
(***************************************************************************)
EXTENDS Integers, Sequences

CONSTANTS numEvents,    \* capacity given to the constructor
          Event,        \* the records the kernel can deliver
          MaxBacklog    \* bound: records waiting in the kernel

ASSUME NumEventsAssumption == numEvents \in Nat \ {0}
ASSUME BacklogAssumption == MaxBacklog \in Nat

VARIABLES mBuffer,      \* offsets 0 .. 2 * numEvents - 1
          mHead, mCurr, \* where the next read() writes, where readEvent looks
          mFreeSpace,   \* records that fit
          backlog       \* records waiting in the kernel, oldest first

readerVars == <<mBuffer, mHead, mCurr, mFreeSpace, backlog>>

mBufferEnd == numEvents
Offsets == 0 .. 2 * numEvents - 1
Available == mBufferEnd - mFreeSpace

TypeOK ==
  /\ mBuffer \in [Offsets -> Event]
  /\ mHead \in 0 .. mBufferEnd
  /\ mCurr \in 0 .. mBufferEnd - 1
  /\ mFreeSpace \in 0 .. mBufferEnd
  /\ backlog \in Seq(Event)

\* new input_event[] leaves the records uninitialised.
ReaderInit ==
  /\ mBuffer \in [Offsets -> Event]
  /\ mHead = 0 /\ mCurr = 0
  /\ mFreeSpace = numEvents
  /\ backlog = <<>>

\* The kernel queues a record (external).
Arrive(e) ==
  /\ Len(backlog) < MaxBacklog
  /\ backlog' = Append(backlog, e)
  /\ UNCHANGED <<mBuffer, mHead, mCurr, mFreeSpace>>

\* The array after read() stored n records at mHead ...
AfterRead(n) ==
  [o \in Offsets |-> IF o \in mHead .. mHead + n - 1
                     THEN backlog[o - mHead + 1] ELSE mBuffer[o]]

\* A slip: one record too few is copied back.
CopyBackShort(b, s) ==
  [o \in Offsets |-> IF o \in 0 .. s - 2 THEN b[mBufferEnd + o] ELSE b[o]]
\* ... and after the memcpy of the s records beyond mBufferEnd.
CopyBack(b, s) ==
  [o \in Offsets |-> IF o \in 0 .. s - 1 THEN b[mBufferEnd + o] ELSE b[o]]

\* fill() when read() returns n whole records.
fill(n) ==
  /\ n \in 1 .. mFreeSpace
  /\ n <= Len(backlog)
  /\ backlog' = SubSeq(backlog, n + 1, Len(backlog))
  /\ mFreeSpace' = mFreeSpace - n
  /\ mHead' = IF mHead + n > mBufferEnd THEN mHead + n - mBufferEnd
                                        ELSE mHead + n
  /\ mBuffer' = IF mHead + n > mBufferEnd
                THEN CopyBack(AfterRead(n), mHead + n - mBufferEnd)
                ELSE AfterRead(n)
  /\ UNCHANGED mCurr

\* next(), which every caller reaches only after readEvent() returned 1.
NextEvent ==
  /\ Available > 0
  /\ mFreeSpace' = mFreeSpace + 1
  /\ mCurr' = IF mCurr + 1 >= mBufferEnd THEN 0 ELSE mCurr + 1
  /\ UNCHANGED <<mBuffer, mHead, backlog>>

ReaderNext ==
  \/ \E e \in Event : Arrive(e)
  \/ \E n \in 1 .. numEvents : fill(n)
  \/ NextEvent

ReaderSpec == ReaderInit /\ [][ReaderNext]_readerVars

-----------------------------------------------------------------------------
\* The i-th unread record: offsets wrap at mBufferEnd, never at the array's end.
UnreadAt(i) ==
  LET o == mCurr + i - 1
  IN  mBuffer[IF o < mBufferEnd THEN o ELSE o - mBufferEnd]

queue == [i \in 1 .. Available |-> UnreadAt(i)]

\* The reader is a FIFO of capacity numEvents: no record read from the kernel
\* is lost, duplicated, reordered or overwritten by fill() before next()
\* passed it, whatever the wrap-around position.
Fifo == INSTANCE EventFifo WITH queue <- queue, device <- backlog
RefinesFifo == Fifo!Spec

\* mHead is Available records after mCurr modulo numEvents.  It may rest on
\* mBufferEnd, and is numEvents ahead of an empty reader only there.
IInv ==
  /\ TypeOK
  /\ \/ mHead = mCurr + Available
     \/ mHead = mCurr + Available - numEvents
     \/ mHead = mCurr + Available + numEvents /\ Available = 0
=============================================================================
