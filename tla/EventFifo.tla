------------------------------ MODULE EventFifo ------------------------------
(***************************************************************************)
(* What the circular reader promises the sensor drivers: a bounded first-  *)
(* in first-out queue between the kernel's backlog and readEvent()/next(). *)
(***************************************************************************)
EXTENDS Integers, Sequences

CONSTANTS numEvents, Event, MaxBacklog

VARIABLES queue,   \* records taken from the kernel and not yet consumed
          device   \* records waiting in the kernel

vars == <<queue, device>>

Init == queue = <<>> /\ device = <<>>

Arrive(e) ==
  /\ Len(device) < MaxBacklog
  /\ device' = Append(device, e)
  /\ UNCHANGED queue

Fill(n) ==
  /\ n <= Len(device)
  /\ Len(queue) + n <= numEvents
  /\ queue' = queue \o SubSeq(device, 1, n)
  /\ device' = SubSeq(device, n + 1, Len(device))

NextEvent ==
  /\ queue # <<>>
  /\ queue' = Tail(queue)
  /\ UNCHANGED device

Next ==
  \/ \E e \in Event : Arrive(e)
  \/ \E n \in 1 .. numEvents : Fill(n)
  \/ NextEvent

Spec == Init /\ [][Next]_vars
=============================================================================
