---------------------------- MODULE OmxRpcProofs ----------------------------
(***************************************************************************)
(* The inductive invariant of OmxRpc, for every set of threads and          *)
(* functions, that no step of the instance, of a stub, of the remote core   *)
(* or of RPC_CallbackThread breaks it, and what follows from it about the   *)
(* channel.                                                                 *)
(*                                                                          *)
(* A call that waits has at most one answer under way, and that answer is   *)
(* in one place: the driver's queue to the remote core, its queue back, the *)
(* hands of RPC_CallbackThread, or the pipe of the function (Channel,       *)
(* Pipes).  So answers are told apart by their threads, and every packet in *)
(* the heap has one owner (Owned, Allocated).                               *)
(***************************************************************************)
EXTENDS OmxRpc, TLAPS

TypeOK ==
  /\ ctx \in {"none", "hollow", "open", "live", "failed", "joining"}
  /\ pc \in [Thread -> {"idle", "wait", "result"}]
  /\ fxn \in [Thread -> Fxn \cup {NULL}]
  /\ pRetPacket \in [Thread -> Reply \cup {pBufferError, NULL}]
  /\ requests \in Seq([from : Thread, fxn : Fxn])
  /\ messages \in Seq(Reply \cup {Done})
  /\ pMsgPipe \in [Fxn -> Seq(Reply \cup {pBufferError})]
  /\ faulty \in BOOLEAN /\ failedOnce \in BOOLEAN /\ misused \in BOOLEAN
  /\ cb \in {"none", "select", "switch", "EXIT", "ended"}
  /\ cb = "switch" => pBuffer \in Reply \cup {Done}
  /\ eRPCError \in {"None", "Hardware", "Undefined"}
  /\ heap \subseteq Reply \cup {Done, Scratch}

\* A thread is in one function, and no two threads are in the same.
Callers ==
  /\ \A t \in Thread : pc[t] = "idle" <=> fxn[t] = NULL
  /\ \A t, u \in Thread : fxn[t] # NULL /\ fxn[t] = fxn[u] => t = u

\* The context and the threads.
Instance ==
  /\ ctx \in {"none", "hollow", "joining"} => \A t \in Thread : pc[t] = "idle"
  /\ ctx \in {"none", "hollow"} =>
       /\ requests = <<>> /\ messages = <<>> /\ \A f \in Fxn : pMsgPipe[f] = <<>>
       /\ cb \in {"none", "ended"} /\ heap = {}
  /\ eRPCError = "Hardware" => faulty /\ cb \notin {"select", "switch"}
  /\ faulty => requests = <<>> /\ messages = <<>>

Waits(t, f) == pc[t] = "wait" /\ fxn[t] = f /\ pMsgPipe[f] = <<>>
Held(t) == cb = "switch" /\ pBuffer.to = t

\* What is under way is for a thread that waits for it, once.
Channel ==
  /\ \A i \in DOMAIN requests :
       /\ Waits(requests[i].from, requests[i].fxn) /\ ~Held(requests[i].from)
       /\ \A j \in DOMAIN requests : i # j => requests[i].from # requests[j].from
       /\ \A j \in DOMAIN messages : requests[i].from # messages[j].to
  /\ \A i \in DOMAIN messages : messages[i] # Done =>
       /\ Waits(messages[i].to, messages[i].fxn) /\ ~Held(messages[i].to)
       /\ \A j \in DOMAIN messages : i # j => messages[i].to # messages[j].to
  /\ cb = "switch" /\ pBuffer # Done => Waits(pBuffer.to, pBuffer.fxn)

\* The pointer of an answer in the pipe of f.
IsAnswer(x, f) ==
  /\ x \in Reply /\ x.result # "hardware" /\ x.fxn = f
  /\ pc[x.to] = "wait" /\ fxn[x.to] = f

\* A pipe holds one answer, then the pBufferError of the end.
InPipe(f) ==
  /\ eRPCError # "Hardware" => Len(pMsgPipe[f]) <= 1
  /\ eRPCError # "Hardware" /\ pMsgPipe[f] # <<>> =>
       \E t \in Thread : pc[t] = "wait" /\ fxn[t] = f
  /\ \A i \in DOMAIN pMsgPipe[f] :
       pMsgPipe[f][i] = pBufferError \/ (i = 1 /\ IsAnswer(pMsgPipe[f][i], f))

Pipes == \A f \in Fxn : InPipe(f)

Results ==
  \A t \in Thread : pc[t] = "result" =>
    \/ pRetPacket[t] = pBufferError
    \/ pRetPacket[t] \in Reply /\ pRetPacket[t].to = t /\ pRetPacket[t].result # "hardware"

\* Every packet has an owner that will free it.
Owned ==
  \A p \in heap :
    \/ cb = "switch" /\ p = pBuffer
    \/ cb = "EXIT" /\ eRPCError # "None" /\ pBuffer = Scratch /\ p = Scratch
    \/ \E f \in Fxn : pMsgPipe[f] # <<>> /\ p = pMsgPipe[f][1]
    \/ \E t \in Thread : pc[t] = "result" /\ p = pRetPacket[t]

\* What the owners will free is allocated.
Allocated ==
  ~failedOnce =>
    /\ ~misused /\ eRPCError # "Undefined"
    /\ cb = "switch" => pBuffer \in heap
    /\ cb = "EXIT" /\ eRPCError # "None" => pBuffer = Scratch /\ Scratch \in heap
    /\ \A f \in Fxn : pMsgPipe[f] # <<>> => pMsgPipe[f][1] \in heap \cup {pBufferError}
    /\ \A t \in Thread : pc[t] = "result" => pRetPacket[t] \in heap \cup {pBufferError}

IInv ==
  /\ TypeOK /\ Callers /\ Instance /\ Channel /\ Pipes /\ Results /\ Owned /\ Allocated

-----------------------------------------------------------------------------
(* Packets and sequences *)

\* The packets that answer no call are none of the answers, and differ.
LEMMA Packets ==
  /\ Done \notin Reply /\ Scratch \notin Reply /\ pBufferError \notin Reply
  /\ Done # Scratch /\ Done # pBufferError /\ Scratch # pBufferError
  /\ Done.to = NULL /\ Scratch # NULL /\ pBufferError.result = "hardware"
  /\ \A p \in Reply : p.to \in Thread /\ p.to # NULL /\ p.fxn \in Fxn /\ p.result \in Result
BY NullAssumption DEF Done, Scratch, pBufferError, Reply

\* What Head and Tail leave of a queue.
LEMMA Tails ==
  ASSUME NEW S, NEW s \in Seq(S), s # <<>>
  PROVE  /\ Head(s) \in S /\ Head(s) = s[1] /\ 1 \in DOMAIN s
         /\ Tail(s) \in Seq(S)
         /\ \A i \in DOMAIN Tail(s) : i + 1 \in DOMAIN s /\ i + 1 # 1 /\ Tail(s)[i] = s[i + 1]
         /\ \A i, j \in DOMAIN Tail(s) : i # j => i + 1 # j + 1
OBVIOUS

\* The tail of a queue of one is empty.
LEMMA LastTail ==
  ASSUME NEW S, NEW s \in Seq(S), s # <<>>, Len(s) <= 1
  PROVE  Tail(s) = <<>>
<1>1. Len(s) = 1
  <2>1. 1 \in DOMAIN s /\ DOMAIN s = 1 .. Len(s) /\ Len(s) \in Nat
    BY Tails
  <2> QED BY <2>1
<1>2. Tail(s) \in Seq(S) /\ Len(Tail(s)) = 0
  BY <1>1
<1> QED BY <1>2

\* Append adds one element, behind all others.
LEMMA Appends ==
  ASSUME NEW S, NEW s \in Seq(S), NEW x \in S
  PROVE  /\ Append(s, x) \in Seq(S)
         /\ \A i \in DOMAIN Append(s, x) :
              \/ i \in DOMAIN s /\ Append(s, x)[i] = s[i]
              \/ i = Len(s) + 1 /\ i \notin DOMAIN s /\ Append(s, x)[i] = x
OBVIOUS

\* Append does not change what is read next, but in an empty queue.
LEMMA AppendFirst ==
  ASSUME NEW S, NEW s \in Seq(S), NEW x \in S
  PROVE  /\ Append(s, x) # <<>>
         /\ s # <<>> => Append(s, x)[1] = s[1]
         /\ s = <<>> => Append(s, x)[1] = x
<1>1. Len(s) \in Nat /\ Len(Append(s, x)) = Len(s) + 1 /\ Len(<<>>) = 0
  OBVIOUS
<1>2. s # <<>> => 1 \in 1 .. Len(s)
  BY Tails
<1>3. s # <<>> => Append(s, x)[1] = s[1]
  BY <1>1, <1>2
<1>4. s = <<>> => Append(s, x)[1] = x
  OBVIOUS
<1> QED BY <1>1, <1>3, <1>4

\* A queue holds elements of its set.
LEMMA Elements ==
  ASSUME NEW S, NEW s \in Seq(S), NEW i \in DOMAIN s
  PROVE  s[i] \in S
OBVIOUS

\* An empty queue has no positions.
LEMMA Empty == DOMAIN <<>> = {}
OBVIOUS

\* What is under way is addressed to a thread, except callbacks.
LEMMA Addressed ==
  ASSUME TypeOK
  PROVE  /\ \A i \in DOMAIN requests : requests[i].from \in Thread /\ requests[i].fxn \in Fxn
         /\ \A i \in DOMAIN messages :
              messages[i] = Done \/ (messages[i] \in Reply /\ messages[i].to \in Thread)
         /\ cb = "switch" => pBuffer = Done \/ (pBuffer \in Reply /\ pBuffer.to \in Thread)
<1>1. \A i \in DOMAIN requests : requests[i] \in [from : Thread, fxn : Fxn]
  <2>1. requests \in Seq([from : Thread, fxn : Fxn])
    BY DEF TypeOK
  <2> QED BY <2>1, Elements, Zenon
<1>2. \A i \in DOMAIN messages : messages[i] \in Reply \cup {Done}
  BY DEF TypeOK
<1>3. cb = "switch" => pBuffer \in Reply \cup {Done}
  BY DEF TypeOK
<1> QED BY <1>1, <1>2, <1>3, Packets

\* Who waits goes on waiting, and what is under way stays where it is.
LEMMA ChannelKept ==
  ASSUME TypeOK, Channel, UNCHANGED <<requests, messages>>,
         cb' = "switch" => cb = "switch" /\ pBuffer' = pBuffer,
         \A t \in Thread : \A f : Waits(t, f) => Waits(t, f)'
  PROVE  Channel'
<1>1. \A t : Held(t)' => Held(t)
  BY DEF Held
<1>2. ASSUME NEW i \in DOMAIN requests
      PROVE  /\ Waits(requests[i].from, requests[i].fxn)' /\ ~Held(requests[i].from)'
             /\ \A j \in DOMAIN requests : i # j => requests[i].from # requests[j].from
             /\ \A j \in DOMAIN messages : requests[i].from # messages[j].to
  <2>1. requests[i].from \in Thread
    BY Addressed
  <2> QED BY <1>1, <2>1 DEF Channel
<1>3. ASSUME NEW i \in DOMAIN messages, messages[i] # Done
      PROVE  /\ Waits(messages[i].to, messages[i].fxn)' /\ ~Held(messages[i].to)'
             /\ \A j \in DOMAIN messages : i # j => messages[i].to # messages[j].to
  <2>1. messages[i].to \in Thread
    BY <1>3, Addressed
  <2> QED BY <1>1, <1>3, <2>1 DEF Channel
<1>4. (cb = "switch" /\ pBuffer # Done => Waits(pBuffer.to, pBuffer.fxn))'
  BY Addressed DEF Channel
<1> QED BY <1>2, <1>3, <1>4 DEF Channel

\* Channel is about the calls, the queues, the pipes and what the thread has in hand.
LEMMA ChannelFrame ==
  ASSUME TypeOK, Channel, UNCHANGED <<pc, fxn, requests, messages, pMsgPipe>>,
         cb' = "switch" => cb = "switch" /\ pBuffer' = pBuffer
  PROVE  Channel'
<1>1. \A t, f : Waits(t, f) => Waits(t, f)'
  BY DEF Waits
<1> QED BY <1>1, ChannelKept

\* A pipe that is left alone, of a function whose callers stay in their calls.
LEMMA InPipeFrame ==
  ASSUME NEW f \in Fxn, InPipe(f), pMsgPipe'[f] = pMsgPipe[f],
         eRPCError' # "Hardware" => eRPCError # "Hardware",
         \A t \in Thread : pc[t] = "wait" /\ fxn[t] = f => pc'[t] = "wait" /\ fxn'[t] = f
  PROVE  InPipe(f)'
<1>1. ASSUME NEW x, IsAnswer(x, f) PROVE IsAnswer(x, f)'
  BY <1>1, Packets DEF IsAnswer
<1>2. eRPCError' # "Hardware" => Len(pMsgPipe'[f]) <= 1
  BY DEF InPipe
<1>3. eRPCError' # "Hardware" /\ pMsgPipe'[f] # <<>> =>
        \E t \in Thread : pc'[t] = "wait" /\ fxn'[t] = f
  BY DEF InPipe
<1>4. ASSUME NEW i \in DOMAIN pMsgPipe'[f]
      PROVE  pMsgPipe'[f][i] = pBufferError \/ (i = 1 /\ IsAnswer(pMsgPipe[f][i], f)')
  BY <1>1 DEF InPipe
<1> QED BY <1>2, <1>3, <1>4 DEF InPipe

\* No pipe changes, and no call.
LEMMA PipesFrame ==
  ASSUME Pipes, UNCHANGED <<pc, fxn, pMsgPipe>>,
         eRPCError' # "Hardware" => eRPCError # "Hardware"
  PROVE  Pipes'
<1> SUFFICES ASSUME NEW f \in Fxn PROVE InPipe(f)'
  BY DEF Pipes
<1>1. InPipe(f)
  BY DEF Pipes
<1> QED BY <1>1, InPipeFrame

-----------------------------------------------------------------------------
(* The instance *)

\* The invariant holds before RPC_InstanceInit().
LEMMA InitInv == Init => IInv
<1> SUFFICES ASSUME Init PROVE IInv
  OBVIOUS
<1> USE DEF Init
<1>1. TypeOK
  <2>1. /\ pc \in [Thread -> {"idle", "wait", "result"}]
        /\ fxn \in [Thread -> Fxn \cup {NULL}]
        /\ pRetPacket \in [Thread -> Reply \cup {pBufferError, NULL}]
    OBVIOUS
  <2>2. /\ requests \in Seq([from : Thread, fxn : Fxn])
        /\ messages \in Seq(Reply \cup {Done})
        /\ pMsgPipe \in [Fxn -> Seq(Reply \cup {pBufferError})]
    OBVIOUS
  <2>3. faulty \in BOOLEAN /\ failedOnce \in BOOLEAN /\ misused \in BOOLEAN
    BY Zenon
  <2> QED BY <2>1, <2>2, <2>3, Zenon DEF TypeOK
<1>2. Callers /\ Instance
  BY NullAssumption DEF Callers, Instance
<1>3. Channel /\ Pipes
  BY Empty DEF Channel, Pipes, InPipe
<1>4. Results /\ Owned /\ Allocated
  BY DEF Results, Owned, Allocated
<1> QED BY <1>1, <1>2, <1>3, <1>4 DEF IInv

\* RPC_InstanceInit() starts on empty queues and pipes, also when open() fails.
LEMMA InstanceInit == IInv /\ RPC_InstanceInit => IInv'
<1> SUFFICES ASSUME IInv, RPC_InstanceInit PROVE IInv'
  OBVIOUS
<1> USE DEF IInv, RPC_InstanceInit, client
<1>1. TypeOK'
  BY Zenon DEF TypeOK
<1>2. Callers' /\ Results'
  BY DEF Callers, Results
<1>3. Instance'
  BY DEF Instance
<1>4. Channel' /\ Pipes'
  BY Empty DEF Channel, Pipes, InPipe, Instance, TypeOK
<1>5. Owned' /\ Allocated'
  BY DEF Owned, Allocated, Instance
<1> QED BY <1>1, <1>2, <1>3, <1>4, <1>5

\* RPC_InstanceDeInit() sets RPC_OMX_KILL after the last call has returned.
LEMMA Kill == IInv /\ DeInitKill => IInv'
<1> SUFFICES ASSUME IInv, DeInitKill PROVE IInv'
  OBVIOUS
<1> USE DEF IInv, DeInitKill, client, device, thread, memory
<1>1. TypeOK' /\ Callers' /\ Results'
  BY DEF TypeOK, Callers, Results
<1>2. Instance'
  BY DEF Instance
<1>3. Channel' /\ Pipes'
  BY ChannelFrame, PipesFrame
<1>4. Owned' /\ Allocated'
  BY DEF Owned, Allocated
<1> QED BY <1>1, <1>2, <1>3, <1>4

\* When the thread has ended and no call is in progress, nobody is left to free a
\* packet, and there is none.
LEMMA Join == IInv /\ DeInitJoin => IInv'
<1> SUFFICES ASSUME IInv, DeInitJoin PROVE IInv'
  OBVIOUS
<1> USE DEF IInv, DeInitJoin, client, thread, memory
<1>0. \A t \in Thread : pc[t] = "idle"
  BY DEF Instance
<1>1. heap = {}
  <2>1. ASSUME NEW p \in heap PROVE FALSE
    <3>1. PICK f \in Fxn : pMsgPipe[f] # <<>> /\ p = pMsgPipe[f][1]
      BY <1>0, <2>1 DEF Owned
    <3>2. pMsgPipe[f][1] = pBufferError \/ IsAnswer(pMsgPipe[f][1], f)
      BY <3>1, Tails DEF Pipes, InPipe, TypeOK
    <3>3. p # pBufferError
      BY Packets DEF TypeOK
    <3> QED BY <1>0, <3>1, <3>2, <3>3, Packets DEF IsAnswer
  <2> QED BY <2>1
<1>2. TypeOK'
  BY DEF TypeOK
<1>3. Callers' /\ Results'
  BY DEF Callers, Results
<1>4. Instance'
  BY <1>0, <1>1 DEF Instance
<1>5. Channel' /\ Pipes'
  BY Empty DEF Channel, Pipes, InPipe
<1>6. Owned' /\ Allocated'
  BY <1>0, <1>1 DEF Owned, Allocated
<1> QED BY <1>2, <1>3, <1>4, <1>5, <1>6

-----------------------------------------------------------------------------
(* The stubs *)

\* A call begins: nothing is under way for the thread nor for the function.
LEMMA SendStep ==
  ASSUME IInv, NEW t \in Thread, NEW f \in Fxn, Send(t, f)
  PROVE  IInv'
<1> USE DEF IInv
<1> DEFINE r == [from |-> t, fxn |-> f]
<1>0. /\ pc[t] = "idle" /\ ~faulty /\ ctx \in {"open", "live"}
      /\ \A u \in Thread : fxn[u] # f
      /\ requests' = Append(requests, r)
      /\ pc' = [pc EXCEPT ![t] = "wait"] /\ fxn' = [fxn EXCEPT ![t] = f]
      /\ UNCHANGED <<ctx, pAppData, pRetPacket, messages, faulty, pMsgPipe, thread, memory>>
  BY DEF Send, mayCall
<1>1. r \in [from : Thread, fxn : Fxn] /\ r.from = t /\ r.fxn = f
  OBVIOUS
<1> HIDE DEF r
<1>2. eRPCError # "Hardware" /\ pMsgPipe[f] = <<>>
  BY <1>0 DEF Instance, Pipes, InPipe
<1>3. TypeOK'
  BY <1>0, <1>1 DEF TypeOK, thread, memory
<1>4. /\ pc'[t] = "wait" /\ fxn'[t] = f
      /\ \A u \in Thread : u # t => pc'[u] = pc[u] /\ fxn'[u] = fxn[u]
  BY <1>0 DEF TypeOK
<1>5. Callers'
  BY <1>0, <1>4, NullAssumption DEF Callers
<1>6. Instance'
  BY <1>0 DEF Instance, thread, memory
<1>7. \A i \in DOMAIN requests' :
        \/ i \in DOMAIN requests /\ requests'[i] = requests[i]
        \/ i = Len(requests) + 1 /\ i \notin DOMAIN requests /\ requests'[i] = r
  BY <1>0, <1>1, Appends DEF TypeOK
<1>8. Channel'
  <2>1. UNCHANGED <<messages, pMsgPipe, cb, pBuffer>>
    BY <1>0 DEF thread
  <2>2. /\ \A i \in DOMAIN requests : requests[i].from # t /\ requests[i].from \in Thread
        /\ \A i \in DOMAIN messages : messages[i].to # t /\ (messages[i] # Done => messages[i].to \in Thread)
        /\ ~Held(t)
        /\ cb = "switch" /\ pBuffer # Done => pBuffer.to \in Thread
    <3>1. \A u \in Thread : \A g : Waits(u, g) => u # t
      BY <1>0 DEF Waits
    <3>2. Done.to # t
      BY Packets, NullAssumption
    <3> QED BY <3>1, <3>2, Addressed DEF Channel, Held
  <2>3. \A u \in Thread : \A g : Waits(u, g) => Waits(u, g)'
    BY <1>0, <1>4, <2>1 DEF Waits
  <2>4. Waits(t, f)'
    BY <1>2, <1>4, <2>1 DEF Waits
  <2>5. \A u : Held(u)' = Held(u)
    BY <2>1 DEF Held
  <2>6. ASSUME NEW i \in DOMAIN requests'
        PROVE  /\ Waits(requests[i].from, requests[i].fxn)' /\ ~Held(requests[i].from)'
               /\ \A j \in DOMAIN requests' : i # j => requests'[i].from # requests'[j].from
               /\ \A j \in DOMAIN messages : requests'[i].from # messages[j].to
    <3>1. CASE i \in DOMAIN requests /\ requests'[i] = requests[i]
      <4>1. Waits(requests[i].from, requests[i].fxn)'
        BY <3>1, <2>2, <2>3 DEF Channel, Waits
      <4> QED BY <1>1, <1>7, <2>2, <2>5, <3>1, <4>1, Zenon DEF Channel, Held
    <3>2. CASE i \notin DOMAIN requests /\ i = Len(requests) + 1 /\ requests'[i] = r
      BY <1>1, <1>7, <2>1, <2>2, <2>4, <2>5, <3>2 DEF Waits, Held
    <3> QED BY <1>7, <3>1, <3>2
  <2>7. ASSUME NEW i \in DOMAIN messages, messages[i] # Done
        PROVE  /\ Waits(messages[i].to, messages[i].fxn)' /\ ~Held(messages[i].to)'
               /\ \A j \in DOMAIN messages : i # j => messages[i].to # messages[j].to
    BY <2>1, <2>2, <2>3, <2>5, <2>7 DEF Channel, Waits, Held
  <2>8. (cb = "switch" /\ pBuffer # Done => Waits(pBuffer.to, pBuffer.fxn))'
    BY <2>1, <2>2, <2>3, Zenon DEF Channel
  <2> QED BY <2>1, <2>6, <2>7, <2>8 DEF Channel
<1>9. Pipes'
  <2>1. UNCHANGED <<pMsgPipe, eRPCError>>
    BY <1>0 DEF thread
  <2>2. \A u \in Thread, g \in Fxn : pc[u] = "wait" /\ fxn[u] = g => pc'[u] = "wait" /\ fxn'[u] = g
    BY <1>0, <1>4
  <2>3. \A g \in Fxn : InPipe(g)
    BY DEF Pipes
  <2>4. \A g \in Fxn : InPipe(g)'
    BY <2>1, <2>2, <2>3, InPipeFrame
  <2> QED BY <2>4 DEF Pipes
<1>10. Results' /\ Owned' /\ Allocated'
  BY <1>0, <1>4 DEF Results, Owned, Allocated, thread, memory
<1> QED BY <1>3, <1>5, <1>6, <1>8, <1>9, <1>10

\* A failed write() leaves nothing under way.
LEMMA SendFailsStep ==
  ASSUME IInv, NEW t \in Thread, NEW f \in Fxn, SendFails(t, f)
  PROVE  IInv'
<1> USE DEF IInv, SendFails, client, device, thread, memory
<1>1. TypeOK' /\ Callers' /\ Results'
  BY DEF TypeOK, Callers, Results
<1>2. Instance'
  BY DEF Instance
<1>3. Channel' /\ Pipes'
  BY ChannelFrame, PipesFrame
<1>4. Owned' /\ Allocated'
  BY DEF Owned, Allocated
<1> QED BY <1>1, <1>2, <1>3, <1>4

\* A stub takes the packet out of the pipe: it is the answer to its own call.
LEMMA ReceiveStep ==
  ASSUME IInv, NEW t \in Thread, Receive(t)
  PROVE  IInv'
<1> USE DEF IInv
<1> DEFINE f == fxn[t]
           x == Head(pMsgPipe[f])
<1>0. /\ pc[t] = "wait" /\ pMsgPipe[f] # <<>>
      /\ pRetPacket' = [pRetPacket EXCEPT ![t] = x]
      /\ pMsgPipe' = [pMsgPipe EXCEPT ![f] = Tail(@)]
      /\ pc' = [pc EXCEPT ![t] = "result"]
      /\ UNCHANGED <<ctx, pAppData, fxn, device, thread, memory>>
  BY DEF Receive
<1>1. f \in Fxn /\ f # NULL
  BY <1>0 DEF TypeOK, Callers
<1> HIDE DEF f
<1>2. /\ pMsgPipe[f] \in Seq(Reply \cup {pBufferError})
      /\ x = pMsgPipe[f][1] /\ 1 \in DOMAIN pMsgPipe[f] /\ x \in Reply \cup {pBufferError}
      /\ Tail(pMsgPipe[f]) \in Seq(Reply \cup {pBufferError})
      /\ \A i \in DOMAIN Tail(pMsgPipe[f]) :
           i + 1 \in DOMAIN pMsgPipe[f] /\ i + 1 # 1 /\ Tail(pMsgPipe[f])[i] = pMsgPipe[f][i + 1]
  <2>1. pMsgPipe[f] \in Seq(Reply \cup {pBufferError})
    BY <1>1 DEF TypeOK
  <2> QED BY <1>0, <2>1, Tails
<1> HIDE DEF x
<1>3. x = pBufferError \/ (x \in Reply /\ x.to = t /\ x.result # "hardware")
  <2>1. x = pBufferError \/ IsAnswer(x, f)
    BY <1>1, <1>2 DEF Pipes, InPipe
  <2>2. IsAnswer(x, f) => fxn[x.to] = fxn[t] /\ x.to \in Thread
    BY Packets DEF IsAnswer, f
  <2> QED BY <1>1, <2>1, <2>2 DEF IsAnswer, Callers, f
<1>4. /\ pc'[t] = "result" /\ pRetPacket'[t] = x /\ pMsgPipe'[f] = Tail(pMsgPipe[f])
      /\ \A u \in Thread : u # t => pc'[u] = pc[u] /\ pRetPacket'[u] = pRetPacket[u] /\ fxn[u] # f
      /\ \A g \in Fxn : g # f => pMsgPipe'[g] = pMsgPipe[g]
  BY <1>0, <1>1 DEF TypeOK, Callers, f
<1>5. TypeOK'
  BY <1>0, <1>1, <1>2 DEF TypeOK, device, thread, memory
<1>6. Callers' /\ Instance'
  BY <1>0, <1>4 DEF Callers, Instance, device, thread, memory, f
<1>7. Channel'
  <2>1. UNCHANGED <<requests, messages, fxn, cb, pBuffer>>
    BY <1>0 DEF device, thread
  <2>2. \A u \in Thread : \A g : Waits(u, g) => u # t /\ Waits(u, g)'
    <3> TAKE u \in Thread
    <3> TAKE g
    <3> HAVE Waits(u, g)
    <3>1. u # t
      BY <1>0 DEF Waits, f
    <3>2. g # f
      BY <1>0 DEF Waits
    <3>3. g \in Fxn
      BY <3>1 DEF Waits, TypeOK, Callers
    <3> QED BY <1>4, <2>1, <3>1, <3>2, <3>3 DEF Waits
  <2> QED BY <2>1, <2>2, ChannelKept
<1>8. Pipes'
  <2>0. UNCHANGED <<eRPCError, fxn>>
    BY <1>0 DEF thread
  <2>2. ASSUME NEW g \in Fxn, g # f PROVE InPipe(g)'
    <3>1. \A u \in Thread : pc[u] = "wait" /\ fxn[u] = g => pc'[u] = "wait" /\ fxn'[u] = g
      BY <1>4, <2>0, <2>2 DEF f
    <3>2. InPipe(g) /\ pMsgPipe'[g] = pMsgPipe[g]
      BY <1>4, <2>2 DEF Pipes
    <3> QED BY <2>0, <3>1, <3>2, InPipeFrame
  <2>3. eRPCError # "Hardware" => pMsgPipe'[f] = <<>>
    <3>1. eRPCError # "Hardware" => Len(pMsgPipe[f]) <= 1
      BY <1>1 DEF Pipes, InPipe
    <3> QED BY <1>0, <1>2, <1>4, <3>1, LastTail, Zenon
  <2>4. ASSUME NEW i \in DOMAIN pMsgPipe'[f] PROVE pMsgPipe'[f][i] = pBufferError
    <3>1. i + 1 \in DOMAIN pMsgPipe[f] /\ i + 1 # 1 /\ pMsgPipe'[f][i] = pMsgPipe[f][i + 1]
      BY <1>2, <1>4, <2>4
    <3>2. InPipe(f)
      BY <1>1 DEF Pipes
    <3> QED BY <3>1, <3>2 DEF InPipe
  <2>5. Len(<<>>) <= 1
    OBVIOUS
  <2>6. ASSUME NEW g \in Fxn, g = f PROVE InPipe(g)'
    BY <2>0, <2>3, <2>4, <2>5, <2>6 DEF InPipe
  <2> QED BY <2>2, <2>6 DEF Pipes
<1>9. Results'
  BY <1>3, <1>4 DEF Results
<1>10. Owned' /\ Allocated'
  <2>0. UNCHANGED <<heap, misused, failedOnce, cb, pBuffer, eRPCError>>
    BY <1>0 DEF thread, memory
  <2>1. ASSUME NEW q \in heap, NEW g \in Fxn, pMsgPipe[g] # <<>>, q = pMsgPipe[g][1]
        PROVE  \/ \E h \in Fxn : pMsgPipe'[h] # <<>> /\ q = pMsgPipe'[h][1]
               \/ \E u \in Thread : pc'[u] = "result" /\ q = pRetPacket'[u]
    <3>1. CASE g = f
      BY <1>2, <1>4, <2>1, <3>1, Zenon
    <3>2. CASE g # f
      BY <1>4, <2>1, <3>2
    <3> QED BY <3>1, <3>2, Zenon
  <2>a. ASSUME NEW u \in Thread, pc[u] = "result"
        PROVE  pc'[u] = "result" /\ pRetPacket'[u] = pRetPacket[u]
    BY <1>0, <1>4, <2>a
  <2>b. Owned'
    BY <2>0, <2>1, <2>a DEF Owned
  <2>2. pMsgPipe'[f] # <<>> => pMsgPipe'[f][1] = pBufferError
    <3>1. pMsgPipe'[f] # <<>> =>
            1 + 1 \in DOMAIN pMsgPipe[f] /\ pMsgPipe'[f][1] = pMsgPipe[f][1 + 1]
      <4> DEFINE q == Tail(pMsgPipe[f])
      <4>1. q \in Seq(Reply \cup {pBufferError}) /\ pMsgPipe'[f] = q
        BY <1>2, <1>4, Zenon
      <4>2. \A i \in DOMAIN q : i + 1 \in DOMAIN pMsgPipe[f] /\ q[i] = pMsgPipe[f][i + 1]
        BY <1>2, Zenon
      <4> HIDE DEF q
      <4>3. q # <<>> => 1 \in DOMAIN q
        BY <4>1, Tails, Zenon
      <4> QED BY <4>1, <4>2, <4>3, Zenon
    <3>2. InPipe(f)
      BY <1>1 DEF Pipes
    <3> QED BY <3>1, <3>2 DEF InPipe
  <2>3. Allocated'
    BY <1>0, <1>1, <1>2, <1>4, <2>0, <2>2, Zenon DEF Allocated
  <2> QED BY <2>b, <2>3
<1> QED BY <1>5, <1>6, <1>7, <1>8, <1>9, <1>10

\* The call ends: the stub frees the packet it owns.
LEMMA ReturnStep ==
  ASSUME IInv, NEW t \in Thread, Return(t)
  PROVE  IInv'
<1> USE DEF IInv
<1> DEFINE p == pRetPacket[t]
<1>0. /\ pc[t] = "result"
      /\ pc' = [pc EXCEPT ![t] = "idle"] /\ fxn' = [fxn EXCEPT ![t] = NULL]
      /\ pRetPacket' = [pRetPacket EXCEPT ![t] = NULL]
      /\ IF p.result = "hardware" THEN UNCHANGED memory ELSE freePacket(p)
      /\ ctx' \in {ctx, "live", "failed"}
      /\ UNCHANGED <<device, pMsgPipe, thread>>
  BY DEF Return, afterGetHandle
<1>1. \/ p = pBufferError /\ UNCHANGED memory
      \/ /\ p \in Reply /\ p.to = t
         /\ heap' = heap \ {p} /\ misused' = (misused \/ p \notin heap)
  BY <1>0, Packets DEF Results, freePacket
<1> HIDE DEF p
<1>2. /\ pc'[t] = "idle" /\ fxn'[t] = NULL
      /\ \A u \in Thread : u # t => /\ pc'[u] = pc[u] /\ fxn'[u] = fxn[u]
                                    /\ pRetPacket'[u] = pRetPacket[u]
  BY <1>0 DEF TypeOK
<1>3. TypeOK'
  <2>1. /\ pc' \in [Thread -> {"idle", "wait", "result"}]
        /\ fxn' \in [Thread -> Fxn \cup {NULL}]
        /\ pRetPacket' \in [Thread -> Reply \cup {pBufferError, NULL}]
    BY <1>0 DEF TypeOK
  <2>2. misused' \in BOOLEAN /\ heap' \subseteq Reply \cup {Done, Scratch}
    BY <1>1, Zenon DEF TypeOK, memory
  <2> QED BY <1>0, <2>1, <2>2 DEF TypeOK, device, thread
<1>4. Callers'
  BY <1>2, Zenon DEF Callers
<1>5. Instance'
  <2>1. ctx \notin {"none", "hollow", "joining"}
    BY <1>0, Zenon DEF Instance
  <2>2. ctx' \notin {"none", "hollow", "joining"}
    BY <1>0, <2>1
  <2> QED BY <1>0, <2>2, Zenon DEF Instance, device, thread
<1>6. Channel'
  <2>1. UNCHANGED <<requests, messages, pMsgPipe, cb, pBuffer>>
    BY <1>0 DEF device, thread
  <2>2. \A u \in Thread : \A g : Waits(u, g) => Waits(u, g)'
    BY <1>0, <1>2, <2>1 DEF Waits
  <2> QED BY <2>1, <2>2, ChannelKept
<1>7. Pipes'
  <2>1. UNCHANGED <<pMsgPipe, eRPCError>>
    BY <1>0 DEF thread
  <2>2. \A u \in Thread, g \in Fxn : pc[u] = "wait" /\ fxn[u] = g => pc'[u] = "wait" /\ fxn'[u] = g
    BY <1>0, <1>2
  <2>3. \A g \in Fxn : InPipe(g)
    BY DEF Pipes
  <2>4. \A g \in Fxn : InPipe(g)'
    BY <2>1, <2>2, <2>3, InPipeFrame, Zenon
  <2> QED BY <2>4 DEF Pipes
<1>8. Results'
  BY <1>2, Zenon DEF Results
<1>9. Owned'
  <2>1. p \notin heap'
    BY <1>1, Packets DEF TypeOK, memory
  <2>2. heap' \subseteq heap
    BY <1>1 DEF memory
  <2>3. UNCHANGED <<pMsgPipe, cb, pBuffer, eRPCError>>
    BY <1>0 DEF thread
  <2>4. ASSUME NEW u \in Thread, NEW q \in heap', pc[u] = "result", q = pRetPacket[u]
        PROVE  pc'[u] = "result" /\ q = pRetPacket'[u]
    BY <1>2, <2>1, <2>4 DEF p
  <2> SUFFICES ASSUME NEW q \in heap' PROVE
        \/ cb' = "switch" /\ q = pBuffer'
        \/ cb' = "EXIT" /\ eRPCError' # "None" /\ pBuffer' = Scratch /\ q = Scratch
        \/ \E f \in Fxn : pMsgPipe'[f] # <<>> /\ q = pMsgPipe'[f][1]
        \/ \E u \in Thread : pc'[u] = "result" /\ q = pRetPacket'[u]
    BY Zenon DEF Owned
  <2>5. \/ cb = "switch" /\ q = pBuffer
        \/ cb = "EXIT" /\ eRPCError # "None" /\ pBuffer = Scratch /\ q = Scratch
        \/ \E f \in Fxn : pMsgPipe[f] # <<>> /\ q = pMsgPipe[f][1]
        \/ \E u \in Thread : pc[u] = "result" /\ q = pRetPacket[u]
    BY <2>2, Zenon DEF Owned
  <2> QED BY <2>3, <2>4, <2>5
<1>10. Allocated'
  <2> SUFFICES ASSUME ~failedOnce PROVE Allocated'
    BY <1>0, Zenon DEF Allocated, thread
  <2>1. UNCHANGED <<pMsgPipe, cb, pBuffer, eRPCError, failedOnce>>
    BY <1>0 DEF thread
  <2>2. ~misused'
    BY <1>0, <1>1, Packets, Zenon DEF Allocated, memory, p
  <2>3. ASSUME NEW q \in heap, q # p PROVE q \in heap'
    BY <1>1, <2>3 DEF memory
  <2>4. cb = "switch" => pBuffer \in heap'
    <3>1. cb = "switch" => pBuffer # p
      BY <1>0, <1>1, Packets, Zenon DEF Channel, Waits, TypeOK
    <3> QED BY <2>3, <3>1 DEF Allocated
  <2>5. cb = "EXIT" /\ eRPCError # "None" => Scratch \in heap'
    BY <1>1, <2>3, Packets DEF Allocated, TypeOK
  <2>6. ASSUME NEW f \in Fxn, pMsgPipe[f] # <<>> PROVE pMsgPipe[f][1] \in heap' \cup {pBufferError}
    <3>1. 1 \in DOMAIN pMsgPipe[f]
      BY <2>6, Tails DEF TypeOK
    <3>2. CASE IsAnswer(pMsgPipe[f][1], f)
      <4>1. pMsgPipe[f][1] # p
        BY <1>0, <1>1, <3>2, Packets, Zenon DEF IsAnswer
      <4> QED BY <2>3, <2>6, <4>1 DEF Allocated
    <3> QED BY <3>1, <3>2 DEF Pipes, InPipe
  <2>7. ASSUME NEW u \in Thread, pc'[u] = "result" PROVE pRetPacket'[u] \in heap' \cup {pBufferError}
    <3>1. u # t /\ pc[u] = "result" /\ pRetPacket'[u] = pRetPacket[u]
      BY <1>2, <2>7
    <3>2. pRetPacket[u] = pBufferError \/ pRetPacket[u] # p
      BY <1>1, <3>1, Packets DEF Results
    <3> QED BY <2>3, <3>1, <3>2 DEF Allocated
  <2> QED BY <2>1, <2>2, <2>4, <2>5, <2>6, <2>7 DEF Allocated
<1> QED BY <1>3, <1>4, <1>5, <1>6, <1>7, <1>8, <1>9, <1>10

-----------------------------------------------------------------------------
(* The remote core *)

\* A step of the remote core changes only its queues.
LEMMA RemoteFrame ==
  ASSUME IInv, UNCHANGED <<ctx, client, pMsgPipe, thread, memory>>
  PROVE  Callers' /\ Results' /\ Pipes' /\ Owned' /\ Allocated'
<1> USE DEF IInv, client, thread, memory
<1>1. Callers' /\ Results'
  BY DEF Callers, Results
<1>2. Pipes'
  BY PipesFrame
<1>3. Owned' /\ Allocated'
  BY DEF Owned, Allocated
<1> QED BY <1>1, <1>2, <1>3

\* The answer takes the place of its request.
LEMMA ReplyStep ==
  ASSUME IInv, NEW r \in Result, RemoteReply(r)
  PROVE  IInv'
<1> USE DEF IInv
<1> DEFINE q == Head(requests)
           m == [to |-> q.from, fxn |-> q.fxn, result |-> r]
<1>0. /\ requests # <<>> /\ messages' = Append(messages, m) /\ requests' = Tail(requests)
      /\ UNCHANGED <<ctx, pAppData, client, faulty, pMsgPipe, thread, memory>>
  BY DEF RemoteReply
<1>1. requests \in Seq([from : Thread, fxn : Fxn])
  BY DEF TypeOK
<1>2. /\ q = requests[1] /\ 1 \in DOMAIN requests
      /\ requests' \in Seq([from : Thread, fxn : Fxn])
      /\ \A i \in DOMAIN requests' :
           i + 1 \in DOMAIN requests /\ i + 1 # 1 /\ requests'[i] = requests[i + 1]
      /\ \A i, j \in DOMAIN requests' : i # j => i + 1 # j + 1
  BY <1>0, <1>1, Tails
<1>3. q.from \in Thread /\ q.fxn \in Fxn
  BY <1>2, Addressed, Zenon
<1>4. m \in Reply /\ m.to = q.from /\ m.fxn = q.fxn /\ m # Done
  BY <1>3, Packets, Zenon DEF Reply
<1> HIDE DEF q, m
<1>5. /\ messages' \in Seq(Reply \cup {Done})
      /\ \A i \in DOMAIN messages' :
              \/ i \in DOMAIN messages /\ messages'[i] = messages[i]
              \/ i = Len(messages) + 1 /\ i \notin DOMAIN messages /\ messages'[i] = m
  <2>1. messages \in Seq(Reply \cup {Done}) /\ m \in Reply \cup {Done}
    BY <1>4, Zenon DEF TypeOK
  <2> DEFINE s == messages
             S == Reply \cup {Done}
  <2> HIDE DEF s, S
  <2>2. s \in Seq(S) /\ m \in S
    BY <2>1, Zenon DEF s, S
  <2>3. /\ Append(s, m) \in Seq(S)
        /\ \A i \in DOMAIN Append(s, m) :
             \/ i \in DOMAIN s /\ Append(s, m)[i] = s[i]
             \/ i = Len(s) + 1 /\ i \notin DOMAIN s /\ Append(s, m)[i] = m
    BY <2>2, Appends, Zenon
  <2> QED BY <1>0, <2>3, Zenon DEF s, S
<1>6. TypeOK'
  <2>1. requests' \in Seq([from : Thread, fxn : Fxn]) /\ messages' \in Seq(Reply \cup {Done})
    BY <1>2, <1>5, Zenon
  <2>2. UNCHANGED <<ctx, pc, fxn, pRetPacket, pMsgPipe, faulty, cb, pBuffer, eRPCError>>
    BY <1>0 DEF client, thread
  <2>3. UNCHANGED <<failedOnce, heap, misused>>
    BY <1>0 DEF thread, memory
  <2> QED BY <2>1, <2>2, <2>3 DEF TypeOK
<1>7. Callers' /\ Results' /\ Pipes' /\ Owned' /\ Allocated'
  BY <1>0, RemoteFrame
<1>8. Instance'
  BY <1>0, Zenon DEF Instance, client, thread, memory
<1>9. Channel'
  <2>0. UNCHANGED <<pc, fxn, pMsgPipe, cb, pBuffer>>
    BY <1>0 DEF client, thread
  <2>1. /\ Waits(m.to, m.fxn) /\ ~Held(m.to)
        /\ \A i \in DOMAIN requests' : requests'[i].from # m.to
        /\ \A i \in DOMAIN messages : messages[i].to # m.to
    BY <1>2, <1>4, Zenon DEF Channel
  <2>2. ASSUME NEW i \in DOMAIN requests'
        PROVE  /\ Waits(requests'[i].from, requests'[i].fxn) /\ ~Held(requests'[i].from)
               /\ \A j \in DOMAIN requests' : i # j => requests'[i].from # requests'[j].from
               /\ \A j \in DOMAIN messages' : requests'[i].from # messages'[j].to
    <3>1. i + 1 \in DOMAIN requests /\ i + 1 # 1 /\ requests'[i] = requests[i + 1]
      BY <1>2, <2>2, Zenon
    <3>2. Waits(requests'[i].from, requests'[i].fxn) /\ ~Held(requests'[i].from)
      BY <3>1, Zenon DEF Channel
    <3>3. ASSUME NEW j \in DOMAIN requests', i # j PROVE requests'[i].from # requests'[j].from
      <4>1. j + 1 \in DOMAIN requests /\ i + 1 # j + 1 /\ requests'[j] = requests[j + 1]
        BY <1>2, <3>3, Zenon
      <4> QED BY <3>1, <4>1, Zenon DEF Channel
    <3>4. \A j \in DOMAIN messages : requests'[i].from # messages[j].to
      BY <3>1, Zenon DEF Channel
    <3>5. \A j \in DOMAIN messages' : requests'[i].from # messages'[j].to
      BY <1>5, <2>1, <3>4, Zenon
    <3> QED BY <3>2, <3>3, <3>5, Zenon
  <2>3. ASSUME NEW i \in DOMAIN messages', messages'[i] # Done
        PROVE  /\ Waits(messages'[i].to, messages'[i].fxn) /\ ~Held(messages'[i].to)
               /\ \A j \in DOMAIN messages' : i # j => messages'[i].to # messages'[j].to
    <3>1. CASE i \in DOMAIN messages /\ messages'[i] = messages[i]
      BY <1>5, <2>1, <2>3, <3>1, Zenon DEF Channel
    <3>2. CASE i = Len(messages) + 1 /\ messages'[i] = m
      BY <1>5, <2>1, <3>2, Zenon
    <3> QED BY <1>5, <3>1, <3>2, Zenon
  <2>4. cb = "switch" /\ pBuffer # Done => Waits(pBuffer.to, pBuffer.fxn)
    BY Zenon DEF Channel
  <2>5. /\ \A t, f : Waits(t, f)' <=> Waits(t, f)
        /\ \A t : Held(t)' <=> Held(t)
    BY <2>0 DEF Waits, Held
  <2> QED BY <2>0, <2>2, <2>3, <2>4, <2>5, Zenon DEF Channel
<1> QED BY <1>6, <1>7, <1>8, <1>9

\* An EmptyBufferDone or FillBufferDone of the remote core is for no thread.
LEMMA RemoteCallbackStep == IInv /\ RemoteCallback => IInv'
<1> SUFFICES ASSUME IInv, RemoteCallback PROVE IInv'
  OBVIOUS
<1> USE DEF IInv
<1>0. /\ ctx = "live" /\ ~faulty /\ messages' = Append(messages, Done)
      /\ UNCHANGED <<ctx, pAppData, client, requests, faulty, pMsgPipe, thread, memory>>
  BY DEF RemoteCallback
<1>1. /\ messages' \in Seq(Reply \cup {Done})
      /\ \A i \in DOMAIN messages' :
              \/ i \in DOMAIN messages /\ messages'[i] = messages[i]
              \/ i = Len(messages) + 1 /\ i \notin DOMAIN messages /\ messages'[i] = Done
  <2>1. messages \in Seq(Reply \cup {Done}) /\ Done \in Reply \cup {Done}
    BY DEF TypeOK
  <2> QED BY <1>0, <2>1, Appends
<1>2. TypeOK'
  BY <1>0, <1>1, Zenon DEF TypeOK, client, thread, memory
<1>3. Callers' /\ Results' /\ Pipes' /\ Owned' /\ Allocated'
  BY <1>0, RemoteFrame
<1>4. Instance'
  BY <1>0, Zenon DEF Instance, client, thread, memory
<1>5. Channel'
  <2>0. UNCHANGED <<pc, fxn, requests, pMsgPipe, cb, pBuffer>>
    BY <1>0 DEF client, thread
  <2>1. ASSUME NEW i \in DOMAIN requests
        PROVE  /\ Waits(requests[i].from, requests[i].fxn) /\ ~Held(requests[i].from)
               /\ \A j \in DOMAIN requests : i # j => requests[i].from # requests[j].from
               /\ \A j \in DOMAIN messages' : requests[i].from # messages'[j].to
    BY <1>1, Addressed, Packets, NullAssumption, Zenon DEF Channel
  <2>2. ASSUME NEW i \in DOMAIN messages', messages'[i] # Done
        PROVE  /\ Waits(messages'[i].to, messages'[i].fxn) /\ ~Held(messages'[i].to)
               /\ \A j \in DOMAIN messages' : i # j => messages'[i].to # messages'[j].to
    <3>1. i \in DOMAIN messages /\ messages'[i] = messages[i] /\ messages[i].to # Done.to
      BY <1>1, <2>2, Addressed, Packets, NullAssumption, Zenon
    <3> QED BY <1>1, <2>2, <3>1, Zenon DEF Channel
  <2>3. /\ \A t, f : Waits(t, f)' <=> Waits(t, f)
        /\ \A t : Held(t)' <=> Held(t)
    BY <2>0 DEF Waits, Held
  <2>4. cb = "switch" /\ pBuffer # Done => Waits(pBuffer.to, pBuffer.fxn)
    BY Zenon DEF Channel
  <2> QED BY <2>0, <2>1, <2>2, <2>3, <2>4, Zenon DEF Channel
<1> QED BY <1>2, <1>3, <1>4, <1>5

\* A death of the remote core drops what the driver had queued.
LEMMA RemoteDiesStep == IInv /\ RemoteDies => IInv'
<1> SUFFICES ASSUME IInv, RemoteDies PROVE IInv'
  OBVIOUS
<1> USE DEF IInv
<1>0. /\ connected /\ faulty' = TRUE /\ requests' = <<>> /\ messages' = <<>>
      /\ UNCHANGED <<ctx, pAppData, client, pMsgPipe, thread, memory>>
  BY DEF RemoteDies
<1>1. TypeOK'
  BY <1>0 DEF TypeOK, client, thread, memory
<1>2. Callers' /\ Results' /\ Pipes' /\ Owned' /\ Allocated'
  BY <1>0, RemoteFrame
<1>3. Instance'
  BY <1>0 DEF Instance, client, thread, memory
<1>4. Channel'
  <2>0. UNCHANGED <<pc, fxn, pMsgPipe, cb, pBuffer>>
    BY <1>0 DEF client, thread
  <2> QED BY <1>0, <2>0, Empty, Zenon DEF Channel, Waits
<1> QED BY <1>1, <1>2, <1>3, <1>4

-----------------------------------------------------------------------------
(* RPC_CallbackThread *)

\* The thread never touches the state of a call.
LEMMA ThreadFrame == IInv /\ UNCHANGED client => Callers' /\ Results'
BY Zenon DEF IInv, client, Callers, Results

\* The thread leaves its loop at the kill, or because the driver reports a death.
LEMMA KilledStep == IInv /\ Killed => IInv'
<1> SUFFICES ASSUME IInv, Killed PROVE IInv'
  OBVIOUS
<1> USE DEF IInv, Killed
<1>1. TypeOK'
  BY DEF TypeOK, client, device, memory
<1>2. Callers' /\ Results'
  BY ThreadFrame
<1>3. Instance'
  BY Zenon DEF Instance, client, device, memory
<1>4. Channel' /\ Pipes'
  <2>1. UNCHANGED <<pc, fxn, requests, messages, pMsgPipe, eRPCError>> /\ cb' # "switch"
    BY DEF client, device
  <2> QED BY <2>1, ChannelFrame, PipesFrame
<1>5. Owned' /\ Allocated'
  BY Zenon DEF Owned, Allocated, client, memory
<1> QED BY <1>1, <1>2, <1>3, <1>4, <1>5

\* read() moves the answer from the driver's queue into the thread's hands.
LEMMA ReadStep == IInv /\ Read => IInv'
<1> SUFFICES ASSUME IInv, Read PROVE IInv'
  OBVIOUS
<1> USE DEF IInv
<1> DEFINE m == Head(messages)
<1>0. /\ cb = "select" /\ ctx # "joining" /\ ~faulty /\ messages # <<>>
      /\ pBuffer' = m /\ heap' = heap \cup {m}
      /\ messages' = Tail(messages) /\ cb' = "switch"
      /\ UNCHANGED <<ctx, pAppData, client, requests, faulty, pMsgPipe, eRPCError, told, failedOnce, misused>>
  BY DEF Read
<1>1. /\ m = messages[1] /\ 1 \in DOMAIN messages /\ m \in Reply \cup {Done}
      /\ messages' \in Seq(Reply \cup {Done})
      /\ \A i \in DOMAIN messages' :
           i + 1 \in DOMAIN messages /\ i + 1 # 1 /\ messages'[i] = messages[i + 1]
      /\ \A i, j \in DOMAIN messages' : i # j => i + 1 # j + 1
  <2>1. messages \in Seq(Reply \cup {Done})
    BY DEF TypeOK
  <2> QED BY <1>0, <2>1, Tails
<1> HIDE DEF m
<1>2. TypeOK'
  BY <1>0, <1>1 DEF TypeOK, client
<1>3. Callers' /\ Results'
  BY <1>0, ThreadFrame
<1>4. Instance'
  BY <1>0 DEF Instance, client
<1>5. Channel'
  <2>0. UNCHANGED <<pc, fxn, requests, pMsgPipe>>
    BY <1>0 DEF client
  <2>1. m # Done => Waits(m.to, m.fxn)
    BY <1>1, Zenon DEF Channel
  <2>2. ASSUME NEW i \in DOMAIN requests
        PROVE  /\ Waits(requests[i].from, requests[i].fxn) /\ requests[i].from # m.to
               /\ \A j \in DOMAIN requests : i # j => requests[i].from # requests[j].from
               /\ \A j \in DOMAIN messages' : requests[i].from # messages'[j].to
    <3>1. /\ Waits(requests[i].from, requests[i].fxn)
          /\ \A j \in DOMAIN requests : i # j => requests[i].from # requests[j].from
          /\ \A j \in DOMAIN messages : requests[i].from # messages[j].to
      BY <2>2, Zenon DEF Channel
    <3> QED BY <1>1, <3>1, Zenon
  <2>3. ASSUME NEW i \in DOMAIN messages', messages'[i] # Done
        PROVE  /\ Waits(messages'[i].to, messages'[i].fxn) /\ messages'[i].to # m.to
               /\ \A j \in DOMAIN messages' : i # j => messages'[i].to # messages'[j].to
    <3>1. i + 1 \in DOMAIN messages /\ i + 1 # 1 /\ messages'[i] = messages[i + 1]
      BY <1>1, <2>3
    <3>2. /\ Waits(messages'[i].to, messages'[i].fxn)
          /\ \A j \in DOMAIN messages : i + 1 # j => messages'[i].to # messages[j].to
      BY <2>3, <3>1 DEF Channel
    <3>3. ASSUME NEW j \in DOMAIN messages', i # j PROVE messages'[i].to # messages'[j].to
      <4>1. j + 1 \in DOMAIN messages /\ i + 1 # j + 1 /\ messages'[j] = messages[j + 1]
        BY <1>1, <3>3
      <4> QED BY <3>2, <4>1
    <3> QED BY <1>1, <3>1, <3>2, <3>3, Zenon
  <2>4. /\ \A t, f : Waits(t, f) => pc'[t] = "wait" /\ fxn'[t] = f /\ pMsgPipe'[f] = <<>>
        /\ cb' = "switch" /\ pBuffer' = m
    BY <1>0, <2>0 DEF Waits
  <2>5. ASSUME NEW i \in DOMAIN requests
        PROVE  /\ pc'[requests[i].from] = "wait" /\ fxn'[requests[i].from] = requests[i].fxn
               /\ pMsgPipe'[requests[i].fxn] = <<>>
               /\ ~(cb' = "switch" /\ pBuffer'.to = requests[i].from)
    BY <2>2, <2>4, <2>5, Zenon
  <2>6. ASSUME NEW i \in DOMAIN messages', messages'[i] # Done
        PROVE  /\ pc'[messages'[i].to] = "wait" /\ fxn'[messages'[i].to] = messages'[i].fxn
               /\ pMsgPipe'[messages'[i].fxn] = <<>>
               /\ ~(cb' = "switch" /\ pBuffer'.to = messages'[i].to)
    <3>1. Waits(messages'[i].to, messages'[i].fxn) /\ messages'[i].to # m.to
      BY <2>3, <2>6, Zenon
    <3> QED BY <2>4, <3>1, Zenon
  <2>7. pBuffer' # Done => /\ pc'[pBuffer'.to] = "wait" /\ fxn'[pBuffer'.to] = pBuffer'.fxn
                           /\ pMsgPipe'[pBuffer'.fxn] = <<>>
    BY <2>1, <2>4, Zenon
  <2> QED BY <2>0, <2>2, <2>3, <2>5, <2>6, <2>7, Zenon DEF Channel, Waits, Held
<1>6. Pipes'
  BY <1>0, PipesFrame DEF client
<1>7. Owned'
  BY <1>0 DEF Owned, client
<1>8. Allocated'
  BY <1>0, Zenon DEF Allocated, client
<1> QED BY <1>2, <1>3, <1>4, <1>5, <1>6, <1>7, <1>8

\* A dead remote core: one pBufferError behind whatever is in the pipes.
LEMMA ReadFatalStep == IInv /\ ReadFatal => IInv'
<1> SUFFICES ASSUME IInv, ReadFatal PROVE IInv'
  OBVIOUS
<1> USE DEF IInv
<1>0. /\ cb = "select" /\ faulty
      /\ pBuffer' = Scratch /\ heap' = heap \cup {Scratch}
      /\ pMsgPipe' = [f \in Fxn |-> Append(pMsgPipe[f], pBufferError)]
      /\ eRPCError' = "Hardware" /\ cb' = "EXIT"
      /\ UNCHANGED <<ctx, pAppData, client, device, told, failedOnce, misused>>
  BY DEF ReadFatal
<1>1. requests = <<>> /\ messages = <<>>
  BY <1>0 DEF Instance
<1>2. ASSUME NEW f \in Fxn
      PROVE  /\ pMsgPipe'[f] \in Seq(Reply \cup {pBufferError})
             /\ \A i \in DOMAIN pMsgPipe'[f] :
                  \/ i \in DOMAIN pMsgPipe[f] /\ pMsgPipe'[f][i] = pMsgPipe[f][i]
                  \/ pMsgPipe'[f][i] = pBufferError
             /\ pMsgPipe'[f] # <<>>
             /\ pMsgPipe[f] # <<>> => pMsgPipe'[f][1] = pMsgPipe[f][1]
             /\ pMsgPipe[f] = <<>> => pMsgPipe'[f][1] = pBufferError
  <2>1. pMsgPipe[f] \in Seq(Reply \cup {pBufferError}) /\ pBufferError \in Reply \cup {pBufferError}
    BY DEF TypeOK
  <2>2. pMsgPipe'[f] = Append(pMsgPipe[f], pBufferError)
    BY <1>0
  <2>3. /\ pMsgPipe'[f] # <<>>
        /\ pMsgPipe[f] # <<>> => pMsgPipe'[f][1] = pMsgPipe[f][1]
        /\ pMsgPipe[f] = <<>> => pMsgPipe'[f][1] = pBufferError
    BY <2>1, <2>2, AppendFirst
  <2>4. /\ pMsgPipe'[f] \in Seq(Reply \cup {pBufferError})
        /\ \A i \in DOMAIN pMsgPipe'[f] :
             \/ i \in DOMAIN pMsgPipe[f] /\ pMsgPipe'[f][i] = pMsgPipe[f][i]
             \/ pMsgPipe'[f][i] = pBufferError
    BY <2>1, <2>2, Appends
  <2> QED BY <2>3, <2>4
<1>3. TypeOK'
  <2>1. pMsgPipe' \in [Fxn -> Seq(Reply \cup {pBufferError})]
    BY <1>0, <1>2
  <2> QED BY <1>0, <2>1 DEF TypeOK, client, device
<1>4. Callers' /\ Results'
  BY <1>0, ThreadFrame
<1>5. Instance'
  BY <1>0 DEF Instance, client, device
<1>6. Channel'
  BY <1>0, <1>1, Empty, Zenon DEF Channel, device
<1>7. Pipes'
  <2>1. ASSUME NEW f \in Fxn, NEW i \in DOMAIN pMsgPipe'[f]
        PROVE  pMsgPipe'[f][i] = pBufferError \/ (i = 1 /\ IsAnswer(pMsgPipe[f][i], f)')
    <3>1. CASE i \in DOMAIN pMsgPipe[f] /\ pMsgPipe'[f][i] = pMsgPipe[f][i]
      <4>1. pMsgPipe[f][i] = pBufferError \/ (i = 1 /\ IsAnswer(pMsgPipe[f][i], f))
        BY <3>1 DEF Pipes, InPipe
      <4>2. UNCHANGED <<pc, fxn>>
        BY <1>0 DEF client
      <4> QED BY <3>1, <4>1, <4>2, Zenon DEF IsAnswer
    <3> QED BY <1>2, <3>1, Zenon
  <2> QED BY <1>0, <2>1, Zenon DEF Pipes, InPipe
<1>8. Owned'
  <2>1. UNCHANGED <<pc, pRetPacket>>
    BY <1>0 DEF client
  <2>2. \A f \in Fxn : pMsgPipe[f] # <<>> => pMsgPipe'[f] # <<>> /\ pMsgPipe'[f][1] = pMsgPipe[f][1]
    BY <1>2, Zenon
  <2>3. /\ cb = "select" /\ cb' = "EXIT" /\ eRPCError' # "None" /\ pBuffer' = Scratch
        /\ \A q \in heap' : q \in heap \/ q = Scratch
    BY <1>0
  <2>4. \A q \in heap : \/ \E f \in Fxn : pMsgPipe[f] # <<>> /\ q = pMsgPipe[f][1]
                       \/ \E t \in Thread : pc[t] = "result" /\ q = pRetPacket[t]
    BY <2>3 DEF Owned
  <2>5. \A q \in heap : \/ \E f \in Fxn : pMsgPipe'[f] # <<>> /\ q = pMsgPipe'[f][1]
                       \/ \E t \in Thread : pc'[t] = "result" /\ q = pRetPacket'[t]
    <3> SUFFICES ASSUME NEW q \in heap
                 PROVE  \/ \E f \in Fxn : pMsgPipe'[f] # <<>> /\ q = pMsgPipe'[f][1]
                        \/ \E t \in Thread : pc'[t] = "result" /\ q = pRetPacket'[t]
      BY Zenon
    <3>1. CASE \E f \in Fxn : pMsgPipe[f] # <<>> /\ q = pMsgPipe[f][1]
      BY <2>2, <3>1, Zenon
    <3>2. CASE \E t \in Thread : pc[t] = "result" /\ q = pRetPacket[t]
      BY <2>1, <3>2, Zenon
    <3> QED BY <2>4, <3>1, <3>2, Zenon
  <2> QED BY <2>3, <2>5, Zenon DEF Owned
<1>9. Allocated'
  <2>1. UNCHANGED <<pc, pRetPacket>>
    BY <1>0 DEF client
  <2> SUFFICES ASSUME ~failedOnce PROVE Allocated'
    BY <1>0, Zenon DEF Allocated
  <2>2. /\ ~misused
        /\ \A f \in Fxn : pMsgPipe[f] # <<>> => pMsgPipe[f][1] \in heap \cup {pBufferError}
        /\ \A t \in Thread : pc[t] = "result" => pRetPacket[t] \in heap \cup {pBufferError}
    BY Zenon DEF Allocated
  <2>3. heap \subseteq heap' /\ Scratch \in heap'
    BY <1>0
  <2>4. ASSUME NEW f \in Fxn PROVE pMsgPipe'[f][1] \in heap' \cup {pBufferError}
    <3>1. CASE pMsgPipe[f] = <<>>
      BY <1>2, <3>1
    <3>2. CASE pMsgPipe[f] # <<>>
      <4>1. pMsgPipe'[f][1] = pMsgPipe[f][1]
        BY <1>2, <3>2
      <4> QED BY <2>2, <2>3, <3>2, <4>1, Zenon
    <3> QED BY <3>1, <3>2
  <2>5. \A t \in Thread : pc'[t] = "result" => pRetPacket'[t] \in heap' \cup {pBufferError}
    BY <2>1, <2>2, <2>3, Zenon
  <2> QED BY <1>0, <2>2, <2>3, <2>4, <2>5, Zenon DEF Allocated
<1> QED BY <1>3, <1>4, <1>5, <1>6, <1>7, <1>8, <1>9

\* A failed read() ends the promises about the heap (failedOnce).
LEMMA ReadFailsStep == IInv /\ ReadFails => IInv'
<1> SUFFICES ASSUME IInv, ReadFails PROVE IInv'
  OBVIOUS
<1> USE DEF IInv, ReadFails
<1>1. TypeOK'
  BY Zenon DEF TypeOK, client, device
<1>2. Callers' /\ Results'
  BY ThreadFrame
<1>3. Instance'
  BY Zenon DEF Instance, client, device
<1>4. Channel' /\ Pipes'
  <2>1. UNCHANGED <<pc, fxn, requests, messages, pMsgPipe>> /\ cb' # "switch"
    BY DEF client, device
  <2>2. eRPCError # "Hardware"
    BY DEF Instance
  <2> QED BY <2>1, <2>2, ChannelFrame, PipesFrame
<1>6. Owned' /\ Allocated'
  BY Zenon DEF Owned, Allocated, client
<1> QED BY <1>1, <1>2, <1>3, <1>4, <1>6

\* A failed select() does too.
LEMMA SelectFailsStep == IInv /\ SelectFails => IInv'
<1> SUFFICES ASSUME IInv, SelectFails PROVE IInv'
  OBVIOUS
<1> USE DEF IInv, SelectFails
<1>1. TypeOK'
  BY DEF TypeOK, client, device, memory
<1>2. Callers' /\ Results'
  BY ThreadFrame
<1>3. Instance'
  BY Zenon DEF Instance, client, device, memory
<1>4. Channel' /\ Pipes'
  <2>1. UNCHANGED <<pc, fxn, requests, messages, pMsgPipe>> /\ cb' # "switch"
    BY DEF client, device
  <2>2. eRPCError # "Hardware"
    BY Zenon DEF Instance
  <2> QED BY <2>1, <2>2, ChannelFrame, PipesFrame
<1>6. Owned' /\ Allocated'
  BY Zenon DEF Owned, Allocated, client, memory
<1> QED BY <1>1, <1>2, <1>3, <1>4, <1>6

\* The first pointer of a pipe is an answer some thread waits for, or pBufferError.
LEMMA FirstInPipe ==
  ASSUME IInv, NEW f \in Fxn, pMsgPipe[f] # <<>>
  PROVE  pMsgPipe[f][1] = pBufferError \/ IsAnswer(pMsgPipe[f][1], f)
<1>1. pMsgPipe[f] \in Seq(Reply \cup {pBufferError})
  BY DEF IInv, TypeOK
<1>2. 1 \in DOMAIN pMsgPipe[f]
  BY <1>1, Tails
<1> QED BY <1>2 DEF IInv, Pipes, InPipe

\* A packet the thread frees is none that a pipe or a stub holds.
LEMMA FreeStep ==
  ASSUME IInv, NEW p, NEW q, freePacket(p),
         \/ cb = "switch" /\ p = pBuffer
         \/ p = Scratch,
         \/ \E f \in Fxn : pMsgPipe[f] # <<>> /\ q = pMsgPipe[f][1]
         \/ \E t \in Thread : pc[t] = "result" /\ q = pRetPacket[t],
         q \in heap \cup {pBufferError}
  PROVE  q \in heap' \cup {pBufferError}
<1> USE DEF IInv
<1>1. CASE q = pBufferError
  BY <1>1
<1>2. ASSUME NEW f \in Fxn, pMsgPipe[f] # <<>>, q = pMsgPipe[f][1], q # pBufferError PROVE q # p
  <2>1. IsAnswer(q, f)
    BY <1>2, FirstInPipe, Zenon
  <2>2. CASE p = Scratch
    BY <2>1, <2>2, Packets, Zenon DEF IsAnswer
  <2>3. CASE cb = "switch" /\ p = pBuffer
    <3>1. pBuffer # Done => pMsgPipe[pBuffer.fxn] = <<>>
      BY <2>3, Zenon DEF Channel, Waits
    <3> QED BY <1>2, <2>1, <2>3, <3>1, Packets, Zenon DEF IsAnswer
  <2> QED BY <2>2, <2>3
<1>3. ASSUME NEW t \in Thread, pc[t] = "result", q = pRetPacket[t], q # pBufferError PROVE q # p
  <2>1. q \in Reply /\ q.to = t
    BY <1>3, Zenon DEF Results
  <2>2. CASE cb = "switch" /\ p = pBuffer
    <3>1. pBuffer # Done => pc[pBuffer.to] = "wait"
      BY <2>2, Zenon DEF Channel, Waits
    <3> QED BY <1>3, <2>1, <2>2, <3>1, Packets, Zenon
  <2> QED BY <2>1, <2>2, Packets, Zenon
<1> QED BY <1>1, <1>2, <1>3 DEF freePacket

\* The first pointers and the stubs' packets stay allocated over such a free.
LEMMA FreeKeeps ==
  ASSUME IInv, ~failedOnce, NEW p, freePacket(p), p \in heap,
         \/ cb = "switch" /\ p = pBuffer
         \/ p = Scratch
  PROVE  /\ ~misused'
         /\ \A f \in Fxn : pMsgPipe[f] # <<>> => pMsgPipe[f][1] \in heap' \cup {pBufferError}
         /\ \A t \in Thread : pc[t] = "result" => pRetPacket[t] \in heap' \cup {pBufferError}
<1>1. ~misused'
  BY Zenon DEF freePacket, IInv, Allocated
<1>2. ASSUME NEW f \in Fxn, pMsgPipe[f] # <<>> PROVE pMsgPipe[f][1] \in heap' \cup {pBufferError}
  <2>1. pMsgPipe[f][1] \in heap \cup {pBufferError}
    BY <1>2 DEF IInv, Allocated
  <2> QED BY <1>2, <2>1, FreeStep
<1>3. ASSUME NEW t \in Thread, pc[t] = "result" PROVE pRetPacket[t] \in heap' \cup {pBufferError}
  <2>1. pRetPacket[t] \in heap \cup {pBufferError}
    BY <1>3 DEF IInv, Allocated
  <2> QED BY <1>3, <2>1, FreeStep, Zenon
<1> QED BY <1>1, <1>2, <1>3

\* A callback is handed to the client and its packet freed by the thread.
LEMMA CallbackStep == IInv /\ Callback => IInv'
<1> SUFFICES ASSUME IInv, Callback PROVE IInv'
  OBVIOUS
<1> USE DEF IInv
<1>0. /\ cb = "switch" /\ pBuffer = Done /\ freePacket(pBuffer) /\ pBuffer' = NULL /\ cb' = "EXIT"
      /\ UNCHANGED <<ctx, pAppData, client, device, pMsgPipe, eRPCError, told, failedOnce>>
  BY DEF Callback
<1>1. TypeOK'
  <2>1. misused' \in BOOLEAN /\ heap' \subseteq Reply \cup {Done, Scratch}
    BY <1>0 DEF freePacket, TypeOK
  <2> QED BY <1>0, <2>1, Zenon DEF TypeOK, client, device
<1>2. Callers' /\ Results'
  BY <1>0, ThreadFrame
<1>3. Instance'
  BY <1>0, Zenon DEF Instance, client, device, freePacket
<1>4. Channel' /\ Pipes'
  <2>1. UNCHANGED <<pc, fxn, requests, messages, pMsgPipe, eRPCError>> /\ cb' # "switch"
    BY <1>0 DEF client, device
  <2> QED BY <2>1, ChannelFrame, PipesFrame
<1>5. Owned'
  BY <1>0, Zenon DEF Owned, client, freePacket
<1>6. Allocated'
  <2> SUFFICES ASSUME ~failedOnce PROVE Allocated'
    BY <1>0, Zenon DEF Allocated
  <2>1. eRPCError = "None" /\ pBuffer \in heap
    BY <1>0, Zenon DEF Allocated, Instance, TypeOK
  <2> QED BY <1>0, <2>1, FreeKeeps, Zenon DEF Allocated, client
<1> QED BY <1>1, <1>2, <1>3, <1>4, <1>5, <1>6

\* The answer that leaves the channel for its pipe was the only one for its thread.
LEMMA ChannelLeft ==
  ASSUME IInv, cb = "switch", pBuffer \in Reply, cb' = "EXIT", UNCHANGED <<client, device>>,
         \A f \in Fxn : f # pBuffer.fxn => pMsgPipe'[f] = pMsgPipe[f]
  PROVE  Channel'
<1> USE DEF IInv
<1>1. pBuffer.to \in Thread /\ pBuffer.fxn \in Fxn /\ Waits(pBuffer.to, pBuffer.fxn)
  BY Packets, Zenon DEF Channel
<1>2. ASSUME NEW t \in Thread, NEW f \in Fxn, Waits(t, f), t # pBuffer.to PROVE Waits(t, f)'
  <2>1. f # pBuffer.fxn
    BY <1>1, <1>2 DEF Waits, Callers, TypeOK
  <2> QED BY <1>2, <2>1 DEF Waits, client
<1>3. ASSUME NEW t PROVE ~Held(t)'
  BY Zenon DEF Held
<1>4. ASSUME NEW i \in DOMAIN requests
      PROVE  requests[i].from \in Thread /\ requests[i].fxn \in Fxn /\ requests[i].from # pBuffer.to
  <2>1. requests[i] \in [from : Thread, fxn : Fxn]
    BY <1>4, Elements, Zenon DEF TypeOK
  <2>2. ~Held(requests[i].from)
    BY <1>4, Zenon DEF Channel
  <2> QED BY <2>1, <2>2, Zenon DEF Held
<1>5. ASSUME NEW i \in DOMAIN messages, messages[i] # Done
      PROVE  messages[i].to \in Thread /\ messages[i].fxn \in Fxn /\ messages[i].to # pBuffer.to
  <2>1. messages[i] \in Reply \cup {Done}
    BY <1>5, Elements DEF TypeOK
  <2>2. ~Held(messages[i].to)
    BY <1>5, Zenon DEF Channel
  <2> QED BY <1>5, <2>1, <2>2, Packets, Zenon DEF Held
<1>6. UNCHANGED <<requests, messages>>
  BY Zenon DEF device
<1>7. \A t \in Thread, f \in Fxn : Waits(t, f) /\ t # pBuffer.to =>
        pc'[t] = "wait" /\ fxn'[t] = f /\ pMsgPipe'[f] = <<>>
  BY <1>2, Zenon DEF Waits
<1>8. ASSUME NEW i \in DOMAIN requests
      PROVE  /\ pc'[requests[i].from] = "wait" /\ fxn'[requests[i].from] = requests[i].fxn
             /\ pMsgPipe'[requests[i].fxn] = <<>>
             /\ \A j \in DOMAIN requests : i # j => requests[i].from # requests[j].from
             /\ \A j \in DOMAIN messages : requests[i].from # messages[j].to
  <2>1. /\ Waits(requests[i].from, requests[i].fxn)
        /\ \A j \in DOMAIN requests : i # j => requests[i].from # requests[j].from
        /\ \A j \in DOMAIN messages : requests[i].from # messages[j].to
    BY <1>8, Zenon DEF Channel
  <2> QED BY <1>4, <1>7, <1>8, <2>1, Zenon
<1>9. ASSUME NEW i \in DOMAIN messages, messages[i] # Done
      PROVE  /\ pc'[messages[i].to] = "wait" /\ fxn'[messages[i].to] = messages[i].fxn
             /\ pMsgPipe'[messages[i].fxn] = <<>>
             /\ \A j \in DOMAIN messages : i # j => messages[i].to # messages[j].to
  <2>1. /\ Waits(messages[i].to, messages[i].fxn)
        /\ \A j \in DOMAIN messages : i # j => messages[i].to # messages[j].to
    BY <1>9, Zenon DEF Channel
  <2> QED BY <1>5, <1>7, <1>9, <2>1, Zenon
<1>10. cb' # "switch"
  BY Zenon
<1>11. ASSUME NEW i \in DOMAIN requests' PROVE
         /\ pc'[requests'[i].from] = "wait" /\ fxn'[requests'[i].from] = requests'[i].fxn
         /\ pMsgPipe'[requests'[i].fxn] = <<>>
         /\ \A j \in DOMAIN requests' : i # j => requests'[i].from # requests'[j].from
         /\ \A j \in DOMAIN messages' : requests'[i].from # messages'[j].to
  BY <1>6, <1>8, <1>11, Zenon
<1>12. ASSUME NEW i \in DOMAIN messages', messages'[i] # Done PROVE
         /\ pc'[messages'[i].to] = "wait" /\ fxn'[messages'[i].to] = messages'[i].fxn
         /\ pMsgPipe'[messages'[i].fxn] = <<>>
         /\ \A j \in DOMAIN messages' : i # j => messages'[i].to # messages'[j].to
  BY <1>6, <1>9, <1>12, Zenon
<1> QED BY <1>10, <1>11, <1>12, Zenon DEF Channel, Waits, Held

\* Deliver moves the answer into the empty pipe of its function.
LEMMA DeliverStep == IInv /\ Deliver => IInv'
<1> SUFFICES ASSUME IInv, Deliver PROVE IInv'
  OBVIOUS
<1> DEFINE g == pBuffer.fxn
<1> USE DEF IInv
<1>0. /\ cb = "switch" /\ pBuffer \in Reply /\ pBuffer.result # "hardware"
      /\ pMsgPipe' = [pMsgPipe EXCEPT ![g] = Append(@, pBuffer)]
      /\ cb' = "EXIT"
      /\ UNCHANGED <<ctx, pAppData, client, device, pBuffer, eRPCError, told, failedOnce, memory>>
  BY DEF Deliver
<1>1. g \in Fxn /\ pBuffer.to \in Thread /\ pBuffer # Done
  BY <1>0, Packets
<1>2. Waits(pBuffer.to, g) /\ pMsgPipe[g] = <<>>
  BY <1>0, <1>1, Zenon DEF Channel, Waits
<1>3. pMsgPipe'[g] = <<pBuffer>> /\ \A f \in Fxn : f # g => pMsgPipe'[f] = pMsgPipe[f]
  BY <1>0, <1>1, <1>2 DEF TypeOK
<1> HIDE DEF g
<1>4. TypeOK'
  <2>1. <<pBuffer>> \in Seq(Reply \cup {pBufferError})
    BY <1>0
  <2>2. pMsgPipe' \in [Fxn -> Seq(Reply \cup {pBufferError})]
    BY <1>0, <1>1, <1>2, <2>1 DEF TypeOK
  <2> QED BY <1>0, <2>2, Zenon DEF TypeOK, client, device, memory
<1>5. Callers' /\ Results'
  BY <1>0, ThreadFrame
<1>6. Instance'
  BY <1>0, <1>1, <1>3 DEF Instance, client, device, memory
<1>7. Channel'
  BY <1>0, <1>3, ChannelLeft DEF g
<1>8. Pipes'
  <2> SUFFICES ASSUME NEW f \in Fxn
               PROVE  InPipe(f)'
    BY DEF Pipes
  <2>0. InPipe(f) /\ UNCHANGED <<pc, fxn, eRPCError>>
    BY <1>0 DEF Pipes, client
  <2>1. CASE f # g
    BY <1>3, <2>0, <2>1, InPipeFrame, Zenon
  <2>2. CASE f = g
    <3>1. IsAnswer(pBuffer, g)
      BY <1>0, <1>2, Zenon DEF IsAnswer, Waits, g
    <3>2. Len(<<pBuffer>>) = 1 /\ DOMAIN <<pBuffer>> = {1} /\ <<pBuffer>>[1] = pBuffer
      OBVIOUS
    <3>3. pMsgPipe'[f] = <<pBuffer>> /\ pc[pBuffer.to] = "wait" /\ fxn[pBuffer.to] = f
      BY <1>2, <1>3, <2>2 DEF Waits
    <3>4. IsAnswer(pMsgPipe[f][1], f)'
      BY <2>0, <2>2, <3>1, <3>2, <3>3, Zenon DEF IsAnswer
    <3>5. \E t \in Thread : pc'[t] = "wait" /\ fxn'[t] = f
      BY <1>1, <2>0, <3>3
    <3> QED BY <3>2, <3>3, <3>4, <3>5 DEF InPipe
  <2> QED BY <2>1, <2>2
<1>a. /\ pMsgPipe'[g] # <<>> /\ pMsgPipe'[g][1] = pBuffer
      /\ UNCHANGED <<pc, pRetPacket, heap, misused, eRPCError, failedOnce>>
  BY <1>0, <1>3 DEF client, memory
<1>9. Owned'
  <2>1. \A f \in Fxn : pMsgPipe[f] # <<>> => pMsgPipe'[f] # <<>> /\ pMsgPipe'[f][1] = pMsgPipe[f][1]
    BY <1>2, <1>3, Zenon
  <2>2. cb = "switch" /\ heap' = heap /\ g \in Fxn
    BY <1>0, <1>1, <1>a, Zenon
  <2>3. \A t \in Thread : pc'[t] = pc[t] /\ pRetPacket'[t] = pRetPacket[t]
    BY <1>a
  <2> SUFFICES ASSUME NEW q \in heap PROVE
        \/ \E f \in Fxn : pMsgPipe'[f] # <<>> /\ q = pMsgPipe'[f][1]
        \/ \E t \in Thread : pc'[t] = "result" /\ q = pRetPacket'[t]
    BY <2>2, Zenon DEF Owned
  <2>4. \/ q = pBuffer
        \/ \E f \in Fxn : pMsgPipe[f] # <<>> /\ q = pMsgPipe[f][1]
        \/ \E t \in Thread : pc[t] = "result" /\ q = pRetPacket[t]
    BY <2>2, Zenon DEF Owned
  <2> QED BY <1>a, <2>1, <2>2, <2>3, <2>4, Zenon
<1>10. Allocated'
  <2>1. ~failedOnce => eRPCError = "None"
    BY <1>0, Zenon DEF Allocated, Instance, TypeOK
  <2>2. ASSUME NEW f \in Fxn, pMsgPipe'[f] # <<>>, ~failedOnce
        PROVE  pMsgPipe'[f][1] \in heap \cup {pBufferError}
    <3>1. CASE f = g
      BY <1>0, <1>a, <2>2, <3>1, Zenon DEF Allocated
    <3>2. CASE f # g
      BY <1>3, <2>2, <3>2, Zenon DEF Allocated
    <3> QED BY <3>1, <3>2
  <2> SUFFICES ASSUME ~failedOnce PROVE Allocated'
    BY <1>a, Zenon DEF Allocated
  <2>3. ~misused /\ \A t \in Thread : pc[t] = "result" => pRetPacket[t] \in heap \cup {pBufferError}
    BY Zenon DEF Allocated
  <2>4. /\ cb' = "EXIT" /\ heap' = heap /\ pc' = pc /\ pRetPacket' = pRetPacket
        /\ misused' = misused /\ eRPCError' = "None"
    BY <1>0, <1>a, <2>1
  <2> QED BY <2>2, <2>3, <2>4, Zenon DEF Allocated
<1> QED BY <1>4, <1>5, <1>6, <1>7, <1>8, <1>9, <1>10

\* DeliverHardware frees the answer, and wakes its thread with pBufferError.
LEMMA DeliverHardwareStep == IInv /\ DeliverHardware => IInv'
<1> SUFFICES ASSUME IInv, DeliverHardware PROVE IInv'
  OBVIOUS
<1> DEFINE g == pBuffer.fxn
<1> USE DEF IInv
<1>0. /\ cb = "switch" /\ pBuffer \in Reply /\ pBuffer.result = "hardware"
      /\ freePacket(pBuffer) /\ pBuffer' = NULL
      /\ pMsgPipe' = [pMsgPipe EXCEPT ![g] = Append(@, pBufferError)]
      /\ cb' = "EXIT"
      /\ UNCHANGED <<ctx, pAppData, client, device, eRPCError, told, failedOnce>>
  BY DEF DeliverHardware
<1>1. g \in Fxn /\ pBuffer.to \in Thread /\ pBuffer # Done
  BY <1>0, Packets
<1>2. Waits(pBuffer.to, g) /\ pMsgPipe[g] = <<>>
  BY <1>0, <1>1, Zenon DEF Channel, Waits
<1>3. pMsgPipe'[g] = <<pBufferError>> /\ \A f \in Fxn : f # g => pMsgPipe'[f] = pMsgPipe[f]
  BY <1>0, <1>1, <1>2 DEF TypeOK
<1> HIDE DEF g
<1>a. /\ Len(<<pBufferError>>) = 1 /\ DOMAIN <<pBufferError>> = {1}
      /\ <<pBufferError>>[1] = pBufferError /\ <<pBufferError>> # <<>>
  OBVIOUS
<1>4. TypeOK'
  <2>1. <<pBufferError>> \in Seq(Reply \cup {pBufferError})
    OBVIOUS
  <2>2. pMsgPipe' \in [Fxn -> Seq(Reply \cup {pBufferError})]
    BY <1>0, <1>1, <1>2, <2>1 DEF TypeOK
  <2>3. misused' \in BOOLEAN /\ heap' \subseteq Reply \cup {Done, Scratch}
    BY <1>0 DEF freePacket, TypeOK
  <2> QED BY <1>0, <2>2, <2>3, Zenon DEF TypeOK, client, device
<1>5. Callers' /\ Results'
  BY <1>0, ThreadFrame
<1>6. Instance'
  <2>1. ctx \notin {"none", "hollow"}
    BY <1>0 DEF Instance
  <2> QED BY <1>0, <2>1 DEF Instance, client, device
<1>7. Channel'
  BY <1>0, <1>3, ChannelLeft DEF g
<1>8. Pipes'
  <2> SUFFICES ASSUME NEW f \in Fxn
               PROVE  InPipe(f)'
    BY DEF Pipes
  <2>0. InPipe(f) /\ UNCHANGED <<pc, fxn, eRPCError>>
    BY <1>0 DEF Pipes, client
  <2>1. CASE f # g
    BY <1>3, <2>0, <2>1, InPipeFrame
  <2>2. CASE f = g
    <3>1. pMsgPipe'[f] = <<pBufferError>> /\ pc[pBuffer.to] = "wait" /\ fxn[pBuffer.to] = f
      BY <1>2, <1>3, <2>2 DEF Waits
    <3>2. \E t \in Thread : pc'[t] = "wait" /\ fxn'[t] = f
      BY <1>1, <2>0, <3>1
    <3> QED BY <1>a, <3>1, <3>2 DEF InPipe
  <2> QED BY <2>1, <2>2
<1>9. Owned'
  <2> SUFFICES ASSUME NEW q \in heap'
               PROVE  \/ \E f \in Fxn : pMsgPipe'[f] # <<>> /\ q = pMsgPipe'[f][1]
                      \/ \E t \in Thread : pc[t] = "result" /\ q = pRetPacket[t]
    BY <1>0 DEF Owned, client
  <2>1. q \in heap /\ q # pBuffer
    BY <1>0 DEF freePacket
  <2> QED BY <1>0, <1>1, <1>2, <1>3, <2>1 DEF Owned
<1>10. Allocated'
  <2> SUFFICES ASSUME ~failedOnce PROVE Allocated'
    BY <1>0, Zenon DEF Allocated
  <2>1. eRPCError = "None" /\ pBuffer \in heap
    BY <1>0, Zenon DEF Allocated, Instance, TypeOK
  <2>2. /\ ~misused'
        /\ \A f \in Fxn : pMsgPipe[f] # <<>> => pMsgPipe[f][1] \in heap' \cup {pBufferError}
        /\ \A t \in Thread : pc[t] = "result" => pRetPacket[t] \in heap' \cup {pBufferError}
    BY <1>0, <2>1, FreeKeeps, Zenon
  <2>3. ASSUME NEW f \in Fxn, pMsgPipe'[f] # <<>> PROVE pMsgPipe'[f][1] \in heap' \cup {pBufferError}
    BY <1>3, <1>a, <2>2, <2>3
  <2> QED BY <1>0, <2>1, <2>2, <2>3, Zenon DEF Allocated, client
<1> QED BY <1>4, <1>5, <1>6, <1>7, <1>8, <1>9, <1>10

\* Exit frees the packet of a failed round, which nobody else has.
LEMMA ExitStep == IInv /\ Exit => IInv'
<1> SUFFICES ASSUME IInv, Exit PROVE IInv'
  OBVIOUS
<1> USE DEF IInv
<1>0. /\ cb = "EXIT" /\ cb' \in {"select", "ended"} /\ (eRPCError = "Hardware" => cb' = "ended")
      /\ UNCHANGED <<ctx, pAppData, client, device, pMsgPipe, eRPCError, failedOnce>>
  BY DEF Exit
<1>1. \/ eRPCError # "None" /\ pBuffer # NULL /\ freePacket(pBuffer)
      \/ (eRPCError = "None" \/ pBuffer = NULL) /\ UNCHANGED memory
  BY DEF Exit
<1>2. ctx \notin {"none", "hollow"}
  BY <1>0 DEF Instance
<1>3. TypeOK'
  <2>1. misused' \in BOOLEAN /\ heap' \subseteq Reply \cup {Done, Scratch}
    BY <1>1, Zenon DEF freePacket, TypeOK, memory
  <2> QED BY <1>0, <2>1 DEF TypeOK, client, device
<1>4. Callers' /\ Results'
  BY <1>0, ThreadFrame
<1>5. Instance'
  BY <1>0, <1>2, Zenon DEF Instance, client, device
<1>6. Channel' /\ Pipes'
  <2>1. UNCHANGED <<pc, fxn, requests, messages, pMsgPipe, eRPCError>> /\ cb' # "switch"
    BY <1>0 DEF client, device
  <2> QED BY <2>1, ChannelFrame, PipesFrame
<1>7. Owned'
  <2> SUFFICES ASSUME NEW q \in heap'
               PROVE  \/ \E f \in Fxn : pMsgPipe[f] # <<>> /\ q = pMsgPipe[f][1]
                      \/ \E t \in Thread : pc[t] = "result" /\ q = pRetPacket[t]
    BY <1>0, Zenon DEF Owned, client
  <2>1. q \in heap /\ ~(eRPCError # "None" /\ pBuffer = Scratch /\ q = Scratch)
    BY <1>1, Packets DEF freePacket, memory
  <2> QED BY <1>0, <2>1, Zenon DEF Owned
<1>8. Allocated'
  <2> SUFFICES ASSUME ~failedOnce PROVE Allocated'
    BY <1>0, Zenon DEF Allocated
  <2>1. CASE eRPCError = "None"
    BY <1>0, <1>1, <2>1, Zenon DEF Allocated, client, memory
  <2>2. CASE eRPCError # "None"
    <3>1. pBuffer = Scratch /\ Scratch \in heap
      BY <1>0, <2>2, Zenon DEF Allocated
    <3>2. freePacket(pBuffer)
      BY <1>1, <2>2, <3>1, Packets
    <3> QED BY <1>0, <3>1, <3>2, FreeKeeps, Zenon DEF Allocated, client
  <2> QED BY <2>1, <2>2
<1> QED BY <1>3, <1>4, <1>5, <1>6, <1>7, <1>8

-----------------------------------------------------------------------------
(* Theorems *)

\* However calls, answers, callbacks, deaths, failures and teardowns interleave,
\* what is under way in the channel has one place and one owner.
THEOREM ChannelInvariant == Spec => []IInv
<1>1. Init => IInv
  BY InitInv
<1>2. IInv /\ [Next]_vars => IInv'
  <2> SUFFICES ASSUME IInv, [Next]_vars PROVE IInv'
    OBVIOUS
  <2>1. CASE RPC_InstanceInit
    BY <2>1, InstanceInit
  <2>2. CASE DeInitKill
    BY <2>2, Kill
  <2>3. CASE DeInitJoin
    BY <2>3, Join
  <2>4. ASSUME NEW t \in Thread, NEW f \in Fxn, Send(t, f) PROVE IInv'
    BY <2>4, SendStep
  <2>5. ASSUME NEW t \in Thread, NEW f \in Fxn, SendFails(t, f) PROVE IInv'
    BY <2>5, SendFailsStep
  <2>6. ASSUME NEW t \in Thread, Receive(t) PROVE IInv'
    BY <2>6, ReceiveStep
  <2>7. ASSUME NEW t \in Thread, Return(t) PROVE IInv'
    BY <2>7, ReturnStep
  <2>8. ASSUME NEW r \in Result, RemoteReply(r) PROVE IInv'
    BY <2>8, ReplyStep
  <2>9. CASE RemoteCallback
    BY <2>9, RemoteCallbackStep
  <2>10. CASE RemoteDies
    BY <2>10, RemoteDiesStep
  <2>11. CASE CallbackThread
    BY <2>11, KilledStep, ReadStep, ReadFatalStep, ReadFailsStep, SelectFailsStep,
       CallbackStep, DeliverStep, DeliverHardwareStep, ExitStep DEF CallbackThread
  <2>12. CASE UNCHANGED vars
    <3>1. UNCHANGED <<ctx, pc, fxn, pRetPacket, requests, messages, faulty, pMsgPipe>>
      BY <2>12 DEF vars, client, device, thread, memory
    <3>2. UNCHANGED <<cb, pBuffer, eRPCError, heap, misused, failedOnce>>
      BY <2>12 DEF vars, client, device, thread, memory
    <3>3. TypeOK' /\ Callers' /\ Results'
      <4>1. TypeOK'
        BY <3>1, <3>2 DEF IInv, TypeOK
      <4>2. Callers' /\ Results'
        BY <3>1, Zenon DEF IInv, Callers, Results
      <4> QED BY <4>1, <4>2
    <3>4. Instance' /\ Owned' /\ Allocated'
      BY <3>1, <3>2, Zenon DEF IInv, Instance, Owned, Allocated
    <3>5. Channel' /\ Pipes'
      BY <3>1, <3>2, ChannelFrame, PipesFrame DEF IInv
    <3> QED BY <3>3, <3>4, <3>5 DEF IInv
  <2> QED BY <2>1, <2>2, <2>3, <2>4, <2>5, <2>6, <2>7, <2>8, <2>9, <2>10, <2>11, <2>12
      DEF Next, Stub
<1> QED BY <1>1, <1>2, PTL DEF Spec

\* A stub never takes the answer to another thread's call, although the pipes are
\* told apart by nFxnIdx alone.
THEOREM AnswersOwn == Spec => []AnswersMatch
<1>1. IInv => AnswersMatch
  <2> SUFFICES ASSUME IInv, NEW t \in Thread, pc[t] = "result"
               PROVE  pRetPacket[t].to \in {t, NULL}
    BY Zenon DEF AnswersMatch
  <2>1. pRetPacket[t] = pBufferError \/ pRetPacket[t].to = t
    BY Zenon DEF IInv, Results
  <2>2. pBufferError.to = NULL
    BY DEF pBufferError
  <2> QED BY <2>1, <2>2, Zenon
<1> QED BY <1>1, ChannelInvariant, PTL

\* With no failure of select() and read() but ENXIO, no packet is used or freed
\* after it was freed.
THEOREM NoUseAfterFree == Spec => []PacketsOwned
<1>1. IInv => PacketsOwned
  BY DEF IInv, Allocated, PacketsOwned
<1> QED BY <1>1, ChannelInvariant, PTL

\* Whatever fails, RPC_InstanceDeInit() leaves no packet behind.
THEOREM NothingLeaks == Spec => []NoPacketLeft
<1>1. IInv => NoPacketLeft
  BY DEF IInv, Instance, NoPacketLeft
<1> QED BY <1>1, ChannelInvariant, PTL
=============================================================================
