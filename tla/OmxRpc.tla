------------------------------- MODULE OmxRpc -------------------------------
(***************************************************************************)
(* domx/omx_rpc: one instance of the remote procedure call channel to the  *)
(* media processor.                                                        *)
(*                                                                         *)
(* A stub writes its request to /dev/rpmsg-omx1 and sleeps in the pipe of  *)
(* its function.  RPC_CallbackThread reads the device and either runs a    *)
(* callback of the client or puts the pointer of the packet it has read    *)
(* into the pipe; the stub that takes it out frees it.  When the processor *)
(* dies read() and write() fail with ENXIO, and the thread puts the static *)
(* packet pBufferError into every pipe, tells the client and ends.         *)
(*                                                                         *)
(* The driver and the remote core are external.  The client calls as the   *)
(* OpenMAX interface asks it to: OMX_GetHandle first, no two calls of one  *)
(* function at a time, and the component is torn down when no call is in   *)
(* progress.                                                               *)
(***************************************************************************)
EXTENDS Integers, Sequences

CONSTANTS
  Thread,          \* threads of the client
  Fxn,             \* the function indices in use
  GetHandle,       \* RPC_OMX_FXN_IDX_GET_HANDLE
  Calls,           \* per thread: the functions it calls
  MaxQueue,        \* bound: messages waiting in the driver
  DeviceMayFail,   \* select() or read() may fail for another reason than ENXIO
  NULL

ASSUME FxnAssumption == GetHandle \in Fxn /\ Calls \in [Thread -> SUBSET Fxn]
VARIABLES
  ctx,         \* "none", "hollow", "open", "live", "failed" or "joining"
  pAppData,    \* RPC_GetHandle() has stored the handle of the component
  pc,          \* per thread: "idle", "wait" in TIMM_OSAL_ReadFromPipe(), or "result"
  fxn,         \* per thread: nFxnIdx of its call
  pRetPacket,  \* per thread: the packet taken from the pipe, or NULL
  requests,    \* the driver's queue to the remote core
  messages,    \* the driver's queue from the remote core
  faulty,      \* the remote core is dead: ENXIO
  pMsgPipe,    \* per function: the pointers in the pipe
  cb,          \* where RPC_CallbackThread is
  pBuffer,     \* its packet, or NULL
  eRPCError,   \* its error
  heap,        \* the packets allocated and not freed
  misused,     \* a packet was freed, or read and freed, when it was free already
  failedOnce,  \* this instance has seen select() or read() fail without ENXIO
  told         \* the client got OMX_EventError with OMX_ErrorHardware

client == <<pc, fxn, pRetPacket>>
device == <<requests, messages, faulty>>
thread == <<cb, pBuffer, eRPCError, told, failedOnce>>
memory == <<heap, misused>>
vars == <<ctx, pAppData, client, device, pMsgPipe, thread, memory>>

Result == {"none", "bad", "hardware"}

\* A reply is known by the thread that asked for it; Done stands for a buffer
\* or event callback, Scratch for a packet that read() left empty.
Reply == [to : Thread, fxn : Fxn, result : Result]
Done == [to |-> NULL, fxn |-> NULL, result |-> "none"]
Scratch == [to |-> NULL, fxn |-> NULL, result |-> "bad"]

ASSUME NullAssumption == NULL \notin Thread /\ NULL \notin Fxn /\ NULL # Scratch

\* The static packet passed instead of an answer.
pBufferError == [to |-> NULL, fxn |-> NULL, result |-> "hardware"]

Init ==
  /\ ctx = "none" /\ pAppData = FALSE
  /\ pc = [t \in Thread |-> "idle"] /\ fxn = [t \in Thread |-> NULL]
  /\ pRetPacket = [t \in Thread |-> NULL]
  /\ requests = <<>> /\ messages = <<>> /\ faulty = FALSE
  /\ pMsgPipe = [f \in Fxn |-> <<>>]
  /\ cb = "none" /\ pBuffer = NULL /\ eRPCError = "None"
  /\ heap = {} /\ misused = FALSE /\ told = FALSE /\ failedOnce = FALSE

\* TIMM_OSAL_Free() of packet p, and a read of it.
freePacket(p) == heap' = heap \ {p} /\ misused' = (misused \/ p \notin heap)

-----------------------------------------------------------------------------
(* The instance *)

\* RPC_InstanceInit(): a connected context with its thread; or, when open()
\* fails, success all the same with a context that has neither (the error goes
\* to eError, and eRPCError is tested).  The other failures leave nothing.
RPC_InstanceInit ==
  /\ ctx = "none"
  /\ \/ ctx' = "open" /\ cb' = "select"
     \/ ctx' = "hollow" /\ cb' = "none"
  /\ faulty' = FALSE /\ pAppData' = FALSE
  /\ eRPCError' = "None" /\ pBuffer' = NULL /\ told' = FALSE
  /\ misused' = FALSE /\ failedOnce' = FALSE
  /\ UNCHANGED <<client, requests, messages, pMsgPipe, heap>>

\* The write to fd_killcb, by PROXY_ComponentDeInit() or by OMX_ProxyCommonInit()
\* after a failed RPC_GetHandle().
DeInitKill ==
  /\ ctx \in {"live", "failed"} /\ \A t \in Thread : pc[t] = "idle"
  /\ ctx' = "joining"
  /\ UNCHANGED <<pAppData, client, device, pMsgPipe, thread, memory>>

\* After pthread_join(): the pipes, both descriptors and the context go.
DeInitJoin ==
  /\ ctx = "joining" /\ cb \in {"none", "ended"}
  /\ ctx' = "none"
  /\ pMsgPipe' = [f \in Fxn |-> <<>>] /\ requests' = <<>> /\ messages' = <<>>
  /\ UNCHANGED <<pAppData, client, faulty, thread, memory>>

-----------------------------------------------------------------------------
(* The stubs *)

\* The calls the client may begin: RPC_GetHandle() of OMX_ProxyCommonInit(),
\* then any other, one thread at a time in each function.
mayCall(t, f) ==
  /\ pc[t] = "idle" /\ f \in Calls[t] /\ \A u \in Thread : fxn[u] # f
  /\ \/ f = GetHandle /\ ctx \in {"hollow", "open"} /\ \A u \in Thread : pc[u] = "idle"
     \/ f # GetHandle /\ ctx = "live"

\* RPC_sendPacket_sync(), write() accepts the request.
Send(t, f) ==
  /\ mayCall(t, f) /\ ctx # "hollow" /\ ~faulty
  /\ requests' = Append(requests, [from |-> t, fxn |-> f])
  /\ pc' = [pc EXCEPT ![t] = "wait"] /\ fxn' = [fxn EXCEPT ![t] = f]
  /\ UNCHANGED <<ctx, pAppData, pRetPacket, messages, faulty, pMsgPipe, thread, memory>>

\* write() fails: the call returns at once.  Only RPC_GetHandle() has an effect,
\* through OMX_ProxyCommonInit().
SendFails(t, f) ==
  /\ mayCall(t, f) /\ f = GetHandle /\ (ctx = "hollow" \/ faulty)
  /\ ctx' = "failed"
  /\ UNCHANGED <<pAppData, client, device, pMsgPipe, thread, memory>>

\* TIMM_OSAL_ReadFromPipe() returns a packet.
Receive(t) ==
  /\ pc[t] = "wait" /\ pMsgPipe[fxn[t]] # <<>>
  /\ pRetPacket' = [pRetPacket EXCEPT ![t] = Head(pMsgPipe[fxn[t]])]
  /\ pMsgPipe' = [pMsgPipe EXCEPT ![fxn[t]] = Tail(@)]
  /\ pc' = [pc EXCEPT ![t] = "result"]
  /\ UNCHANGED <<ctx, pAppData, fxn, device, thread, memory>>

\* What OMX_ProxyCommonInit() makes of the answer to RPC_GetHandle().
afterGetHandle(r) == IF r = "none" THEN "live" ELSE "failed"

\* A slip: a call that the remote component refused is sent again.
Return_resends(t) ==
  /\ pc[t] = "result"
  /\ pc' = [pc EXCEPT ![t] = IF pRetPacket[t].result = "bad" THEN "wait" ELSE "idle"]
  /\ fxn' = [fxn EXCEPT ![t] = IF pRetPacket[t].result = "bad" THEN @ ELSE NULL]
  /\ requests' = IF pRetPacket[t].result = "bad"
                   THEN Append(requests, [from |-> t, fxn |-> fxn[t]]) ELSE requests
  /\ pRetPacket' = [pRetPacket EXCEPT ![t] = NULL]
  /\ IF pRetPacket[t].result = "hardware" THEN UNCHANGED memory ELSE freePacket(pRetPacket[t])
  /\ IF fxn[t] = GetHandle /\ pRetPacket[t].result # "bad"
       THEN pAppData' = TRUE /\ ctx' = afterGetHandle(pRetPacket[t].result)
       ELSE UNCHANGED <<pAppData, ctx>>
  /\ UNCHANGED <<messages, faulty, pMsgPipe, thread>>

\* The rest of the stub: it reads the result, RPC_GetHandle() stores pAppData,
\* and the packet is freed unless it is pBufferError.
Return(t) ==
  /\ pc[t] = "result"
  /\ pc' = [pc EXCEPT ![t] = "idle"]
  /\ fxn' = [fxn EXCEPT ![t] = NULL]
  /\ pRetPacket' = [pRetPacket EXCEPT ![t] = NULL]
  /\ IF pRetPacket[t].result = "hardware" THEN UNCHANGED memory ELSE freePacket(pRetPacket[t])
  /\ IF fxn[t] = GetHandle
       THEN pAppData' = TRUE /\ ctx' = afterGetHandle(pRetPacket[t].result)
       ELSE UNCHANGED <<pAppData, ctx>>
  /\ UNCHANGED <<device, pMsgPipe, thread>>

-----------------------------------------------------------------------------
(* The remote core and the driver: external *)

connected == ctx \in {"open", "live", "failed", "joining"}

RemoteReply(r) ==
  /\ requests # <<>>
  /\ messages' = Append(messages, [to |-> Head(requests).from, fxn |-> Head(requests).fxn, result |-> r])
  /\ requests' = Tail(requests)
  /\ UNCHANGED <<ctx, pAppData, client, faulty, pMsgPipe, thread, memory>>

RemoteCallback ==
  /\ ctx = "live" /\ ~faulty /\ Len(messages) < MaxQueue
  /\ messages' = Append(messages, Done)
  /\ UNCHANGED <<ctx, pAppData, client, requests, faulty, pMsgPipe, thread, memory>>

\* What was on its way in either direction is lost.
RemoteDies ==
  /\ connected /\ ~faulty /\ faulty' = TRUE
  /\ requests' = <<>> /\ messages' = <<>>
  /\ UNCHANGED <<ctx, pAppData, client, pMsgPipe, thread, memory>>

-----------------------------------------------------------------------------
(* RPC_CallbackThread *)

\* A slip: the kill event is looked at only when a message has come too.
Killed_with_message ==
  /\ cb = "select" /\ ctx = "joining" /\ messages # <<>>
  /\ cb' = "ended"
  /\ UNCHANGED <<ctx, pAppData, client, device, pMsgPipe, pBuffer, eRPCError, told, failedOnce, memory>>

\* fd_killcb is tested first.
Killed ==
  /\ cb = "select" /\ ctx = "joining"
  /\ cb' = "ended"
  /\ UNCHANGED <<ctx, pAppData, client, device, pMsgPipe, pBuffer, eRPCError, told, failedOnce, memory>>

\* RPC_getPacket() and read().
Read ==
  /\ cb = "select" /\ ctx # "joining" /\ ~faulty /\ messages # <<>>
  /\ pBuffer' = Head(messages) /\ heap' = heap \cup {Head(messages)}
  /\ messages' = Tail(messages) /\ cb' = "switch"
  /\ UNCHANGED <<ctx, pAppData, client, requests, faulty, pMsgPipe, eRPCError, told, failedOnce, misused>>

\* read() fails with ENXIO: one pBufferError for every pipe.
ReadFatal ==
  /\ cb = "select" /\ ctx # "joining" /\ faulty
  /\ pBuffer' = Scratch /\ heap' = heap \cup {Scratch}
  /\ pMsgPipe' = [f \in Fxn |-> Append(pMsgPipe[f], pBufferError)]
  /\ eRPCError' = "Hardware" /\ cb' = "EXIT"
  /\ UNCHANGED <<ctx, pAppData, client, device, told, failedOnce, misused>>

\* read() fails otherwise.
ReadFails ==
  /\ DeviceMayFail /\ cb = "select" /\ ctx # "joining" /\ ~faulty /\ messages # <<>>
  /\ pBuffer' = Scratch /\ heap' = heap \cup {Scratch}
  /\ eRPCError' = "Undefined" /\ cb' = "EXIT" /\ failedOnce' = TRUE
  /\ UNCHANGED <<ctx, pAppData, client, device, pMsgPipe, told, misused>>

\* select() fails; pBuffer is what the last round has left.
SelectFails ==
  /\ DeviceMayFail /\ cb = "select"
  /\ eRPCError' = "Undefined" /\ cb' = "EXIT" /\ failedOnce' = TRUE
  /\ UNCHANGED <<ctx, pAppData, client, device, pMsgPipe, pBuffer, told, memory>>

\* A callback into the client; the packet is freed here.
Callback ==
  /\ cb = "switch" /\ pBuffer = Done
  /\ freePacket(pBuffer) /\ pBuffer' = NULL /\ cb' = "EXIT"
  /\ UNCHANGED <<ctx, pAppData, client, device, pMsgPipe, eRPCError, told, failedOnce>>

\* A slip: the answer goes to every pipe.
Deliver_unindexed ==
  /\ cb = "switch" /\ pBuffer \in Reply /\ pBuffer.result # "hardware"
  /\ pMsgPipe' = [f \in Fxn |-> Append(pMsgPipe[f], pBuffer)]
  /\ cb' = "EXIT"
  /\ UNCHANGED <<ctx, pAppData, client, device, pBuffer, eRPCError, told, failedOnce, memory>>

\* A slip: the packet is freed where the callbacks free theirs.
Deliver_frees ==
  /\ cb = "switch" /\ pBuffer \in Reply /\ pBuffer.result # "hardware"
  /\ pMsgPipe' = [pMsgPipe EXCEPT ![pBuffer.fxn] = Append(@, pBuffer)]
  /\ freePacket(pBuffer) /\ pBuffer' = NULL /\ cb' = "EXIT"
  /\ UNCHANGED <<ctx, pAppData, client, device, eRPCError, told, failedOnce>>

\* The pointer goes to the pipe of the function, and stays in pBuffer.
Deliver ==
  /\ cb = "switch" /\ pBuffer \in Reply /\ pBuffer.result # "hardware"
  /\ pMsgPipe' = [pMsgPipe EXCEPT ![pBuffer.fxn] = Append(@, pBuffer)]
  /\ cb' = "EXIT"
  /\ UNCHANGED <<ctx, pAppData, client, device, pBuffer, eRPCError, told, failedOnce, memory>>

\* A slip: the packet of a true hardware error is forgotten.
DeliverHardware_leaks ==
  /\ cb = "switch" /\ pBuffer \in Reply /\ pBuffer.result = "hardware"
  /\ pMsgPipe' = [pMsgPipe EXCEPT ![pBuffer.fxn] = Append(@, pBufferError)]
  /\ pBuffer' = NULL /\ cb' = "EXIT"
  /\ UNCHANGED <<ctx, pAppData, client, device, eRPCError, told, failedOnce, memory>>

\* A component that answers OMX_ErrorHardware: pBufferError is passed instead.
DeliverHardware ==
  /\ cb = "switch" /\ pBuffer \in Reply /\ pBuffer.result = "hardware"
  /\ freePacket(pBuffer) /\ pBuffer' = NULL
  /\ pMsgPipe' = [pMsgPipe EXCEPT ![pBuffer.fxn] = Append(@, pBufferError)]
  /\ cb' = "EXIT"
  /\ UNCHANGED <<ctx, pAppData, client, device, eRPCError, told, failedOnce>>

\* A slip: the thread ends without a word.
Exit_untold ==
  /\ cb = "EXIT"
  /\ IF eRPCError # "None" /\ pBuffer # NULL
       THEN freePacket(pBuffer) /\ pBuffer' = NULL
       ELSE UNCHANGED <<pBuffer, memory>>
  /\ cb' = IF eRPCError = "Hardware" THEN "ended" ELSE "select"
  /\ UNCHANGED <<ctx, pAppData, client, device, pMsgPipe, eRPCError, told, failedOnce>>

\* EXIT: with an error, of this round or of an earlier one, pBuffer is freed; a
\* hardware error is reported and ends the thread.
Exit ==
  /\ cb = "EXIT"
  /\ IF eRPCError # "None" /\ pBuffer # NULL
       THEN freePacket(pBuffer) /\ pBuffer' = NULL
       ELSE UNCHANGED <<pBuffer, memory>>
  /\ IF eRPCError = "Hardware"
       THEN cb' = "ended" /\ told' = pAppData
       ELSE cb' = "select" /\ told' = told
  /\ UNCHANGED <<ctx, pAppData, client, device, pMsgPipe, eRPCError, failedOnce>>

CallbackThread ==
  \/ Killed \/ Read \/ ReadFatal \/ ReadFails \/ SelectFails
  \/ Callback \/ Deliver \/ DeliverHardware \/ Exit

Stub(t) == Receive(t) \/ Return(t)

Next ==
  \/ RPC_InstanceInit \/ DeInitKill \/ DeInitJoin
  \/ \E t \in Thread : \E f \in Fxn : Send(t, f) \/ SendFails(t, f)
  \/ \E t \in Thread : Stub(t)
  \/ \E r \in Result : RemoteReply(r)
  \/ RemoteCallback \/ RemoteDies
  \/ CallbackThread

Spec == Init /\ [][Next]_vars

\* The threads run; a live remote core answers; a teardown that has begun is
\* carried on; select() and read() do not fail for ever (without ENXIO their
\* errors are passing ones).  The client need not call, nor the core die.
FairSpec ==
  /\ Spec
  /\ \A t \in Thread : WF_vars(Stub(t))
  /\ WF_vars(\E r \in Result : RemoteReply(r))
  /\ WF_vars(CallbackThread) /\ SF_vars(Killed \/ Read \/ ReadFatal)
  /\ WF_vars(DeInitJoin)

-----------------------------------------------------------------------------
(* Properties *)

\* The packet a stub takes from the pipe of its function is the answer to its own
\* call, or pBufferError: pipes are told apart by nFxnIdx alone, so this rests on
\* every function having one caller at a time.
AnswersMatch ==
  \A t \in Thread : pc[t] = "result" => pRetPacket[t].to \in {t, NULL}

\* As long as select() and read() fail with nothing but ENXIO, no packet is used
\* or freed after it was freed, a death of the remote core included: the thread
\* gives its packet away with the pointer it writes to the pipe (omx_rpc.c:387),
\* and only the stub that reads the pointer frees it (omx_rpc_stub.c:286).
PacketsOwned == misused => failedOnce

\* The same whatever fails: "the listener will not free the packet on
\* OMX_ErrorHardware errors" (omx_rpc.c:376), and frees it, alone, on all others.
OnlyListenerFrees == ~misused

\* Whatever answers, errors and deaths an instance has seen, every packet is freed
\* when it is gone.
NoPacketLeft == ctx = "none" => heap = {}

\* Every call returns: the remote core answers it or, when it dies, write() fails
\* or the pBufferError in its pipe wakes the caller.
CallsReturn == \A t \in Thread : pc[t] # "idle" ~> pc[t] = "idle"

\* A client whose component is up is told that the remote core has died, unless it
\* tears the component down first.
DeathTold == (faulty /\ pAppData /\ ctx = "live" /\ cb # "ended") ~> (told \/ ctx # "live")

\* RPC_InstanceDeInit() gets its thread back, whatever that is doing.
TornDown == ctx = "joining" ~> ctx = "none"
=============================================================================
