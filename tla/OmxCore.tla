------------------------------ MODULE OmxCore ------------------------------
(***************************************************************************)
(* domx/omx_core: OMX_Init, OMX_Deinit, OMX_GetHandle and OMX_FreeHandle   *)
(* called by several threads.                                              *)
(*                                                                         *)
(* pCoreInitMutex lives as long as the library and guards count; mutex     *)
(* guards the tables and is created by the first OMX_Init() and destroyed  *)
(* by the last OMX_Deinit().  A client calls as the OpenMAX interface asks *)
(* it to: OMX_Init first, OMX_Deinit last and with no handle left.         *)
(***************************************************************************)
EXTENDS Integers, FiniteSets

CONSTANTS Client, Slot, Handle, NULL

ASSUME ClientFinite == IsFiniteSet(Client)
ASSUME NullIsNone == NULL \notin Client /\ NULL \notin Slot /\ NULL \notin Handle
ASSUME SlotsOrdered == Slot \subseteq Int /\ IsFiniteSet(Slot)

VARIABLES
  pc,          \* per client: where it is
  count,
  coreMutex,   \* the owner of pCoreInitMutex, or NULL
  exists,      \* mutex has been initialised and not destroyed since
  mutex,       \* the owner of mutex, or NULL
  pModules,    \* the slots whose pointer to a library is not NULL
  pComponents, \* per slot: the handle, or NULL
  i,           \* per client: the slot OMX_GetHandle() has found
  arg,         \* per client: the handle OMX_FreeHandle() was given
  handles      \* per client: the handles it was given and has not freed

vars == <<pc, count, coreMutex, exists, mutex, pModules, pComponents, i, arg, handles>>

Pc == {"idle", "Init", "ready", "GetHandle", "Load", "ComponentInit", "FreeHandle",
       "ComponentDeInit", "Unlock", "Deinit", "DeinitLock", "DeinitUnlock", "DeinitRelease"}

\* Between its OMX_Init() and the count-- of its OMX_Deinit().
Counted == {"ready", "GetHandle", "Load", "ComponentInit", "FreeHandle",
            "ComponentDeInit", "Unlock", "Deinit"}
\* Inside the section that mutex guards.
Locked == {"Load", "ComponentInit", "ComponentDeInit", "Unlock", "DeinitUnlock"}
\* About to use mutex, or using it.
Uses == Locked \cup {"GetHandle", "FreeHandle", "DeinitLock"}
\* Holding pCoreInitMutex.
CoreLocked == {"DeinitLock", "DeinitUnlock", "DeinitRelease"}

Init ==
  /\ pc = [c \in Client |-> "idle"]
  /\ count = 0 /\ coreMutex = NULL /\ exists = FALSE /\ mutex = NULL
  /\ pModules = {}
  /\ pComponents = [s \in Slot |-> NULL]
  /\ i = [c \in Client |-> NULL] /\ arg = [c \in Client |-> NULL]
  /\ handles = [c \in Client |-> {}]

tables == <<pModules, pComponents, i, arg, handles>>
goto(c, l) == pc' = [pc EXCEPT ![c] = l]

-----------------------------------------------------------------------------
(* OMX_Init() *)

\* A slip: every OMX_Init() creates the mutex anew.
Init_every_time(c) ==
  /\ coreMutex = NULL /\ pc[c] = "Init"
  /\ count' = count + 1 /\ exists' = TRUE /\ mutex' = NULL
  /\ goto(c, "ready")
  /\ UNCHANGED coreMutex /\ UNCHANGED tables

\* The whole of OMX_Init() runs under pCoreInitMutex and waits for nothing else.
OMX_Init(c) ==
  /\ coreMutex = NULL /\ pc[c] = "Init"
  /\ count' = count + 1
  /\ exists' = (exists \/ count' = 1)
  /\ mutex' = IF count' = 1 THEN NULL ELSE mutex
  /\ goto(c, "ready")
  /\ UNCHANGED coreMutex /\ UNCHANGED tables

-----------------------------------------------------------------------------
(* OMX_GetHandle() *)

Lock(c, from, to) ==
  /\ pc[c] = from /\ mutex = NULL
  /\ mutex' = c
  /\ goto(c, to)
  /\ UNCHANGED <<count, coreMutex, exists>> /\ UNCHANGED tables

Free(s) == s \notin pModules
FirstFree(s) == Free(s) /\ \A t \in Slot : Free(t) => s <= t

\* A slip: the call waits for a slot to become empty.
GetHandleLoad_retries(c) ==
  /\ pc[c] = "Load"
  /\ \/ \E s \in Slot :
          /\ FirstFree(s)
          /\ pModules' = pModules \cup {s}
          /\ i' = [i EXCEPT ![c] = s]
          /\ goto(c, "ComponentInit") /\ UNCHANGED mutex
     \/ /\ \A s \in Slot : ~Free(s)
        /\ mutex' = NULL /\ goto(c, "GetHandle") /\ UNCHANGED <<pModules, i>>
  /\ UNCHANGED <<count, coreMutex, exists, pComponents, arg, handles>>

\* A slip: the search does not report that every slot is taken.
GetHandleLoad_no_limit(c) ==
  /\ pc[c] = "Load"
  /\ \E s \in Slot :
       /\ FirstFree(s) \/ (\A t \in Slot : ~Free(t) /\ t <= s)
       /\ pModules' = pModules \cup {s}
       /\ i' = [i EXCEPT ![c] = s]
  /\ goto(c, "ComponentInit")
  /\ UNCHANGED <<count, coreMutex, exists, mutex, pComponents, arg, handles>>

\* The first empty slot and dlopen(): no slot, or no such library, ends the call.
GetHandleLoad(c) ==
  /\ pc[c] = "Load"
  /\ \/ goto(c, "Unlock") /\ UNCHANGED <<pModules, i>>
     \/ \E s \in Slot :
          /\ FirstFree(s)
          /\ pModules' = pModules \cup {s}
          /\ i' = [i EXCEPT ![c] = s]
          /\ goto(c, "ComponentInit")
  /\ UNCHANGED <<count, coreMutex, exists, mutex, pComponents, arg, handles>>

\* dlsym(), malloc(), OMX_ComponentInit() and SetCallbacks().  A failure of the
\* first three leaves no handle, a failure of the last one leaves it in the
\* table; pModules[i] stays set in every case.
ComponentInit(c) ==
  /\ pc[c] = "ComponentInit"
  /\ \/ UNCHANGED <<pComponents, handles>>
     \/ \E h \in Handle :
          /\ \A t \in Slot : pComponents[t] # h
          /\ pComponents' = [pComponents EXCEPT ![i[c]] = h]
          /\ \/ handles' = [handles EXCEPT ![c] = @ \cup {h}]
             \/ UNCHANGED handles
  /\ goto(c, "Unlock") /\ i' = [i EXCEPT ![c] = NULL]
  /\ UNCHANGED <<count, coreMutex, exists, mutex, pModules, arg>>

-----------------------------------------------------------------------------
(* OMX_FreeHandle() *)

\* ComponentDeInit(), dlclose() and free(); the slot is empty again even if
\* ComponentDeInit() fails.
ComponentDeInit(c) ==
  /\ pc[c] = "ComponentDeInit"
  /\ \/ \E s \in Slot :
          /\ pComponents[s] = arg[c]
          /\ pModules' = pModules \ {s}
          /\ pComponents' = [pComponents EXCEPT ![s] = NULL]
     \/ /\ \A s \in Slot : pComponents[s] # arg[c]
        /\ UNCHANGED <<pModules, pComponents>>
  /\ arg' = [arg EXCEPT ![c] = NULL]
  /\ goto(c, "Unlock")
  /\ UNCHANGED <<count, coreMutex, exists, mutex, i, handles>>

\* pthread_mutex_unlock() at EXIT of both calls.
Unlock(c) ==
  /\ pc[c] = "Unlock"
  /\ mutex' = NULL
  /\ goto(c, "ready")
  /\ UNCHANGED <<count, coreMutex, exists>> /\ UNCHANGED tables

-----------------------------------------------------------------------------
(* OMX_Deinit() *)

\* pCoreInitMutex and count--; mutex is locked after that.
DeinitObtain(c) ==
  /\ pc[c] = "Deinit" /\ coreMutex = NULL
  /\ coreMutex' = c /\ count' = count - 1
  /\ goto(c, "DeinitLock")
  /\ UNCHANGED <<exists, mutex>> /\ UNCHANGED tables

\* A slip: every OMX_Deinit() destroys the mutex.
DeinitUnlock_always(c) ==
  /\ pc[c] = "DeinitUnlock"
  /\ mutex' = NULL /\ exists' = FALSE
  /\ goto(c, "DeinitRelease")
  /\ UNCHANGED <<count, coreMutex>> /\ UNCHANGED tables

\* The last one destroys the mutex.
DeinitUnlock(c) ==
  /\ pc[c] = "DeinitUnlock"
  /\ mutex' = NULL /\ exists' = (count # 0)
  /\ goto(c, "DeinitRelease")
  /\ UNCHANGED <<count, coreMutex>> /\ UNCHANGED tables

DeinitRelease(c) ==
  /\ pc[c] = "DeinitRelease"
  /\ coreMutex' = NULL
  /\ goto(c, "idle")
  /\ UNCHANGED <<count, exists, mutex>> /\ UNCHANGED tables

-----------------------------------------------------------------------------
(* The clients. *)

CallInit(c) ==
  /\ pc[c] = "idle" /\ goto(c, "Init")
  /\ UNCHANGED <<count, coreMutex, exists, mutex>> /\ UNCHANGED tables

CallGetHandle(c) ==
  /\ pc[c] = "ready" /\ goto(c, "GetHandle")
  /\ UNCHANGED <<count, coreMutex, exists, mutex>> /\ UNCHANGED tables

\* Whoever frees a handle does not use it again.
CallFreeHandle(c) ==
  /\ pc[c] = "ready" /\ goto(c, "FreeHandle")
  /\ \E h \in handles[c] :
       arg' = [arg EXCEPT ![c] = h] /\ handles' = [handles EXCEPT ![c] = @ \ {h}]
  /\ UNCHANGED <<count, coreMutex, exists, mutex, pModules, pComponents, i>>

CallDeinit(c) ==
  /\ pc[c] = "ready" /\ handles[c] = {} /\ goto(c, "Deinit")
  /\ UNCHANGED <<count, coreMutex, exists, mutex>> /\ UNCHANGED tables

Step(c) ==
  \/ OMX_Init(c)
  \/ Lock(c, "GetHandle", "Load") \/ GetHandleLoad(c) \/ ComponentInit(c)
  \/ Lock(c, "FreeHandle", "ComponentDeInit") \/ ComponentDeInit(c)
  \/ Unlock(c)
  \/ DeinitObtain(c) \/ Lock(c, "DeinitLock", "DeinitUnlock")
  \/ DeinitUnlock(c) \/ DeinitRelease(c)
Call(c) == CallInit(c) \/ CallGetHandle(c) \/ CallFreeHandle(c) \/ CallDeinit(c)

Next == \E c \in Client : Step(c) \/ Call(c)
Spec == Init /\ [][Next]_vars

\* Every thread is scheduled, and the two mutexes are fair to their waiters.
FairSpec == Spec /\ \A c \in Client : SF_vars(Step(c))

-----------------------------------------------------------------------------
(* Properties *)

CountedClients == {c \in Client : pc[c] \in Counted}

TypeOK ==
  /\ pc \in [Client -> Pc]
  /\ count \in Int
  /\ coreMutex \in Client \cup {NULL} /\ mutex \in Client \cup {NULL}
  /\ exists \in BOOLEAN
  /\ pModules \subseteq Slot
  /\ pComponents \in [Slot -> Handle \cup {NULL}]
  /\ i \in [Client -> Slot \cup {NULL}]
  /\ arg \in [Client -> Handle \cup {NULL}]
  /\ handles \in [Client -> SUBSET Handle]

\* No thread waits for or holds a mutex that is destroyed: OMX_Deinit() destroys
\* it outside every call of the other clients, because they are still counted.
MutexAlive == \A c \in Client : pc[c] \in Uses => exists

\* The tables have one user at a time, although OMX_Init() may initialise the
\* mutex anew.
Exclusive == \A c, d \in Client : pc[c] \in Locked /\ pc[d] \in Locked => c = d

\* A handle that a client holds is in one slot of the table, with the library
\* loaded, and belongs to nobody else.
HandlesInTable ==
  \A c \in Client : \A h \in handles[c] :
    /\ \E s \in Slot : s \in pModules /\ pComponents[s] = h
    /\ \A s, t \in Slot : pComponents[s] = h /\ pComponents[t] = h => s = t
    /\ \A d \in Client \ {c} : h \notin handles[d] /\ arg[d] # h

\* What the three rest on: count is the number of clients between OMX_Init() and
\* OMX_Deinit(), the mutexes are held by the threads that are inside them, and
\* mutex exists while anyone is counted or has yet to leave it.
LockInv ==
  /\ TypeOK
  /\ count = Cardinality(CountedClients)
  /\ \A c \in Client : mutex = c <=> pc[c] \in Locked
  /\ \A c \in Client : coreMutex = c <=> pc[c] \in CoreLocked
  /\ count > 0 => exists
  /\ \A c \in Client : pc[c] \in {"DeinitLock", "DeinitUnlock"} => exists

\* The handles a client holds or is about to free.
Owned(c) == handles[c] \cup ({arg[c]} \ {NULL})

\* And: no handle is in two slots, a handle's slot has its library, the slot
\* found by OMX_GetHandle() stays empty until it is filled, and every handle that
\* has an owner is in the table and has no other owner.
TableInv ==
  /\ \A s, t \in Slot : pComponents[s] # NULL /\ pComponents[s] = pComponents[t] => s = t
  /\ \A s \in Slot : pComponents[s] # NULL => s \in pModules
  /\ \A c \in Client : pc[c] = "ComponentInit" =>
       i[c] \in pModules /\ pComponents[i[c]] = NULL
  /\ \A c \in Client : pc[c] \in {"FreeHandle", "ComponentDeInit"} <=> arg[c] # NULL
  /\ \A c \in Client : arg[c] \notin handles[c]
  /\ \A c \in Client : \A h \in Owned(c) : \E s \in Slot : pComponents[s] = h
  /\ \A c, d \in Client : c # d => Owned(c) \cap Owned(d) = {}

\* Both together are inductive: they hold whatever the interleaving of OMX_Init(),
\* OMX_GetHandle(), OMX_FreeHandle() and OMX_Deinit(), and imply the three above.
IInv == LockInv /\ TableInv

\* A call that has been made returns.
CallsReturn == \A c \in Client : (pc[c] \notin {"idle", "ready"}) ~> (pc[c] \in {"idle", "ready"})
=============================================================================
