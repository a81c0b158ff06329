---------------------------- MODULE ProxyBuffers ----------------------------
(***************************************************************************)
(* domx/omx_proxy_common: the table of buffers of one component, tBufList  *)
(* with nTotalBuffers and nAllocatedBuffers.                               *)
(*                                                                         *)
(* A slot pairs the header the client sees with the header of the remote   *)
(* core, and keeps the memory the proxy allocated for the buffer and the   *)
(* registration of the buffer with the driver.  Each call of the client    *)
(* runs to its end before the next; the remote core, the driver and the    *)
(* memory plugin are external.                                             *)
(*                                                                         *)
(* Left out: the metadata buffer and the second plane of a slot, and marks.*)
(* A failure before the table is touched (a bad parameter, no memory for   *)
(* the header) changes nothing.                                            *)
(***************************************************************************)
EXTENDS Integers, FiniteSets

CONSTANTS
  MAX,      \* MAX_NUM_PROXY_BUFFERS
  Header,   \* addresses of local buffer headers
  Remote,   \* headers of the remote core
  Mem,      \* handles of the memory plugin
  Reg,      \* handles of registrations
  NULL

ASSUME MaxAssumption == MAX \in Nat \ {0}
ASSUME NullAssumption == NULL \notin Header /\ NULL \notin Remote /\ NULL \notin Mem /\ NULL \notin Reg

VARIABLES
  up,                \* the component is initialised
  dead,              \* the remote core has died
  pBufHeader,        \* the columns of tBufList
  pBufHeaderRemote,
  pBufferHandle,     \* bufferAccessors[0].pBufferHandle
  pRegBufferHandle,  \* bufferAccessors[0].pRegBufferHandle
  nTotalBuffers,
  nAllocatedBuffers,
  overran,           \* something was stored in tBufList[MAX], over proxyPortBuffers
  at,                \* per header: "none", with the "client" or with the "component"
  remoteOf,          \* per header: the remote core's header for it, or NULL
  own,               \* per header: the memory AllocateBuffer() gave it, or NULL
  allocated,         \* the memory plugin's live handles
  registered         \* the driver's registrations

table == <<pBufHeader, pBufHeaderRemote, nTotalBuffers, nAllocatedBuffers>>
buffers == <<at, remoteOf, own>>
vars == <<up, dead, table, pBufferHandle, pRegBufferHandle, overran, buffers, allocated, registered>>

Slot == 0 .. MAX - 1

TypeOK ==
  /\ up \in BOOLEAN /\ dead \in BOOLEAN /\ overran \in BOOLEAN
  /\ pBufHeader \in [Slot -> Header \cup {NULL}]
  /\ pBufHeaderRemote \in [Slot -> Remote \cup {NULL}]
  /\ pBufferHandle \in [Slot -> Mem \cup {NULL}]
  /\ pRegBufferHandle \in [Slot -> Reg \cup {NULL}]
  /\ nTotalBuffers \in 0 .. MAX /\ nAllocatedBuffers \in 0 .. MAX
  /\ at \in [Header -> {"none", "client", "component"}]
  /\ remoteOf \in [Header -> Remote \cup {NULL}]
  /\ own \in [Header -> Mem \cup {NULL}]
  /\ allocated \subseteq Mem /\ registered \subseteq Reg

emptyTable ==
  /\ pBufHeader' = [s \in Slot |-> NULL] /\ pBufHeaderRemote' = [s \in Slot |-> NULL]
  /\ pBufferHandle' = [s \in Slot |-> NULL] /\ pRegBufferHandle' = [s \in Slot |-> NULL]
  /\ nTotalBuffers' = 0 /\ nAllocatedBuffers' = 0

Init ==
  /\ up = FALSE /\ dead = FALSE /\ overran = FALSE
  /\ pBufHeader = [s \in Slot |-> NULL] /\ pBufHeaderRemote = [s \in Slot |-> NULL]
  /\ pBufferHandle = [s \in Slot |-> NULL] /\ pRegBufferHandle = [s \in Slot |-> NULL]
  /\ nTotalBuffers = 0 /\ nAllocatedBuffers = 0
  /\ at = [h \in Header |-> "none"] /\ remoteOf = [h \in Header |-> NULL]
  /\ own = [h \in Header |-> NULL] /\ allocated = {} /\ registered = {}

\* OMX_ProxyCommonInit()
OMX_ProxyCommonInit ==
  /\ ~up /\ up' = TRUE /\ dead' = FALSE
  /\ UNCHANGED <<table, pBufferHandle, pRegBufferHandle, overran, buffers, allocated, registered>>

\* PROXY_ComponentDeInit(), when the component has no buffer or is dead: the loop
\* clears the slots in use, and closing the memory client and the device ends all
\* allocations and registrations; pCompPrv is freed with the table.
PROXY_ComponentDeInit ==
  /\ up /\ (dead \/ \A h \in Header : at[h] # "component")
  /\ up' = FALSE /\ dead' = FALSE /\ overran' = FALSE
  /\ emptyTable
  /\ at' = [h \in Header |-> "none"] /\ remoteOf' = [h \in Header |-> NULL]
  /\ own' = [h \in Header |-> NULL] /\ allocated' = {} /\ registered' = {}

RemoteDies ==
  /\ up /\ ~dead /\ dead' = TRUE
  /\ UNCHANGED <<up, table, pBufferHandle, pRegBufferHandle, overran, buffers, allocated, registered>>

-----------------------------------------------------------------------------
(* PROXY_UseBuffer() and PROXY_AllocateBuffer() *)

Empty == {s \in 0 .. nTotalBuffers - 1 : pBufHeader[s] = NULL}

\* The first empty slot; without one, the first slot never used.
currentBuffer(c) ==
  \/ c \in Empty /\ \A s \in Empty : c <= s
  \/ Empty = {} /\ c = nTotalBuffers

\* A slip: the high-water mark only moves to the slot just filled.
storeHeader_last(c, h, r) ==
  /\ pBufHeader' = [pBufHeader EXCEPT ![c] = h]
  /\ pBufHeaderRemote' = [pBufHeaderRemote EXCEPT ![c] = r]
  /\ nAllocatedBuffers' = nAllocatedBuffers + 1
  /\ nTotalBuffers' = c + 1
  /\ at' = [at EXCEPT ![h] = "client"] /\ remoteOf' = [remoteOf EXCEPT ![h] = r]

\* The end of PROXY_UseBuffer(): the slot and the two counters.
storeHeader(c, h, r) ==
  /\ pBufHeader' = [pBufHeader EXCEPT ![c] = h]
  /\ pBufHeaderRemote' = [pBufHeaderRemote EXCEPT ![c] = r]
  /\ nAllocatedBuffers' = nAllocatedBuffers + 1
  /\ nTotalBuffers' = IF nTotalBuffers < nAllocatedBuffers + 1
                        THEN nAllocatedBuffers + 1 ELSE nTotalBuffers
  /\ at' = [at EXCEPT ![h] = "client"] /\ remoteOf' = [remoteOf EXCEPT ![h] = r]

\* The remote core takes a buffer it has not got and gives it a header of its own.
fresh(h, r) == at[h] = "none" /\ \A k \in Header : remoteOf[k] # r

\* A slip: the handle of the registration is not kept.
register_unkept(c, g) ==
  /\ g \notin registered /\ registered' = registered \cup {g}
  /\ pRegBufferHandle' = pRegBufferHandle

\* RPC_RegisterBuffer() for slot c.
register(c, g) ==
  /\ g \notin registered /\ registered' = registered \cup {g}
  /\ pRegBufferHandle' = [pRegBufferHandle EXCEPT ![c] = g]

\* The test of MAX_NUM_PROXY_BUFFERS.
hasRoom == up /\ nTotalBuffers < MAX

\* PROXY_UseBuffer() with memory of the client.
PROXY_UseBuffer(c, h, r, g) ==
  /\ hasRoom /\ ~dead /\ currentBuffer(c) /\ fresh(h, r)
  /\ register(c, g) /\ storeHeader(c, h, r)
  /\ own' = [own EXCEPT ![h] = NULL]
  /\ UNCHANGED <<up, dead, pBufferHandle, overran, allocated>>

\* The remote core refuses, or dies, after the registration: it stays in the slot.
UseBufferRefused(c, g) ==
  /\ hasRoom /\ ~dead /\ currentBuffer(c)
  /\ register(c, g)
  /\ UNCHANGED <<up, dead, table, pBufferHandle, overran, buffers, allocated>>

\* PROXY_AllocateBuffer(): memory from the plugin, its handle into the slot, then
\* PROXY_UseBuffer(), which finds the same slot.
PROXY_AllocateBuffer(c, m, h, r, g) ==
  /\ hasRoom /\ ~dead /\ currentBuffer(c) /\ fresh(h, r) /\ m \notin allocated
  /\ allocated' = allocated \cup {m}
  /\ pBufferHandle' = [pBufferHandle EXCEPT ![c] = m]
  /\ register(c, g) /\ storeHeader(c, h, r)
  /\ own' = [own EXCEPT ![h] = m]
  /\ UNCHANGED <<up, dead, overran>>

\* A slip: the memory is not given back.
AllocateBufferRefused_leaks(c, m, g) ==
  /\ hasRoom /\ ~dead /\ currentBuffer(c) /\ m \notin allocated
  /\ allocated' = allocated \cup {m}
  /\ pBufferHandle' = [pBufferHandle EXCEPT ![c] = m]
  /\ register(c, g)
  /\ UNCHANGED <<up, dead, table, overran, buffers>>

\* PROXY_UseBuffer() fails after the registration: the memory is given back, its
\* handle stays in the slot.
AllocateBufferRefused(c, m, g) ==
  /\ hasRoom /\ ~dead /\ currentBuffer(c) /\ m \notin allocated
  /\ pBufferHandle' = [pBufferHandle EXCEPT ![c] = m]
  /\ register(c, g)
  /\ UNCHANGED <<up, dead, table, overran, buffers, allocated>>

\* It fails before: MAX is reached, the remote core is dead or does not answer
\* PROXY_GetParameter(), or the registration fails.  The handle has been stored
\* by then, in slot MAX too.
AllocateBufferFails(c, m) ==
  /\ up /\ currentBuffer(c) /\ m \notin allocated
  /\ IF c < MAX
       THEN pBufferHandle' = [pBufferHandle EXCEPT ![c] = m] /\ overran' = overran
       ELSE overran' = TRUE /\ pBufferHandle' = pBufferHandle
  /\ UNCHANGED <<up, dead, table, pRegBufferHandle, buffers, allocated, registered>>

-----------------------------------------------------------------------------
(* PROXY_FreeBuffer() *)

\* TIMM_OSAL_Memset() of the slot.
clearSlot(c) ==
  /\ pBufHeader' = [pBufHeader EXCEPT ![c] = NULL]
  /\ pBufHeaderRemote' = [pBufHeaderRemote EXCEPT ![c] = NULL]
  /\ pBufferHandle' = [pBufferHandle EXCEPT ![c] = NULL]
  /\ pRegBufferHandle' = [pRegBufferHandle EXCEPT ![c] = NULL]

\* The slot of header h.
holds(c, h) == c \in 0 .. nTotalBuffers - 1 /\ pBufHeader[c] = h

\* A slip: the count stays when the remote core does not answer.
FreeBuffer_counts_alive(c, h, u) ==
  /\ up /\ holds(c, h) /\ (at[h] = "client" \/ dead)
  /\ clearSlot(c)
  /\ nAllocatedBuffers' = nAllocatedBuffers - (IF dead THEN 0 ELSE 1)
  /\ allocated' = allocated \ {pBufferHandle[c]}
  /\ registered' = IF u THEN registered \ {pRegBufferHandle[c]} ELSE registered
  /\ at' = [at EXCEPT ![h] = "none"] /\ remoteOf' = [remoteOf EXCEPT ![h] = NULL]
  /\ own' = [own EXCEPT ![h] = NULL]
  /\ UNCHANGED <<up, dead, nTotalBuffers, overran>>

\* Every part of it is tried whatever failed before: the remote core's answer, the
\* memory of the slot, the registration (u: the driver undoes it; after an overrun
\* the type of the port is lost and it does not), the header and the slot.
PROXY_FreeBuffer(c, h, u) ==
  /\ up /\ holds(c, h) /\ (at[h] = "client" \/ dead)
  /\ clearSlot(c)
  /\ nAllocatedBuffers' = nAllocatedBuffers - 1
  /\ allocated' = allocated \ {pBufferHandle[c]}
  /\ registered' = IF u THEN registered \ {pRegBufferHandle[c]} ELSE registered
  /\ at' = [at EXCEPT ![h] = "none"] /\ remoteOf' = [remoteOf EXCEPT ![h] = NULL]
  /\ own' = [own EXCEPT ![h] = NULL]
  /\ UNCHANGED <<up, dead, nTotalBuffers, overran>>

-----------------------------------------------------------------------------
(* The traffic *)

\* PROXY_EmptyThisBuffer() and PROXY_FillThisBuffer(), accepted.  A refusal leaves
\* the buffer with the client.
PROXY_ThisBuffer(c, h) ==
  /\ up /\ ~dead /\ holds(c, h) /\ at[h] = "client"
  /\ at' = [at EXCEPT ![h] = "component"]
  /\ UNCHANGED <<up, dead, table, pBufferHandle, pRegBufferHandle, overran, remoteOf, own,
                 allocated, registered>>

\* The first slot below nTotalBuffers with remote header r.
firstWith(c, r) ==
  /\ c \in 0 .. nTotalBuffers - 1 /\ pBufHeaderRemote[c] = r
  /\ \A s \in 0 .. c - 1 : pBufHeaderRemote[s] # r

\* PROXY_EmptyBufferDone() and PROXY_FillBufferDone(): the remote core is done with
\* the buffer it knows as r; the header found in the table goes to the client.
PROXY_BufferDone(h, r, c) ==
  /\ up /\ ~dead /\ at[h] = "component" /\ remoteOf[h] = r
  /\ firstWith(c, r) /\ pBufHeader[c] # NULL
  /\ at' = [at EXCEPT ![pBufHeader[c]] = "client"]
  /\ UNCHANGED <<up, dead, table, pBufferHandle, pRegBufferHandle, overran, remoteOf, own,
                 allocated, registered>>

Next ==
  \/ OMX_ProxyCommonInit \/ PROXY_ComponentDeInit \/ RemoteDies
  \/ \E c \in 0 .. MAX, h \in Header, r \in Remote, g \in Reg :
       \/ PROXY_UseBuffer(c, h, r, g)
       \/ \E m \in Mem : PROXY_AllocateBuffer(c, m, h, r, g)
  \/ \E c \in 0 .. MAX, g \in Reg :
       \/ UseBufferRefused(c, g)
       \/ \E m \in Mem : AllocateBufferRefused(c, m, g)
  \/ \E c \in 0 .. MAX, m \in Mem : AllocateBufferFails(c, m)
  \/ \E c \in Slot, h \in Header :
       \/ \E u \in BOOLEAN : PROXY_FreeBuffer(c, h, u)
       \/ PROXY_ThisBuffer(c, h)
       \/ \E r \in Remote : PROXY_BufferDone(h, r, c)

Spec == Init /\ [][Next]_vars

-----------------------------------------------------------------------------
(* Properties *)

Used == {s \in Slot : pBufHeader[s] # NULL}

\* The counters that bound every search of the table are right after any mix of
\* uses, allocations, refusals and frees: nAllocatedBuffers is the number of
\* headers, and no header lies at or beyond nTotalBuffers.
TableInv ==
  /\ nAllocatedBuffers = Cardinality(Used)
  /\ \A s \in Used : s < nTotalBuffers
  /\ nTotalBuffers <= MAX

\* Each header the client was given and has not freed is in exactly one slot, and
\* no other is in the table: PROXY_FreeBuffer(), PROXY_EmptyThisBuffer() and
\* PROXY_FillThisBuffer() find it.
HeadersInTable ==
  /\ \A h \in Header : at[h] # "none" => \E s \in Used : pBufHeader[s] = h
  /\ \A s \in Used : at[pBufHeader[s]] # "none"
  /\ \A s, v \in Used : pBufHeader[s] = pBufHeader[v] => s = v

\* When the remote core returns a buffer the search for its header stops at the slot
\* of that buffer, never at a slot that has been freed, so the client gets the
\* header it has given (omx_proxy_common.c:442 and 512).
DoneFindsHeader ==
  \A h \in Header : at[h] = "component" =>
    \E c \in Slot : firstWith(c, remoteOf[h]) /\ pBufHeader[c] = h

\* Memory of the plugin is never forgotten: a live handle is in the slot of a buffer.
MemoryTracked == allocated \subseteq {pBufferHandle[s] : s \in Used}

\* A buffer in use keeps a registration of its own: the remote core never works on
\* memory the driver has unpinned.
RegistrationsHeld ==
  \A s \in Used :
    /\ pRegBufferHandle[s] \in registered
    /\ \A v \in Used : pRegBufferHandle[v] = pRegBufferHandle[s] => v = s

\* A buffer of PROXY_AllocateBuffer() keeps its memory until it is freed itself: "The
\* same empty spot will be picked up by the subsequent Use buffer call"
\* (omx_proxy_common.c:774), so a handle in a slot belongs to the header beside it.
MemoryKept == \A h \in Header : own[h] # NULL => own[h] \in allocated
=============================================================================
