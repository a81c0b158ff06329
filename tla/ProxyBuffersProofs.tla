------------------------- MODULE ProxyBuffersProofs -------------------------
(***************************************************************************)
(* For every size of the table and every number of buffers: the counters   *)
(* of the table are right, the headers of the client are found in it, the  *)
(* buffers the remote core returns too, memory is not forgotten and the    *)
(* registrations of buffers in use are kept.                               *)
(*                                                                         *)
(* The first empty slot lies below nTotalBuffers unless all of those are   *)
(* full, and then nAllocatedBuffers = nTotalBuffers; so nTotalBuffers      *)
(* grows exactly when the slot used is the one at the end.                 *)
(***************************************************************************)
EXTENDS ProxyBuffers, FiniteSetTheorems, TLAPS

\* The remote header of a slot is that of its header, free slots have none, and
\* the remote core gives no two buffers the same.
RemoteInv ==
  /\ \A s \in Used : pBufHeaderRemote[s] = remoteOf[pBufHeader[s]] /\ pBufHeaderRemote[s] # NULL
  /\ \A s \in Slot \ Used : pBufHeaderRemote[s] = NULL
  /\ \A h, k \in Header : remoteOf[h] = remoteOf[k] /\ remoteOf[h] # NULL => h = k

BoolOK == up \in BOOLEAN /\ dead \in BOOLEAN /\ overran \in BOOLEAN

\* TypeOK without the Booleans.
DataOK ==
  /\ pBufHeader \in [Slot -> Header \cup {NULL}]
  /\ pBufHeaderRemote \in [Slot -> Remote \cup {NULL}]
  /\ pBufferHandle \in [Slot -> Mem \cup {NULL}]
  /\ pRegBufferHandle \in [Slot -> Reg \cup {NULL}]
  /\ nTotalBuffers \in 0 .. MAX /\ nAllocatedBuffers \in 0 .. MAX
  /\ at \in [Header -> {"none", "client", "component"}]
  /\ remoteOf \in [Header -> Remote \cup {NULL}]
  /\ own \in [Header -> Mem \cup {NULL}]
  /\ allocated \subseteq Mem /\ registered \subseteq Reg

IInv == DataOK /\ TableInv /\ HeadersInTable /\ RemoteInv /\ MemoryTracked /\ RegistrationsHeld

\* The set of used slots is finite and has at most nTotalBuffers members.
LEMMA UsedFinite ==
  ASSUME DataOK, TableInv
  PROVE  IsFiniteSet(Used) /\ Cardinality(Used) \in Nat
<1>1. IsFiniteSet(0 .. MAX - 1)
  BY MaxAssumption, FS_Interval
<1>2. Used \subseteq 0 .. MAX - 1
  BY DEF Used, Slot
<1> QED
  BY <1>1, <1>2, FS_Subset, FS_CardinalityType, Zenon

\* The slot that PROXY_UseBuffer() picks is a free one of the table.
LEMMA CurrentSlot ==
  ASSUME DataOK, TableInv, nTotalBuffers < MAX, NEW c \in 0 .. MAX, currentBuffer(c)
  PROVE  c \in Slot /\ c \notin Used
BY MaxAssumption DEF DataOK, TableInv, currentBuffer, Empty, Slot, Used

\* Filling it keeps the counters right.
LEMMA StoreCounts ==
  ASSUME DataOK, TableInv, nTotalBuffers < MAX, NEW c \in 0 .. MAX, currentBuffer(c),
         NEW h \in Header, NEW r \in Remote, storeHeader(c, h, r)
  PROVE  TableInv' /\ nTotalBuffers' \in 0 .. MAX /\ nAllocatedBuffers' \in 0 .. MAX
<1>1. c \in Slot /\ c \notin Used
  BY CurrentSlot
<1>2. Used' = Used \cup {c}
  BY <1>1, NullAssumption DEF Used, storeHeader, DataOK
<1>3. IsFiniteSet(Used) /\ Cardinality(Used) \in Nat
  BY UsedFinite
<1>4. Cardinality(Used') = Cardinality(Used) + 1
  BY <1>1, <1>2, <1>3, FS_AddElement, Zenon
<1>5. CASE Empty = {} /\ c = nTotalBuffers
  <2>1. Used = 0 .. nTotalBuffers - 1
    BY <1>5, MaxAssumption DEF Used, Empty, TableInv, DataOK, Slot
  <2>2. Cardinality(0 .. nTotalBuffers - 1) = nTotalBuffers
    <3>1. nTotalBuffers \in Nat
      BY MaxAssumption DEF DataOK
    <3>2. CASE nTotalBuffers = 0
      <4>1. 0 .. nTotalBuffers - 1 = {}
        BY <3>2
      <4> QED
        BY <4>1, <3>2, FS_EmptySet
    <3>3. CASE nTotalBuffers # 0
      <4>1. 0 <= nTotalBuffers - 1 /\ nTotalBuffers - 1 \in Int /\ (nTotalBuffers - 1) - 0 + 1 = nTotalBuffers
        BY <3>1, <3>3
      <4> QED
        BY <4>1, FS_Interval
    <3> QED
      BY <3>2, <3>3
  <2>3. nAllocatedBuffers = nTotalBuffers
    BY <2>1, <2>2 DEF TableInv
  <2> QED
    BY <1>1, <1>2, <1>4, <1>5, <2>1, <2>3, MaxAssumption DEF TableInv, storeHeader, DataOK
<1>6. CASE c \in Empty
  <2>1. c \in 0 .. nTotalBuffers - 1
    BY <1>6 DEF Empty
  <2>2. Used' \subseteq 0 .. nTotalBuffers - 1
    BY <1>2, <2>1, MaxAssumption DEF TableInv, Used, Slot, DataOK
  <2>3. IsFiniteSet(0 .. nTotalBuffers - 1) /\ Cardinality(0 .. nTotalBuffers - 1) = nTotalBuffers
    <3>1. nTotalBuffers \in Nat /\ 0 <= nTotalBuffers - 1 /\ nTotalBuffers - 1 \in Int
            /\ (nTotalBuffers - 1) - 0 + 1 = nTotalBuffers
      BY <2>1, MaxAssumption DEF DataOK
    <3> QED
      BY <3>1, FS_Interval
  <2>4. Cardinality(Used') <= nTotalBuffers
    BY <2>2, <2>3, FS_Subset, ZenonT(30)
  <2>5. nTotalBuffers' = nTotalBuffers /\ nAllocatedBuffers' = nAllocatedBuffers + 1
    BY <1>4, <2>4, MaxAssumption DEF TableInv, storeHeader, DataOK
  <2> QED
    BY <1>4, <2>2, <2>4, <2>5, MaxAssumption DEF TableInv, DataOK
<1> QED
  BY <1>5, <1>6 DEF currentBuffer

\* It keeps the headers and their partners in the table.
LEMMA StoreHeaders ==
  ASSUME DataOK, TableInv, HeadersInTable, RemoteInv, nTotalBuffers < MAX,
         NEW c \in 0 .. MAX, currentBuffer(c),
         NEW h \in Header, NEW r \in Remote, fresh(h, r), storeHeader(c, h, r)
  PROVE  HeadersInTable' /\ RemoteInv'
<1>1. c \in Slot /\ c \notin Used
  BY CurrentSlot
<1>2. Used' = Used \cup {c}
  BY <1>1, NullAssumption DEF Used, storeHeader, DataOK
<1>3. /\ pBufHeader'[c] = h /\ pBufHeaderRemote'[c] = r /\ at'[h] = "client" /\ remoteOf'[h] = r
      /\ \A s \in Slot : s # c => pBufHeader'[s] = pBufHeader[s] /\ pBufHeaderRemote'[s] = pBufHeaderRemote[s]
      /\ \A k \in Header : k # h => at'[k] = at[k] /\ remoteOf'[k] = remoteOf[k]
  BY <1>1 DEF storeHeader, DataOK
<1>4. \A s \in Used : s \in Slot /\ s # c /\ pBufHeader[s] \in Header /\ pBufHeader[s] # h
  BY <1>1 DEF Used, DataOK, HeadersInTable, fresh
<1>5. HeadersInTable'
  <2>1. ASSUME NEW k \in Header, at'[k] # "none" PROVE \E s \in Used' : pBufHeader'[s] = k
    <3>1. CASE k = h
      BY <1>2, <1>3, <3>1
    <3>2. CASE k # h
      <4>1. PICK s \in Used : pBufHeader[s] = k
        BY <1>3, <2>1, <3>2 DEF HeadersInTable
      <4> QED
        BY <1>2, <1>3, <1>4, <4>1
    <3> QED
      BY <3>1, <3>2
  <2>2. \A s \in Used' : at'[pBufHeader'[s]] # "none"
    BY <1>2, <1>3, <1>4 DEF HeadersInTable
  <2>3. \A s, v \in Used' : pBufHeader'[s] = pBufHeader'[v] => s = v
    BY <1>2, <1>3, <1>4 DEF HeadersInTable
  <2> QED
    BY <2>1, <2>2, <2>3 DEF HeadersInTable
<1>6. \A s \in Slot \ Used' : s # c /\ s \in Slot \ Used
  BY <1>1, <1>2
<1>7. RemoteInv'
  <2>1. \A s \in Used' : pBufHeaderRemote'[s] = remoteOf'[pBufHeader'[s]] /\ pBufHeaderRemote'[s] # NULL
    BY <1>2, <1>3, <1>4, NullAssumption DEF RemoteInv
  <2>2. \A s \in Slot \ Used' : pBufHeaderRemote'[s] = NULL
    BY <1>3, <1>6 DEF RemoteInv
  <2>3. \A k, l \in Header : remoteOf'[k] = remoteOf'[l] /\ remoteOf'[k] # NULL => k = l
    BY <1>3 DEF RemoteInv, fresh
  <2> QED
    BY <2>1, <2>2, <2>3 DEF RemoteInv
<1> QED
  BY <1>5, <1>7

\* Slots that are not in use do not matter to the memory and the registrations.
LEMMA StoreMemory ==
  ASSUME DataOK, TableInv, MemoryTracked, RegistrationsHeld, nTotalBuffers < MAX,
         NEW c \in 0 .. MAX, currentBuffer(c),
         NEW h \in Header, NEW r \in Remote, storeHeader(c, h, r),
         NEW g \in Reg, register(c, g),
         \/ UNCHANGED <<pBufferHandle, allocated>>
         \/ \E m \in Mem : /\ allocated' = allocated \cup {m}
                           /\ pBufferHandle' = [pBufferHandle EXCEPT ![c] = m]
  PROVE  RegistrationsHeld' /\ MemoryTracked'
<1>1. c \in Slot /\ c \notin Used
  BY CurrentSlot
<1>2. Used' = Used \cup {c}
  BY <1>1, NullAssumption DEF Used, storeHeader, DataOK
<1>3. \A s \in Used : s \in Slot /\ s # c
  BY <1>1 DEF Used
<1>4. RegistrationsHeld'
  BY <1>1, <1>2, <1>3 DEF RegistrationsHeld, register, DataOK
<1>5. CASE UNCHANGED <<pBufferHandle, allocated>>
  BY <1>2, <1>4, <1>5 DEF MemoryTracked
<1>6. CASE \E m \in Mem : /\ allocated' = allocated \cup {m}
                          /\ pBufferHandle' = [pBufferHandle EXCEPT ![c] = m]
  <2>1. PICK m \in Mem : /\ allocated' = allocated \cup {m}
                         /\ pBufferHandle' = [pBufferHandle EXCEPT ![c] = m]
    BY <1>6, Zenon
  <2>2. pBufferHandle'[c] = m /\ \A s \in Used : pBufferHandle'[s] = pBufferHandle[s]
    BY <1>1, <1>3, <2>1 DEF DataOK
  <2> QED
    BY <1>2, <1>4, <2>1, <2>2 DEF MemoryTracked
<1> QED
  BY <1>5, <1>6

\* A step that touches only what free slots keep of memory and registrations.
LEMMA RefusedStep ==
  ASSUME IInv, NEW c \in Slot, c \notin Used, UNCHANGED <<table, buffers, allocated>>,
         pBufferHandle' = pBufferHandle
           \/ \E m \in Mem : pBufferHandle' = [pBufferHandle EXCEPT ![c] = m],
         \/ UNCHANGED <<pRegBufferHandle, registered>>
         \/ \E g \in Reg : register(c, g)
  PROVE  IInv'
<1>1. Used' = Used
  BY DEF Used, table
<1>2. \A s \in Used : s \in Slot /\ s # c
  BY DEF Used
<1>3. DataOK'
  BY DEF IInv, DataOK, table, buffers, register
<1>4. TableInv' /\ HeadersInTable' /\ RemoteInv'
  BY <1>1 DEF IInv, TableInv, HeadersInTable, RemoteInv, table, buffers
<1>5. \A s \in Used : pBufferHandle'[s] = pBufferHandle[s]
  BY <1>2 DEF IInv, DataOK
<1>6. MemoryTracked'
  BY <1>1, <1>5 DEF IInv, MemoryTracked
<1>7. registered \subseteq registered' /\ \A s \in Used : pRegBufferHandle'[s] = pRegBufferHandle[s]
  BY <1>2 DEF IInv, DataOK, register
<1>8. RegistrationsHeld'
  BY <1>1, <1>7 DEF IInv, RegistrationsHeld
<1> QED
  BY <1>3, <1>4, <1>6, <1>8 DEF IInv

\* PROXY_FreeBuffer() takes one slot out and leaves the others as they are.
LEMMA FreeStep ==
  ASSUME IInv, NEW c \in Slot, NEW h \in Header, NEW u \in BOOLEAN, PROXY_FreeBuffer(c, h, u)
  PROVE  IInv'
<1>1. c \in Used /\ pBufHeader[c] = h
  BY NullAssumption DEF PROXY_FreeBuffer, holds, Used
<1>2. Used' = Used \ {c}
  BY <1>1, NullAssumption DEF Used, PROXY_FreeBuffer, clearSlot, IInv, DataOK
<1>3. /\ pBufHeaderRemote'[c] = NULL
      /\ \A s \in Slot : s # c =>
           /\ pBufHeader'[s] = pBufHeader[s] /\ pBufHeaderRemote'[s] = pBufHeaderRemote[s]
           /\ pBufferHandle'[s] = pBufferHandle[s] /\ pRegBufferHandle'[s] = pRegBufferHandle[s]
      /\ at'[h] = "none" /\ remoteOf'[h] = NULL
      /\ \A k \in Header : k # h => at'[k] = at[k] /\ remoteOf'[k] = remoteOf[k]
  BY DEF PROXY_FreeBuffer, clearSlot, IInv, DataOK
<1>4. \A s \in Used' : s \in Slot /\ s \in Used /\ s # c /\ pBufHeader[s] \in Header /\ pBufHeader[s] # h
  BY <1>1, <1>2 DEF Used, IInv, DataOK, HeadersInTable
<1>5. IsFiniteSet(Used) /\ Cardinality(Used) \in Nat
  BY UsedFinite DEF IInv
<1>6. Cardinality(Used') = Cardinality(Used) - 1
  BY <1>1, <1>2, <1>5, FS_RemoveElement, Zenon
<1>7. IsFiniteSet(Used') /\ Cardinality(Used') \in Nat
  BY <1>2, <1>5, FS_RemoveElement, FS_CardinalityType
<1>8. TableInv' /\ nTotalBuffers' = nTotalBuffers /\ nAllocatedBuffers' \in 0 .. MAX
  BY <1>4, <1>6, <1>7, MaxAssumption DEF IInv, TableInv, PROXY_FreeBuffer, DataOK
<1>9. DataOK'
  BY <1>8 DEF IInv, DataOK, PROXY_FreeBuffer, clearSlot
<1>10. HeadersInTable'
  BY <1>1, <1>2, <1>3, <1>4, SMTT(30) DEF IInv, HeadersInTable
<1>11. RemoteInv'
  <2>1. \A s \in Slot \ Used' : s = c \/ s \in Slot \ Used
    BY <1>2, SMTT(30)
  <2> QED
    BY <1>1, <1>2, <1>3, <1>4, <2>1 DEF IInv, RemoteInv
<1>12. MemoryTracked'
  BY <1>1, <1>2, <1>3, <1>4, SMTT(30) DEF IInv, MemoryTracked, PROXY_FreeBuffer
<1>13. RegistrationsHeld'
  <2>1. \A s \in Used' : pRegBufferHandle[s] # pRegBufferHandle[c] /\ pRegBufferHandle[s] \in registered
    BY <1>1, <1>4 DEF IInv, RegistrationsHeld
  <2>2. registered' = registered \ {pRegBufferHandle[c]} \/ registered' = registered
    BY DEF PROXY_FreeBuffer
  <2> QED
    BY <1>3, <1>4, <2>1, <2>2 DEF IInv, RegistrationsHeld
<1> QED
  BY <1>8, <1>9, <1>10, <1>11, <1>12, <1>13 DEF IInv

\* The initial table is empty; so is the one PROXY_ComponentDeInit() leaves.
LEMMA InitInv ==
  Init => BoolOK /\ IInv
<1> SUFFICES ASSUME Init PROVE BoolOK /\ IInv
  OBVIOUS
<1>1. BoolOK
  BY Zenon DEF Init, BoolOK
<1>2. DataOK
  BY MaxAssumption DEF Init, DataOK
<1>3. Used = {}
  BY DEF Init, Used
<1>4. TableInv
  BY <1>3, FS_EmptySet, MaxAssumption DEF Init, TableInv
<1>5. HeadersInTable /\ RemoteInv /\ MemoryTracked /\ RegistrationsHeld
  BY <1>3 DEF Init, HeadersInTable, RemoteInv, MemoryTracked, RegistrationsHeld
<1> QED
  BY <1>1, <1>2, <1>4, <1>5 DEF IInv

\* The Booleans stay Booleans.
LEMMA BoolStep ==
  ASSUME BoolOK, [Next]_vars
  PROVE  BoolOK'
<1>1. CASE UNCHANGED <<up, dead, overran>>
  BY Zenon, <1>1 DEF BoolOK
<1>2. CASE OMX_ProxyCommonInit \/ PROXY_ComponentDeInit \/ RemoteDies
  BY Zenon, <1>2 DEF BoolOK, OMX_ProxyCommonInit, PROXY_ComponentDeInit, RemoteDies
<1>3. ASSUME NEW c \in 0 .. MAX, NEW m \in Mem, AllocateBufferFails(c, m)
      PROVE  BoolOK'
  <2>1. up' = up /\ dead' = dead
    BY <1>3 DEF AllocateBufferFails
  <2>2. overran' = overran \/ overran' = TRUE
    BY Zenon, <1>3 DEF AllocateBufferFails
  <2> QED
    BY Zenon, <2>1, <2>2 DEF BoolOK
<1>4. ASSUME NEW c, NEW h, NEW r, NEW g, NEW m, NEW u,
             \/ PROXY_UseBuffer(c, h, r, g) \/ PROXY_AllocateBuffer(c, m, h, r, g)
             \/ UseBufferRefused(c, g) \/ AllocateBufferRefused(c, m, g)
             \/ PROXY_FreeBuffer(c, h, u) \/ PROXY_ThisBuffer(c, h) \/ PROXY_BufferDone(h, r, c)
      PROVE  UNCHANGED <<up, dead, overran>>
  BY Zenon, <1>4 DEF PROXY_UseBuffer, PROXY_AllocateBuffer, UseBufferRefused, AllocateBufferRefused,
    PROXY_FreeBuffer, PROXY_ThisBuffer, PROXY_BufferDone
<1>5. CASE UNCHANGED vars
  BY Zenon, <1>1, <1>5 DEF vars
<1> QED
  BY Zenon, <1>1, <1>2, <1>3, <1>4, <1>5 DEF Next

\* Every step keeps the inductive invariant.
LEMMA NextInv ==
  ASSUME IInv, [Next]_vars
  PROVE  IInv'
<1>1. CASE UNCHANGED <<table, pBufferHandle, pRegBufferHandle, buffers, allocated, registered>>
  BY <1>1 DEF IInv, DataOK, TableInv, HeadersInTable, RemoteInv, MemoryTracked, RegistrationsHeld,
    Used, table, buffers
<1>2. CASE PROXY_ComponentDeInit
  <2>1. DataOK'
    BY <1>2, MaxAssumption DEF PROXY_ComponentDeInit, emptyTable, DataOK
  <2>2. Used' = {}
    BY <1>2 DEF PROXY_ComponentDeInit, emptyTable, Used
  <2>3. TableInv'
    BY <1>2, <2>2, FS_EmptySet, MaxAssumption DEF PROXY_ComponentDeInit, emptyTable, TableInv
  <2>4. HeadersInTable' /\ RemoteInv' /\ MemoryTracked' /\ RegistrationsHeld'
    BY <1>2, <2>2 DEF PROXY_ComponentDeInit, emptyTable, HeadersInTable, RemoteInv, MemoryTracked,
      RegistrationsHeld
  <2> QED
    BY <2>1, <2>3, <2>4 DEF IInv
<1>3. ASSUME NEW c \in 0 .. MAX, NEW h \in Header, NEW r \in Remote, NEW g \in Reg,
             PROXY_UseBuffer(c, h, r, g)
      PROVE  IInv'
  <2>1. /\ nTotalBuffers < MAX /\ currentBuffer(c) /\ fresh(h, r) /\ register(c, g)
        /\ storeHeader(c, h, r) /\ UNCHANGED <<pBufferHandle, allocated>>
    BY <1>3 DEF PROXY_UseBuffer, hasRoom
  <2>2. TableInv' /\ nTotalBuffers' \in 0 .. MAX /\ nAllocatedBuffers' \in 0 .. MAX
    BY <2>1, StoreCounts DEF IInv
  <2>3. HeadersInTable' /\ RemoteInv'
    BY <2>1, StoreHeaders DEF IInv
  <2>4. MemoryTracked' /\ RegistrationsHeld'
    BY <2>1, StoreMemory DEF IInv
  <2>5. DataOK'
    <3>1. /\ pBufHeader' \in [Slot -> Header \cup {NULL}]
          /\ pBufHeaderRemote' \in [Slot -> Remote \cup {NULL}]
      BY <2>1, Zenon DEF IInv, DataOK, storeHeader
    <3>2. /\ at' \in [Header -> {"none", "client", "component"}]
          /\ remoteOf' \in [Header -> Remote \cup {NULL}]
      BY <2>1 DEF IInv, DataOK, storeHeader
    <3>3. pRegBufferHandle' \in [Slot -> Reg \cup {NULL}] /\ registered' \subseteq Reg
      BY <2>1, Zenon DEF IInv, DataOK, register
    <3>4. /\ pBufferHandle' = pBufferHandle /\ allocated' = allocated /\ own' = [own EXCEPT ![h] = NULL]
      BY <1>3 DEF PROXY_UseBuffer
    <3>5. /\ pBufferHandle' \in [Slot -> Mem \cup {NULL}] /\ allocated' \subseteq Mem
          /\ own' \in [Header -> Mem \cup {NULL}]
      BY <3>4 DEF IInv, DataOK
    <3> QED
      BY <2>2, <3>1, <3>2, <3>3, <3>5 DEF DataOK
  <2> QED
    BY <2>2, <2>3, <2>4, <2>5 DEF IInv
<1>4. ASSUME NEW c \in 0 .. MAX, NEW h \in Header, NEW r \in Remote, NEW g \in Reg, NEW m \in Mem,
             PROXY_AllocateBuffer(c, m, h, r, g)
      PROVE  IInv'
  <2>1. /\ nTotalBuffers < MAX /\ currentBuffer(c) /\ fresh(h, r) /\ register(c, g)
        /\ storeHeader(c, h, r) /\ allocated' = allocated \cup {m}
        /\ pBufferHandle' = [pBufferHandle EXCEPT ![c] = m]
    BY <1>4 DEF PROXY_AllocateBuffer, hasRoom
  <2>2. TableInv' /\ nTotalBuffers' \in 0 .. MAX /\ nAllocatedBuffers' \in 0 .. MAX
    BY <2>1, StoreCounts DEF IInv
  <2>3. HeadersInTable' /\ RemoteInv'
    BY <2>1, StoreHeaders DEF IInv
  <2>4. MemoryTracked' /\ RegistrationsHeld'
    BY <2>1, StoreMemory, Zenon DEF IInv
  <2>5. DataOK'
    <3>1. /\ pBufHeader' \in [Slot -> Header \cup {NULL}]
          /\ pBufHeaderRemote' \in [Slot -> Remote \cup {NULL}]
      BY <2>1, Zenon DEF IInv, DataOK, storeHeader
    <3>2. /\ at' \in [Header -> {"none", "client", "component"}]
          /\ remoteOf' \in [Header -> Remote \cup {NULL}]
      BY <2>1 DEF IInv, DataOK, storeHeader
    <3>3. pRegBufferHandle' \in [Slot -> Reg \cup {NULL}] /\ registered' \subseteq Reg
      BY <2>1, Zenon DEF IInv, DataOK, register
    <3>4. /\ pBufferHandle' = [pBufferHandle EXCEPT ![c] = m] /\ allocated' = allocated \cup {m}
            /\ own' = [own EXCEPT ![h] = m]
      BY <1>4 DEF PROXY_AllocateBuffer
    <3>5. /\ pBufferHandle' \in [Slot -> Mem \cup {NULL}] /\ allocated' \subseteq Mem
          /\ own' \in [Header -> Mem \cup {NULL}]
      BY <3>4, Zenon DEF IInv, DataOK
    <3> QED
      BY <2>2, <3>1, <3>2, <3>3, <3>5 DEF DataOK
  <2> QED
    BY <2>2, <2>3, <2>4, <2>5 DEF IInv
<1>5. ASSUME NEW c \in 0 .. MAX, NEW g \in Reg, UseBufferRefused(c, g)
      PROVE  IInv'
  <2>1. c \in Slot /\ c \notin Used
    BY <1>5, CurrentSlot DEF IInv, UseBufferRefused, hasRoom
  <2> QED
    BY <1>5, <2>1, RefusedStep DEF UseBufferRefused
<1>6. ASSUME NEW c \in 0 .. MAX, NEW g \in Reg, NEW m \in Mem, AllocateBufferRefused(c, m, g)
      PROVE  IInv'
  <2>1. c \in Slot /\ c \notin Used
    BY <1>6, CurrentSlot DEF IInv, AllocateBufferRefused, hasRoom
  <2> QED
    BY <1>6, <2>1, RefusedStep, Zenon DEF AllocateBufferRefused
<1>7. ASSUME NEW c \in 0 .. MAX, NEW m \in Mem, AllocateBufferFails(c, m)
      PROVE  IInv'
  <2>1. CASE c < MAX
    <3>1. c \in Slot /\ c \notin Used
      BY <1>7, <2>1, MaxAssumption, SMTT(30)
        DEF AllocateBufferFails, currentBuffer, Empty, IInv, TableInv, DataOK, Slot, Used
    <3> QED
      BY <1>7, <2>1, <3>1, RefusedStep DEF AllocateBufferFails
  <2>2. CASE ~(c < MAX)
    BY <1>1, <1>7, <2>2 DEF AllocateBufferFails
  <2> QED
    BY <2>1, <2>2
<1>8. ASSUME NEW c \in Slot, NEW h \in Header, NEW u \in BOOLEAN, PROXY_FreeBuffer(c, h, u)
      PROVE  IInv'
  BY <1>8, FreeStep
<1>9. ASSUME NEW k \in Header, at[k] # "none", NEW l \in {"client", "component"},
             at' = [at EXCEPT ![k] = l],
             UNCHANGED <<table, pBufferHandle, pRegBufferHandle, remoteOf, own, allocated, registered>>
      PROVE  IInv'
  <2>1. Used' = Used
    BY <1>9 DEF Used, table
  <2>2. DataOK'
    BY <1>9 DEF IInv, DataOK, table
  <2>3. \A h \in Header : at'[h] # "none" <=> at[h] # "none"
    BY <1>9 DEF IInv, DataOK
  <2>4. \A s \in Used : pBufHeader[s] \in Header
    BY SMTT(30) DEF Used, IInv, DataOK
  <2>5. HeadersInTable'
    BY <1>9, <2>1, <2>3, <2>4, SMTT(30) DEF IInv, HeadersInTable, table
  <2>6. TableInv' /\ RemoteInv' /\ MemoryTracked' /\ RegistrationsHeld'
    BY <1>9, <2>1, SMTT(30) DEF IInv, TableInv, RemoteInv, MemoryTracked, RegistrationsHeld, table
  <2> QED
    BY <2>2, <2>5, <2>6 DEF IInv
<1>10. ASSUME NEW c \in Slot, NEW h \in Header, PROXY_ThisBuffer(c, h)
       PROVE  IInv'
  BY <1>9, <1>10, Zenon DEF PROXY_ThisBuffer
<1>11. ASSUME NEW c \in Slot, NEW h \in Header, NEW r \in Remote, PROXY_BufferDone(h, r, c)
       PROVE  IInv'
  <2>1. c \in Used /\ pBufHeader[c] \in Header /\ at[pBufHeader[c]] # "none"
    BY <1>11, SMTT(30) DEF PROXY_BufferDone, Used, IInv, DataOK, HeadersInTable
  <2> DEFINE k == pBufHeader[c]
  <2>2. k \in Header /\ at[k] # "none" /\ at' = [at EXCEPT ![k] = "client"]
    BY <1>11, <2>1 DEF PROXY_BufferDone
  <2> HIDE DEF k
  <2> QED
    BY <1>9, <1>11, <2>2, ZenonT(30) DEF PROXY_BufferDone
<1>12. CASE OMX_ProxyCommonInit \/ RemoteDies \/ UNCHANGED vars
  BY <1>1, <1>12 DEF OMX_ProxyCommonInit, RemoteDies, vars
<1> QED
  BY <1>2, <1>3, <1>4, <1>5, <1>6, <1>7, <1>8, <1>10, <1>11, <1>12, SMTT(30) DEF Next

\* The inductive invariant, with the types, holds throughout.
THEOREM TableInvariant ==
  Spec => [](BoolOK /\ IInv)
<1>1. BoolOK /\ IInv /\ [Next]_vars => (BoolOK /\ IInv)'
  BY BoolStep, NextInv
<1> QED
  BY InitInv, <1>1, PTL DEF Spec

\* The types of the table, the counters and the memory are kept.
THEOREM TableTypeOK ==
  Spec => []TypeOK
<1>1. BoolOK /\ IInv => TypeOK
  BY DEF BoolOK, IInv, DataOK, TypeOK
<1> QED
  BY TableInvariant, <1>1, PTL

\* For every MAX_NUM_PROXY_BUFFERS the counters are right: what every search of
\* tBufList in omx_proxy_common.c relies on.
THEOREM TableCounted ==
  Spec => []TableInv
<1>1. IInv => TableInv
  BY DEF IInv
<1> QED
  BY TableInvariant, <1>1, PTL

\* The headers the client has are found, each in one slot.
THEOREM TableHeaders ==
  Spec => []HeadersInTable
<1>1. IInv => HeadersInTable
  BY DEF IInv
<1> QED
  BY TableInvariant, <1>1, PTL

\* A buffer the remote core returns leads PROXY_EmptyBufferDone() and
\* PROXY_FillBufferDone() to its own header.
THEOREM TableDone ==
  Spec => []DoneFindsHeader
<1>1. IInv => DoneFindsHeader
  <2> SUFFICES ASSUME IInv, NEW h \in Header, at[h] = "component"
               PROVE  \E c \in Slot : firstWith(c, remoteOf[h]) /\ pBufHeader[c] = h
    BY DEF DoneFindsHeader
  <2>1. PICK c \in Used : pBufHeader[c] = h
    BY DEF IInv, HeadersInTable
  <2>2. c \in Slot /\ c \in 0 .. nTotalBuffers - 1
    BY MaxAssumption, SMTT(30) DEF Used, IInv, TableInv, DataOK, Slot
  <2>3. pBufHeaderRemote[c] = remoteOf[h] /\ remoteOf[h] # NULL
    BY <2>1 DEF IInv, RemoteInv
  <2>4. ASSUME NEW s \in 0 .. c - 1, pBufHeaderRemote[s] = remoteOf[h] PROVE FALSE
    <3>1. s \in Slot /\ s # c
      BY <2>2, <2>4, MaxAssumption DEF Slot
    <3>2. s \in Used
      BY <2>3, <2>4, <3>1 DEF IInv, RemoteInv
    <3>3. pBufHeader[s] \in Header /\ remoteOf[pBufHeader[s]] = remoteOf[h]
      BY <2>4, <3>2, SMTT(30) DEF IInv, RemoteInv, Used, DataOK
    <3>4. pBufHeader[s] = h
      BY <2>3, <3>3 DEF IInv, RemoteInv
    <3> QED
      BY <2>1, <3>1, <3>2, <3>4 DEF IInv, HeadersInTable
  <2> QED
    BY <2>1, <2>2, <2>3, <2>4, SMTT(30) DEF firstWith
<1> QED
  BY TableInvariant, <1>1, PTL

\* Memory that PROXY_AllocateBuffer() got from the plugin is in the table as long as
\* it is allocated, whatever calls were refused before.
THEOREM TableResources ==
  Spec => []MemoryTracked
<1>1. IInv => MemoryTracked
  BY DEF IInv
<1> QED
  BY TableInvariant, <1>1, PTL

\* Registrations: a slot of a buffer in use has a registration of its own, so
\* that PROXY_FreeBuffer() gives back the right one.
THEOREM TableRegistrations ==
  Spec => []RegistrationsHeld
<1>1. IInv => RegistrationsHeld
  BY DEF IInv
<1> QED
  BY TableInvariant, <1>1, PTL
=============================================================================
