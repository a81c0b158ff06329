--------------------------- MODULE OmxCoreProofs ---------------------------
(***************************************************************************)
(* The locking and the handle table of the OpenMAX core, for every number  *)
(* of clients, slots and handles.                                          *)
(***************************************************************************)
EXTENDS OmxCore, FiniteSetTheorems, TLAPS




\* Type correctness of every step of the four calls.
LEMMA TypeStep == TypeOK /\ [Next]_vars => TypeOK'
<1> SUFFICES ASSUME TypeOK, [Next]_vars PROVE TypeOK'
  OBVIOUS
<1> USE NullIsNone DEF TypeOK, Pc, goto, tables
<1>1. ASSUME NEW c \in Client, OMX_Init(c) PROVE TypeOK'
  BY <1>1 DEF OMX_Init
<1>2. ASSUME NEW c \in Client, NEW from \in Pc, NEW to \in Pc, Lock(c, from, to) PROVE TypeOK'
  BY <1>2 DEF Lock
<1>3. ASSUME NEW c \in Client, GetHandleLoad(c) PROVE TypeOK'
  BY <1>3 DEF GetHandleLoad
<1>4. ASSUME NEW c \in Client, ComponentInit(c) PROVE TypeOK'
  <2>1. CASE UNCHANGED <<pComponents, handles>>
    BY <1>4, <2>1 DEF ComponentInit
  <2>2. ASSUME NEW h \in Handle, pComponents' = [pComponents EXCEPT ![i[c]] = h],
               handles' = [handles EXCEPT ![c] = @ \cup {h}] \/ UNCHANGED handles
        PROVE  TypeOK'
    <3>1. pComponents' \in [Slot -> Handle \cup {NULL}]
      BY <2>2, Zenon
    <3>2. handles' \in [Client -> SUBSET Handle]
      BY <2>2
    <3> QED BY <1>4, <3>1, <3>2, Zenon DEF ComponentInit
  <2> QED BY <1>4, <2>1, <2>2 DEF ComponentInit
<1>5. ASSUME NEW c \in Client, ComponentDeInit(c) PROVE TypeOK'
  BY <1>5 DEF ComponentDeInit
<1>6. ASSUME NEW c \in Client, Unlock(c) PROVE TypeOK'
  BY <1>6 DEF Unlock
<1>7. ASSUME NEW c \in Client, DeinitObtain(c) PROVE TypeOK'
  BY <1>7 DEF DeinitObtain
<1>8. ASSUME NEW c \in Client, DeinitUnlock(c) PROVE TypeOK'
  BY <1>8 DEF DeinitUnlock
<1>9. ASSUME NEW c \in Client, DeinitRelease(c) PROVE TypeOK'
  BY <1>9 DEF DeinitRelease
<1>10. ASSUME NEW c \in Client, Call(c) PROVE TypeOK'
  BY <1>10 DEF Call, CallInit, CallGetHandle, CallFreeHandle, CallDeinit
<1>11. CASE UNCHANGED vars
  BY <1>11 DEF vars
<1> QED BY <1>1, <1>2, <1>3, <1>4, <1>5, <1>6, <1>7, <1>8, <1>9, <1>10, <1>11, Zenon DEF Next, Step

\* The locks, what count counts and the life of mutex are kept by every step.
LEMMA LockStep == LockInv /\ [Next]_vars => LockInv'
<1> SUFFICES ASSUME LockInv, [Next]_vars PROVE LockInv'
  OBVIOUS
<1> USE NullIsNone
<1>t. TypeOK /\ TypeOK'
  BY TypeStep DEF LockInv
<1>f. IsFiniteSet(CountedClients) /\ Cardinality(CountedClients) \in Nat
  BY ClientFinite, FS_Subset, FS_CardinalityType DEF CountedClients
<1>pos. \A c \in Client : pc[c] \in Counted => count > 0
  <2> SUFFICES ASSUME NEW c \in Client, pc[c] \in Counted PROVE count > 0
    OBVIOUS
  <2>1. c \in CountedClients
    BY DEF CountedClients
  <2>2. Cardinality(CountedClients) # 0
    BY <1>f, <2>1, FS_EmptySet
  <2> QED BY <1>f, <2>2 DEF LockInv
\* A step that moves one client within Counted, or outside it, does not change
\* the number.
<1>same. ASSUME NEW c \in Client, NEW l, pc' = [pc EXCEPT ![c] = l],
                pc[c] \in Counted <=> l \in Counted
         PROVE  CountedClients' = CountedClients
  BY <1>same, <1>t DEF CountedClients, TypeOK
<1>1. ASSUME NEW c \in Client, OMX_Init(c) PROVE LockInv'
  <2>1. CountedClients' = CountedClients \cup {c} /\ c \notin CountedClients
    BY <1>1, <1>t DEF OMX_Init, goto, CountedClients, Counted, TypeOK
  <2>2. Cardinality(CountedClients') = Cardinality(CountedClients) + 1
    BY <2>1, <1>f, FS_AddElement, Zenon
  <2>3. count' = Cardinality(CountedClients') /\ count' > 0
    BY <1>1, <2>2, <1>f DEF OMX_Init, LockInv
  <2>4. \A d \in Client : mutex' = d <=> pc'[d] \in Locked
    <3>1. CASE count = 0
      <4>1. \A d \in Client : pc[d] \notin Counted
        BY <3>1, <1>pos
      <4>2. \A d \in Client : pc[d] \notin CoreLocked
        BY <1>1 DEF OMX_Init, LockInv
      <4>3. \A d \in Client : pc[d] \notin Locked
        BY <4>1, <4>2 DEF Counted, CoreLocked, Locked
      <4> QED BY <1>1, <1>t, <3>1, <4>3 DEF OMX_Init, goto, Locked, TypeOK
    <3>2. CASE count # 0
      BY <1>1, <1>t, <3>2, <1>f DEF OMX_Init, goto, LockInv, Locked, TypeOK
    <3> QED BY <3>1, <3>2
  <2>5. \A d \in Client : coreMutex' = d <=> pc'[d] \in CoreLocked
    BY <1>1, <1>t DEF OMX_Init, goto, LockInv, CoreLocked, TypeOK
  <2>6. exists'
    <3>1. count' = 1 \/ count > 0
      BY <1>1, <1>f DEF OMX_Init, LockInv
    <3>2. exists \/ count' = 1
      BY <3>1 DEF LockInv
    <3> QED BY <1>1, <3>2, Zenon DEF OMX_Init
  <2> QED BY <1>t, <2>3, <2>4, <2>5, <2>6 DEF LockInv
<1>2. ASSUME NEW c \in Client, NEW from, NEW to, Lock(c, from, to),
             <<from, to>> \in {<<"GetHandle", "Load">>, <<"FreeHandle", "ComponentDeInit">>,
                              <<"DeinitLock", "DeinitUnlock">>}
      PROVE  LockInv'
  <2>1. CountedClients' = CountedClients
    BY <1>2, <1>same, Zenon DEF Lock, goto, Counted
  <2>2. \A d \in Client : mutex' = d <=> pc'[d] \in Locked
    BY <1>2, <1>t DEF Lock, goto, LockInv, Locked, TypeOK
  <2>3. \A d \in Client : coreMutex' = d <=> pc'[d] \in CoreLocked
    BY <1>2, <1>t DEF Lock, goto, LockInv, CoreLocked, TypeOK
  <2>4. \A d \in Client : pc'[d] \in {"DeinitLock", "DeinitUnlock"} => exists'
    BY <1>2, <1>t DEF Lock, goto, LockInv, TypeOK
  <2> QED BY <1>2, <1>t, <2>1, <2>2, <2>3, <2>4 DEF Lock, LockInv
\* Steps that touch neither the locks nor count.
<1>move. ASSUME NEW c \in Client, NEW l, goto(c, l),
                UNCHANGED <<count, coreMutex, exists, mutex>>,
                pc[c] \in Counted <=> l \in Counted, pc[c] \in Locked <=> l \in Locked,
                pc[c] \notin CoreLocked, l \notin CoreLocked
         PROVE  LockInv'
  <2>1. CountedClients' = CountedClients
    BY <1>move, <1>same, Zenon DEF goto
  <2>2. \A d \in Client : mutex' = d <=> pc'[d] \in Locked
    BY <1>move, <1>t DEF goto, LockInv, TypeOK
  <2>3. \A d \in Client : coreMutex' = d <=> pc'[d] \in CoreLocked
    BY <1>move, <1>t DEF goto, LockInv, TypeOK
  <2>4. \A d \in Client : pc'[d] \in {"DeinitLock", "DeinitUnlock"} => exists'
    BY <1>move, <1>t DEF goto, LockInv, CoreLocked, TypeOK
  <2> QED BY <1>move, <1>t, <2>1, <2>2, <2>3, <2>4 DEF LockInv
<1>3. ASSUME NEW c \in Client, GetHandleLoad(c) PROVE LockInv'
  BY <1>3, <1>move DEF GetHandleLoad, Counted, Locked, CoreLocked
<1>4. ASSUME NEW c \in Client, ComponentInit(c) PROVE LockInv'
  BY <1>4, <1>move DEF ComponentInit, Counted, Locked, CoreLocked
<1>5. ASSUME NEW c \in Client, ComponentDeInit(c) PROVE LockInv'
  BY <1>5, <1>move DEF ComponentDeInit, Counted, Locked, CoreLocked
<1>6. ASSUME NEW c \in Client, Unlock(c) PROVE LockInv'
  <2>1. CountedClients' = CountedClients
    BY <1>6, <1>same, Zenon DEF Unlock, goto, Counted
  <2>2. \A d \in Client : mutex' = d <=> pc'[d] \in Locked
    BY <1>6, <1>t DEF Unlock, goto, LockInv, Locked, TypeOK
  <2>3. \A d \in Client : coreMutex' = d <=> pc'[d] \in CoreLocked
    BY <1>6, <1>t DEF Unlock, goto, LockInv, CoreLocked, TypeOK
  <2>4. \A d \in Client : pc'[d] \in {"DeinitLock", "DeinitUnlock"} => exists'
    BY <1>6, <1>t DEF Unlock, goto, LockInv, TypeOK
  <2> QED BY <1>6, <1>t, <2>1, <2>2, <2>3, <2>4 DEF Unlock, LockInv
<1>7. ASSUME NEW c \in Client, DeinitObtain(c) PROVE LockInv'
  <2>1. CountedClients' = CountedClients \ {c} /\ c \in CountedClients
    BY <1>7, <1>t DEF DeinitObtain, goto, CountedClients, Counted, TypeOK
  <2>2. count' = Cardinality(CountedClients')
    BY <1>7, <2>1, <1>f, FS_RemoveElement, Zenon DEF DeinitObtain, LockInv
  <2>3. \A d \in Client : mutex' = d <=> pc'[d] \in Locked
    BY <1>7, <1>t DEF DeinitObtain, goto, LockInv, Locked, TypeOK
  <2>4. \A d \in Client : coreMutex' = d <=> pc'[d] \in CoreLocked
    BY <1>7, <1>t DEF DeinitObtain, goto, LockInv, CoreLocked, TypeOK
  <2>5. exists'
    BY <1>7, <1>pos DEF DeinitObtain, LockInv, Counted
  <2> QED BY <1>t, <2>2, <2>3, <2>4, <2>5 DEF LockInv
<1>8. ASSUME NEW c \in Client, DeinitUnlock(c) PROVE LockInv'
  <2>1. CountedClients' = CountedClients
    BY <1>8, <1>same, Zenon DEF DeinitUnlock, goto, Counted
  <2>2. \A d \in Client : mutex' = d <=> pc'[d] \in Locked
    BY <1>8, <1>t DEF DeinitUnlock, goto, LockInv, Locked, TypeOK
  <2>3. \A d \in Client : coreMutex' = d <=> pc'[d] \in CoreLocked
    BY <1>8, <1>t DEF DeinitUnlock, goto, LockInv, CoreLocked, TypeOK
  <2>4. \A d \in Client : pc'[d] \notin {"DeinitLock", "DeinitUnlock"}
    <3>1. \A d \in Client : d # c => pc[d] \notin CoreLocked
      BY <1>8 DEF DeinitUnlock, LockInv, CoreLocked
    <3> QED BY <1>8, <1>t, <3>1 DEF DeinitUnlock, goto, CoreLocked, TypeOK
  <2>5. count' = Cardinality(CountedClients')
    BY <1>8, <2>1 DEF DeinitUnlock, LockInv
  <2>6. count' > 0 => exists'
    <3>1. count' > 0 => count # 0
      BY <1>8 DEF DeinitUnlock
    <3> QED BY <1>8, <3>1, Zenon DEF DeinitUnlock
  <2> QED BY <1>t, <2>2, <2>3, <2>4, <2>5, <2>6 DEF LockInv
<1>9. ASSUME NEW c \in Client, DeinitRelease(c) PROVE LockInv'
  <2>1. CountedClients' = CountedClients
    BY <1>9, <1>same, Zenon DEF DeinitRelease, goto, Counted
  <2>2. \A d \in Client : mutex' = d <=> pc'[d] \in Locked
    BY <1>9, <1>t DEF DeinitRelease, goto, LockInv, Locked, TypeOK
  <2>3. \A d \in Client : coreMutex' = d <=> pc'[d] \in CoreLocked
    BY <1>9, <1>t DEF DeinitRelease, goto, LockInv, CoreLocked, TypeOK
  <2>4. \A d \in Client : pc'[d] \in {"DeinitLock", "DeinitUnlock"} => exists'
    BY <1>9, <1>t DEF DeinitRelease, goto, LockInv, TypeOK
  <2> QED BY <1>9, <1>t, <2>1, <2>2, <2>3, <2>4 DEF DeinitRelease, LockInv
<1>10. ASSUME NEW c \in Client, Call(c) PROVE LockInv'
  BY <1>10, <1>move DEF Call, CallInit, CallGetHandle, CallFreeHandle, CallDeinit,
                        Counted, Locked, CoreLocked
<1>11. CASE UNCHANGED vars
  BY <1>11, <1>t DEF vars, LockInv, CountedClients
<1> QED BY <1>1, <1>2, <1>3, <1>4, <1>5, <1>6, <1>7, <1>8, <1>9, <1>10, <1>11 DEF Next, Step

\* The handle table is kept by every step, given that its users exclude each
\* other.
LEMMA TableStep == LockInv /\ TableInv /\ [Next]_vars => TableInv'
<1> SUFFICES ASSUME LockInv, TableInv, [Next]_vars PROVE TableInv'
  OBVIOUS
<1> USE NullIsNone
<1>t. TypeOK
  BY DEF LockInv
<1>x. \A c, d \in Client : pc[c] \in Locked /\ pc[d] \in Locked => c = d
  BY DEF LockInv
\* Steps that leave the tables alone.
<1>move. ASSUME NEW c \in Client, NEW l, goto(c, l), UNCHANGED tables, l # "ComponentInit",
                pc[c] \in {"FreeHandle", "ComponentDeInit"} <=> l \in {"FreeHandle", "ComponentDeInit"}
         PROVE  TableInv'
  <2>1. \A d \in Client : pc'[d] = "ComponentInit" => pc[d] = "ComponentInit"
    BY <1>move, <1>t DEF goto, TypeOK
  <2>2. \A d \in Client : pc'[d] \in {"FreeHandle", "ComponentDeInit"}
                            <=> pc[d] \in {"FreeHandle", "ComponentDeInit"}
    BY <1>move, <1>t DEF goto, TypeOK
  <2>3. \A d \in Client : Owned(d)' = Owned(d)
    BY <1>move DEF Owned, tables
  <2> QED BY <1>move, <2>1, <2>2, <2>3 DEF tables, TableInv
<1>1. ASSUME NEW c \in Client, OMX_Init(c) PROVE TableInv'
  BY <1>1, <1>move DEF OMX_Init
<1>2. ASSUME NEW c \in Client, NEW from, NEW to, Lock(c, from, to),
             <<from, to>> \in {<<"GetHandle", "Load">>, <<"FreeHandle", "ComponentDeInit">>,
                              <<"DeinitLock", "DeinitUnlock">>}
      PROVE  TableInv'
  BY <1>2, <1>move DEF Lock
<1>3. ASSUME NEW c \in Client, GetHandleLoad(c) PROVE TableInv'
  <2>1. CASE goto(c, "Unlock") /\ UNCHANGED <<pModules, i>>
    BY <1>3, <2>1, <1>move, SMTT(30) DEF GetHandleLoad, tables
  <2>2. ASSUME NEW s \in Slot, FirstFree(s), pModules' = pModules \cup {s},
               i' = [i EXCEPT ![c] = s], goto(c, "ComponentInit")
        PROVE  TableInv'
    <3>1. pComponents[s] = NULL
      BY <2>2 DEF FirstFree, Free, TableInv
    <3>2. UNCHANGED <<pComponents, arg, handles>>
      BY <1>3 DEF GetHandleLoad
    <3>3. \A d \in Client : Owned(d)' = Owned(d)
      BY <3>2 DEF Owned
    <3>4. \A d \in Client : pc'[d] = "ComponentInit" =>
            i'[d] \in pModules' /\ pComponents'[i'[d]] = NULL
      BY <2>2, <3>1, <3>2, <1>t, SMTT(30) DEF goto, TypeOK, TableInv
    <3>5. \A d \in Client : pc'[d] \in {"FreeHandle", "ComponentDeInit"} <=> arg'[d] # NULL
      BY <1>3, <2>2, <3>2, <1>t DEF GetHandleLoad, goto, TypeOK, TableInv
    <3> QED BY <2>2, <3>2, <3>3, <3>4, <3>5 DEF TableInv
  <2> QED BY <1>3, <2>1, <2>2 DEF GetHandleLoad
<1>4. ASSUME NEW c \in Client, ComponentInit(c) PROVE TableInv'
  <2>a. pc[c] = "ComponentInit" /\ goto(c, "Unlock") /\ UNCHANGED <<pModules, arg>>
    BY <1>4 DEF ComponentInit
  <2>b. i[c] \in Slot /\ i[c] \in pModules /\ pComponents[i[c]] = NULL
    BY <2>a, <1>t DEF TableInv, TypeOK
  <2>c. \A d \in Client : d # c => pc[d] # "ComponentInit"
    BY <2>a, <1>x DEF Locked
  <2>d. \A d \in Client : pc'[d] # "ComponentInit"
    BY <2>a, <2>c, <1>t DEF goto, TypeOK
  <2>e. \A d \in Client : pc'[d] \in {"FreeHandle", "ComponentDeInit"} <=> arg'[d] # NULL
    BY <2>a, <1>t, SMTT(30) DEF goto, TypeOK, TableInv
  <2>1. CASE UNCHANGED <<pComponents, handles>>
    <3>1. \A d \in Client : Owned(d)' = Owned(d)
      BY <2>1, <2>a, SMTT(30) DEF Owned
    <3> QED BY <2>1, <3>1, <2>a, <2>d, <2>e, SMTT(30) DEF TableInv
  <2>2. ASSUME NEW h \in Handle, \A t \in Slot : pComponents[t] # h,
               pComponents' = [pComponents EXCEPT ![i[c]] = h],
               handles' = [handles EXCEPT ![c] = @ \cup {h}] \/ UNCHANGED handles
        PROVE  TableInv'
    <3> DEFINE s == i[c]
    <3>1. /\ pComponents'[s] = h
          /\ \A t \in Slot : t # s => pComponents'[t] = pComponents[t]
      BY <2>2, <2>b, <1>t, SMTT(30) DEF TypeOK
    <3>2. \A d \in Client : h \notin Owned(d) /\ arg[d] # h
      BY <2>2 DEF TableInv, Owned
    <3>3. \A d \in Client : Owned(d)' \subseteq Owned(d) \cup {h}
      BY <2>2, <2>a, <1>t DEF Owned, TypeOK
    <3>4. \A d \in Client : d # c => Owned(d)' = Owned(d)
      BY <2>2, <2>a, <1>t DEF Owned, TypeOK
    <3>5. \A u, v \in Slot : pComponents'[u] # NULL /\ pComponents'[u] = pComponents'[v] => u = v
      <4> SUFFICES ASSUME NEW u \in Slot, NEW v \in Slot, pComponents'[u] # NULL,
                          pComponents'[u] = pComponents'[v], u # v
                   PROVE FALSE
        OBVIOUS
      <4>1. CASE u = s
        BY <4>1, <3>1, <2>2, <2>b
      <4>2. CASE v = s
        BY <4>2, <3>1, <2>2, <2>b, SMTT(30)
      <4>3. CASE u # s /\ v # s
        BY <4>3, <3>1, SMTT(30) DEF TableInv
      <4> QED BY <4>1, <4>2, <4>3
    <3>6. \A u \in Slot : pComponents'[u] # NULL => u \in pModules'
      BY <3>1, <2>a, <2>b, SMTT(30) DEF TableInv
    <3>7. \A d \in Client : arg'[d] \notin handles'[d]
      BY <2>2, <2>a, <3>2, <1>t DEF TableInv, TypeOK
    <3>8. \A d \in Client : \A g \in Owned(d)' : \E u \in Slot : pComponents'[u] = g
      <4> SUFFICES ASSUME NEW d \in Client, NEW g \in Owned(d)'
                   PROVE \E u \in Slot : pComponents'[u] = g
        OBVIOUS
      <4>1. CASE g = h
        BY <4>1, <3>1, <2>b
      <4>2. CASE g # h
        <5>1. g \in Owned(d)
          BY <4>2, <3>3
        <5>2. PICK u \in Slot : pComponents[u] = g
          BY <5>1 DEF TableInv
        <5>3. g # NULL
          BY <5>1, <1>t DEF Owned, TypeOK
        <5> QED BY <5>2, <5>3, <3>1, <2>b
      <4> QED BY <4>1, <4>2
    <3>9. \A d, e \in Client : d # e => Owned(d)' \cap Owned(e)' = {}
      BY <3>2, <3>3, <3>4, SMTT(30) DEF TableInv
    <3> QED BY <3>5, <3>6, <3>7, <3>8, <3>9, <2>d, <2>e, SMTT(30) DEF TableInv
  <2> QED BY <1>4, <2>1, <2>2 DEF ComponentInit
<1>5. ASSUME NEW c \in Client, ComponentDeInit(c) PROVE TableInv'
  <2>a. pc[c] = "ComponentDeInit" /\ goto(c, "Unlock") /\ UNCHANGED <<i, handles>>
        /\ arg' = [arg EXCEPT ![c] = NULL]
    BY <1>5 DEF ComponentDeInit
  <2>b. arg[c] \in Handle /\ arg[c] \in Owned(c)
    BY <2>a, <1>t, SMTT(30) DEF TableInv, TypeOK, Owned
  <2>1. PICK s \in Slot : /\ pComponents[s] = arg[c]
                          /\ pModules' = pModules \ {s}
                          /\ pComponents' = [pComponents EXCEPT ![s] = NULL]
    BY <1>5, <2>b DEF ComponentDeInit, TableInv
  <2>2. /\ pComponents'[s] = NULL
        /\ \A t \in Slot : t # s => pComponents'[t] = pComponents[t]
    BY <2>1, <1>t DEF TypeOK
  <2>3. \A d \in Client : d # c => Owned(d)' = Owned(d)
    BY <2>a, <1>t, SMTT(30) DEF Owned, TypeOK
  <2>4. Owned(c)' = Owned(c) \ {arg[c]}
    BY <2>a, <1>t DEF Owned, TypeOK, TableInv
  <2>5. \A d \in Client : pc'[d] # "ComponentInit"
    BY <2>a, <1>x, <1>t, SMTT(30) DEF goto, TypeOK, Locked
  <2>6. \A d \in Client : pc'[d] \in {"FreeHandle", "ComponentDeInit"} <=> arg'[d] # NULL
    BY <2>a, <1>t, SMTT(30) DEF goto, TypeOK, TableInv
  <2>7. \A u, v \in Slot : pComponents'[u] # NULL /\ pComponents'[u] = pComponents'[v] => u = v
    BY <2>2 DEF TableInv
  <2>8. \A u \in Slot : pComponents'[u] # NULL => u \in pModules'
    BY <2>1, <2>2, SMTT(30) DEF TableInv
  <2>9. \A d \in Client : arg'[d] \notin handles'[d]
    BY <2>a, <1>t, SMTT(30) DEF TableInv, TypeOK
  <2>10. \A d \in Client : \A g \in Owned(d)' : \E u \in Slot : pComponents'[u] = g
    <3> SUFFICES ASSUME NEW d \in Client, NEW g \in Owned(d)'
                 PROVE \E u \in Slot : pComponents'[u] = g
      BY SMTT(30)
    <3>1. g \in Owned(d) /\ g # arg[c]
      BY <2>3, <2>4, <2>b, SMTT(30) DEF TableInv
    <3>2. PICK u \in Slot : pComponents[u] = g
      BY <3>1, SMTT(30) DEF TableInv
    <3> QED BY <3>1, <3>2, <2>1, <2>2
  <2>11. \A d, e \in Client : d # e => Owned(d)' \cap Owned(e)' = {}
    BY <2>3, <2>4 DEF TableInv
  <2> QED BY <2>5, <2>6, <2>7, <2>8, <2>9, <2>10, <2>11, SMTT(30) DEF TableInv
<1>6. ASSUME NEW c \in Client, Unlock(c) PROVE TableInv'
  BY <1>6, <1>move DEF Unlock
<1>7. ASSUME NEW c \in Client, DeinitObtain(c) PROVE TableInv'
  BY <1>7, <1>move DEF DeinitObtain
<1>8. ASSUME NEW c \in Client, DeinitUnlock(c) PROVE TableInv'
  BY <1>8, <1>move DEF DeinitUnlock
<1>9. ASSUME NEW c \in Client, DeinitRelease(c) PROVE TableInv'
  BY <1>9, <1>move, SMTT(30) DEF DeinitRelease
<1>10. ASSUME NEW c \in Client, CallFreeHandle(c) PROVE TableInv'
  <2>1. PICK h \in handles[c] : /\ arg' = [arg EXCEPT ![c] = h]
                                /\ handles' = [handles EXCEPT ![c] = @ \ {h}]
    BY <1>10, Zenon DEF CallFreeHandle
  <2>2. pc[c] = "ready" /\ goto(c, "FreeHandle") /\ UNCHANGED <<pModules, pComponents, i>>
    BY <1>10 DEF CallFreeHandle
  <2>3. h \in Handle /\ arg[c] = NULL
    BY <2>1, <2>2, <1>t DEF TypeOK, TableInv
  <2>4. \A d \in Client : Owned(d)' = Owned(d)
    BY <2>1, <2>3, <1>t DEF Owned, TypeOK
  <2>5. \A d \in Client : pc'[d] = "ComponentInit" => pc[d] = "ComponentInit"
    BY <2>2, <1>t DEF goto, TypeOK
  <2>6. \A d \in Client : pc'[d] \in {"FreeHandle", "ComponentDeInit"} <=> arg'[d] # NULL
    BY <2>1, <2>2, <2>3, <1>t DEF goto, TypeOK, TableInv
  <2>7. \A d \in Client : arg'[d] \notin handles'[d]
    BY <2>1, <1>t DEF TypeOK, TableInv
  <2> QED BY <2>2, <2>4, <2>5, <2>6, <2>7 DEF TableInv
<1>11. ASSUME NEW c \in Client, Call(c) PROVE TableInv'
  BY <1>11, <1>10, <1>move, SMTT(30) DEF Call, CallInit, CallGetHandle, CallDeinit
<1>12. CASE UNCHANGED vars
  BY <1>12 DEF vars, TableInv, Owned
<1> QED BY <1>1, <1>2, <1>3, <1>4, <1>5, <1>6, <1>7, <1>8, <1>9, <1>11, <1>12 DEF Next, Step

\* The inductive invariant holds in every reachable state.
THEOREM CoreInvariant == Spec => []IInv
<1>1. Init => LockInv /\ TableInv
  <2> SUFFICES ASSUME Init PROVE LockInv /\ TableInv
    OBVIOUS
  <2>1. TypeOK
    <3>1. exists \in BOOLEAN
      BY Zenon DEF Init
    <3>2. pModules \subseteq Slot /\ handles \in [Client -> SUBSET Handle]
      BY DEF Init
    <3>3. /\ pc \in [Client -> Pc] /\ count \in Int
          /\ coreMutex \in Client \cup {NULL} /\ mutex \in Client \cup {NULL}
      BY DEF Init, Pc
    <3>4. /\ pComponents \in [Slot -> Handle \cup {NULL}]
          /\ i \in [Client -> Slot \cup {NULL}] /\ arg \in [Client -> Handle \cup {NULL}]
      BY DEF Init
    <3> QED BY <3>1, <3>2, <3>3, <3>4 DEF TypeOK
  <2>2. CountedClients = {}
    BY DEF Init, CountedClients, Counted
  <2>3. LockInv
    <3>1. count = Cardinality(CountedClients) /\ ~(count > 0)
      BY <2>2, FS_EmptySet DEF Init
    <3>2. \A c \in Client : pc[c] \notin Locked /\ pc[c] \notin CoreLocked
                            /\ pc[c] \notin {"DeinitLock", "DeinitUnlock"}
      BY DEF Init, Locked, CoreLocked
    <3>3. \A c \in Client : mutex # c /\ coreMutex # c
      BY NullIsNone DEF Init
    <3> QED BY <2>1, <3>1, <3>2, <3>3 DEF LockInv
  <2>4. TableInv
    BY DEF Init, TableInv, Owned
  <2> QED BY <2>3, <2>4
<1>2. LockInv /\ TableInv /\ [Next]_vars => (LockInv /\ TableInv)'
  BY LockStep, TableStep
<1> QED BY <1>1, <1>2, PTL DEF Spec, IInv

\* No thread ever uses a destroyed mutex: OMX_Deinit() destroys it only when no
\* other client is between its OMX_Init() and its OMX_Deinit().
THEOREM CoreMutexAlive == Spec => []MutexAlive
<1>1. LockInv => MutexAlive
  <2> SUFFICES ASSUME LockInv, NEW c \in Client, pc[c] \in Uses PROVE exists
    BY DEF MutexAlive
  <2>1. CASE pc[c] \in Counted
    <3>1. c \in CountedClients
      BY <2>1 DEF CountedClients
    <3>2. IsFiniteSet(CountedClients)
      BY ClientFinite, FS_Subset DEF CountedClients
    <3>3. Cardinality(CountedClients) \in Nat /\ Cardinality(CountedClients) # 0
      BY <3>1, <3>2, FS_CardinalityType, FS_EmptySet
    <3> QED BY <3>3 DEF LockInv
  <2>2. CASE pc[c] \in {"DeinitLock", "DeinitUnlock"}
    BY <2>2 DEF LockInv
  <2> QED BY <2>1, <2>2 DEF Uses, Locked, Counted
<1> QED BY <1>1, CoreInvariant, PTL DEF IInv

\* The tables never have two users, for any number of threads.
THEOREM CoreExclusive == Spec => []Exclusive
<1>1. LockInv => Exclusive
  BY NullIsNone DEF LockInv, Exclusive
<1> QED BY <1>1, CoreInvariant, PTL DEF IInv

\* Every handle a client holds stays in the table, in one slot and with its
\* library, until that client frees it.
THEOREM CoreHandles == Spec => []HandlesInTable
<1>1. LockInv /\ TableInv => HandlesInTable
  <2> SUFFICES ASSUME LockInv, TableInv, NEW c \in Client, NEW h \in handles[c]
               PROVE /\ \E s \in Slot : s \in pModules /\ pComponents[s] = h
                     /\ \A s, t \in Slot : pComponents[s] = h /\ pComponents[t] = h => s = t
                     /\ \A d \in Client \ {c} : h \notin handles[d] /\ arg[d] # h
    BY DEF HandlesInTable
  <2>1. h \in Owned(c) /\ h # NULL
    BY NullIsNone, SMTT(30) DEF Owned, LockInv, TypeOK
  <2>2. PICK s \in Slot : pComponents[s] = h
    BY <2>1 DEF TableInv
  <2>3. s \in pModules
    BY <2>1, <2>2 DEF TableInv
  <2>4. \A u, v \in Slot : pComponents[u] = h /\ pComponents[v] = h => u = v
    BY <2>1 DEF TableInv
  <2>5. \A d \in Client \ {c} : h \notin handles[d] /\ arg[d] # h
    BY <2>1 DEF TableInv, Owned
  <2> QED BY <2>2, <2>3, <2>4, <2>5
<1> QED BY <1>1, CoreInvariant, PTL DEF IInv
=============================================================================
