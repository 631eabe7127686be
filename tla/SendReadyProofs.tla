-------------------------- MODULE SendReadyProofs ---------------------------
(***************************************************************************)
(* Proof that no message leaves before the partitions it carries are ready *)
(* (NothingEarly), for the geometries the partition map is exact on and    *)
(* where the catch-up can neither find a flag nobody set nor count a       *)
(* partition its own thread counts as well (SafeCatchUp); and from it that *)
(* the send side implements Partitioned (SendRefines).                     *)
(***************************************************************************)
EXTENDS SendCountingProofs

\* What keeps the catch-up from counting a partition that is not ready, or
\* one that its own thread counts as well.
SafeCatchUp == Negotiated => HeapGarbage = {} /\ LocalParts <= Parts

-----------------------------------------------------------------------------
(* The invariant.                                                          *)

\* Whatever is counted, or may be, is ready.
OnlyReady ==
    /\ sync \notin {"none", "done"} => local_status \subseteq ready
    /\ \A t \in Threads : pc[t] # "idle" => part[t] \in ready
    /\ \A i \in Net : internal_status[i] >= T => CarriedBy(i) \subseteq ready

\* Without a background thread no partition is counted twice.
NoneTwice == ~Negotiated =>
    /\ \A i \in Net : /\ added[i] \subseteq ready
                      /\ internal_status[i] = Cardinality(added[i])
    /\ \A t \in Threads : \A i \in Net :
          WillCount(t, i) => part[t] \notin added[i]
    /\ \A t, u \in Threads :
          (pc[t] # "idle" /\ pc[u] # "idle" /\ part[t] = part[u]) => t = u
    /\ \A w \in Workers : todo[w] \intersect ready = {}
    /\ \A w, v \in Workers : w # v => todo[w] \intersect todo[v] = {}

RInv == OnlyReady /\ NoneTwice

-----------------------------------------------------------------------------
(* The steps, one lemma per action.                                        *)

\* Every counter is zero before and after the init call.
LEMMA Ready_InitDirect ==
    ASSUME IInv, CInv, RInv, InitDirect, UNCHANGED sendvars
    PROVE  RInv'
<1> USE DEF IInv, CInv, RInv, InitDirect, prep, internal_setup, sendvars
<1>1. NoneTwice'
  BY DEF NoneTwice, WillCount, ThreadsInv, Lifecycle, TypeOK, ReqTypeOK
<1>2. OnlyReady'
  BY Geometry DEF OnlyReady, ThreadsInv, Lifecycle, TypeOK, ReqTypeOK, T
<1> QED
  BY <1>1, <1>2

\* The flags start out cleared.
LEMMA Ready_InitSpawn ==
    ASSUME IInv, CInv, RInv, Negotiated => HeapGarbage = {}, InitSpawn,
           UNCHANGED sendvars
    PROVE  RInv'
<1> USE DEF IInv, CInv, RInv, InitSpawn, prep, sendvars
<1>1. NoneTwice'
  BY DEF NoneTwice, WillCount
<1>2. OnlyReady'
  BY DEF OnlyReady, CarriedBy
<1> QED
  BY <1>1, <1>2

\* RUNNING is stored.
LEMMA Ready_InitStore ==
    ASSUME IInv, CInv, RInv, InitStore, UNCHANGED sendvars
    PROVE  RInv'
<1> USE DEF IInv, CInv, RInv, InitStore, sendvars
<1>1. NoneTwice'
  BY DEF NoneTwice, WillCount
<1>2. OnlyReady'
  BY DEF OnlyReady, CarriedBy
<1> QED
  BY <1>1, <1>2

\* The numbers of the driving side arrive.
LEMMA Ready_SyncSide ==
    ASSUME IInv, CInv, RInv, SyncSide, UNCHANGED sendvars
    PROVE  RInv'
<1> USE DEF IInv, CInv, RInv, SyncSide, sendvars, Learn
<1>1. NoneTwice'
  BY DEF NoneTwice, WillCount
<1>2. OnlyReady'
  BY DEF OnlyReady, CarriedBy
<1> QED
  BY <1>1, <1>2

\* internal_setup clears counters that are zero already.
LEMMA Ready_SyncSetup ==
    ASSUME IInv, CInv, RInv, SyncSetup, UNCHANGED sendvars
    PROVE  RInv'
<1> USE DEF IInv, CInv, RInv, SyncSetup, internal_setup, sendvars
<1>1. NoneTwice'
  BY DEF NoneTwice, WillCount, ThreadsInv, Lifecycle, TypeOK, ReqTypeOK
<1>2. OnlyReady'
  BY Geometry DEF OnlyReady, ThreadsInv, Lifecycle, TypeOK, ReqTypeOK, T
<1> QED
  BY <1>1, <1>2

\* The thread ends without a catch-up.
LEMMA Ready_SyncNothing ==
    ASSUME IInv, CInv, RInv, SyncNothing, UNCHANGED sendvars
    PROVE  RInv'
<1> USE DEF IInv, CInv, RInv, SyncNothing, MayLock, sendvars
<1>1. NoneTwice'
  BY DEF NoneTwice, WillCount
<1>2. OnlyReady'
  BY DEF OnlyReady, CarriedBy
<1> QED
  BY <1>1, <1>2

\* MPIP_Wait reads threaded.
LEMMA Ready_WaitRead ==
    ASSUME IInv, CInv, RInv, WaitRead, UNCHANGED sendvars
    PROVE  RInv'
<1> USE DEF IInv, CInv, RInv, WaitRead, sendvars, EnterWait
<1>1. NoneTwice'
  BY DEF NoneTwice, WillCount
<1>2. OnlyReady'
  BY DEF OnlyReady, CarriedBy
<1> QED
  BY <1>1, <1>2

\* pthread_join returns.
LEMMA Ready_WaitJoin ==
    ASSUME IInv, CInv, RInv, WaitJoin, UNCHANGED sendvars
    PROVE  RInv'
<1> USE DEF IInv, CInv, RInv, WaitJoin, sendvars
<1>1. NoneTwice'
  BY DEF NoneTwice, WillCount
<1>2. OnlyReady'
  BY DEF OnlyReady, CarriedBy
<1> QED
  BY <1>1, <1>2

\* MPIP_Wait completes the activation.
LEMMA Ready_WaitReturn ==
    ASSUME IInv, CInv, RInv, WaitReturn, UNCHANGED sendvars
    PROVE  RInv'
<1> USE DEF IInv, CInv, RInv, WaitReturn, sendvars, Deactivate
<1>1. NoneTwice'
  BY DEF NoneTwice, WillCount
<1>2. OnlyReady'
  BY DEF OnlyReady, CarriedBy
<1> QED
  BY <1>1, <1>2

\* A successful MPIP_Test, likewise.
LEMMA Ready_MPIP_Test ==
    ASSUME IInv, CInv, RInv, MPIP_Test, UNCHANGED sendvars
    PROVE  RInv'
<1> USE DEF IInv, CInv, RInv, MPIP_Test, sendvars, Deactivate
<1>1. NoneTwice'
  BY DEF NoneTwice, WillCount
<1>2. OnlyReady'
  BY DEF OnlyReady, CarriedBy
<1> QED
  BY <1>1, <1>2

\* The request is freed.
LEMMA Ready_MPIP_Request_free ==
    ASSUME IInv, CInv, RInv, MPIP_Request_free, UNCHANGED sendvars
    PROVE  RInv'
<1> USE DEF IInv, CInv, RInv, MPIP_Request_free, sendvars
<1>1. NoneTwice'
  BY DEF NoneTwice, WillCount
<1>2. OnlyReady'
  BY DEF OnlyReady, CarriedBy
<1> QED
  BY <1>1, <1>2

\* MPI completes a message.
LEMMA Ready_MPI_Complete ==
    ASSUME IInv, CInv, RInv, NEW i \in Net, MPI_Complete(i)
    PROVE  RInv'
<1> USE DEF IInv, CInv, RInv, MPI_Complete, sendvars
<1>1. NoneTwice'
  BY DEF NoneTwice, WillCount
<1>2. OnlyReady'
  BY DEF OnlyReady, CarriedBy
<1> QED
  BY <1>1, <1>2

\* The catch-up begins.
LEMMA Ready_SyncCatchUp ==
    ASSUME IInv, CInv, RInv, SyncCatchUp
    PROVE  RInv'
<1> USE DEF IInv, CInv, RInv, SyncCatchUp, MayLock
<1>1. NoneTwice'
  BY DEF NoneTwice, WillCount
<1>2. OnlyReady'
  BY DEF OnlyReady, CarriedBy
<1> QED
  BY <1>1, <1>2

\* The catch-up ends.
LEMMA Ready_SyncFinish ==
    ASSUME IInv, CInv, RInv, SyncFinish
    PROVE  RInv'
<1> USE DEF IInv, CInv, RInv, SyncFinish, sendvars
<1>1. NoneTwice'
  BY DEF NoneTwice, WillCount
<1>2. OnlyReady'
  BY DEF OnlyReady, CarriedBy
<1> QED
  BY <1>1, <1>2

\* A new activation: nothing ready, nothing counted.
LEMMA Ready_MPIP_Start ==
    ASSUME IInv, CInv, RInv, MPIP_Start
    PROVE  RInv'
<1> USE DEF IInv, CInv, RInv, MPIP_Start, StartLocked, reset_status, LockFree
<1>s. \A t \in Threads : pc[t] = "idle"
  BY DEF WorkersIdle, ThreadsInv, Threads
<1>z. /\ \A i \in Net : internal_status'[i] = 0
      /\ Cardinality({}) = 0
  BY ParamAssumption, FS_EmptySet
     DEF Lifecycle, Arrays, SetUp, ThreadsInv, TypeOK, ReqTypeOK, Net
<1>1. NoneTwice'
  BY <1>s, <1>z DEF NoneTwice, WillCount, WorkersIdle
<1>2. OnlyReady'
  BY <1>s, <1>z, Geometry, ParamAssumption
     DEF OnlyReady, Flags, Lifecycle, TypeOK, ReqTypeOK, T
<1> QED
  BY <1>1, <1>2

\* A call names partitions no other call of the activation has named.
LEMMA Ready_MPIP_Pready_list ==
    ASSUME IInv, CInv, RInv, NEW w \in Workers, NEW S \in SUBSET User,
           MPIP_Pready_list(w, S)
    PROVE  RInv'
<1> USE DEF IInv, CInv, RInv, MPIP_Pready_list, reqvars
<1>1. NoneTwice'
  BY DEF NoneTwice, WillCount, Unmarked, TypeOK
<1>2. OnlyReady'
  BY DEF OnlyReady, CarriedBy
<1> QED
  BY <1>1, <1>2

\* A flag that reads true belongs to a ready partition.
LEMMA Ready_SyncScan ==
    ASSUME IInv, CInv, RInv, SyncScan
    PROVE  RInv'
<1> USE DEF IInv, CInv, RInv, SyncScan, Scan, reqvars
<1>s. /\ parts = Parts /\ scan \in User /\ Sync \in Threads
      /\ sync = "catchup" /\ pc[Sync] = "idle"
  BY ParamAssumption DEF Lifecycle, Arrays, SetUp, TypeOK, User, Threads
<1>e. /\ OthersStay(Sync)
      /\ scan \in local_status => part'[Sync] = scan
      /\ scan \notin local_status => pc'[Sync] = "idle"
  BY <1>s, EnterFacts DEF OthersStay
<1>1. NoneTwice'
  BY DEF NoneTwice, Lifecycle, ThreadsInv
<1>2. OnlyReady'
  BY <1>s, <1>e DEF OnlyReady, OthersStay
<1> QED
  BY <1>1, <1>2

\* The partition was not ready before, so nobody has counted it.
LEMMA Ready_PreadyMark ==
    ASSUME IInv, CInv, RInv, NEW w \in Workers, PreadyMark(w)
    PROVE  RInv'
<1> USE DEF IInv, CInv, RInv
<1>p. PICK p0 \in todo[w] : /\ local_status' = local_status \union {p0}
                           /\ ready' = ready \union {p0}
                           /\ part' = [part EXCEPT ![w] = p0]
                           /\ todo' = [todo EXCEPT ![w] = @ \ {p0}]
                           /\ UNCHANGED <<added, internal_status>>
  BY DEF PreadyMark
<1>e. /\ w \in Threads /\ pc[w] = "idle"
      /\ pc'[w] = "marked" /\ part'[w] = p0
      /\ OthersStay(w)
  BY <1>p DEF PreadyMark, TypeOK, Threads, OthersStay
<1>1. NoneTwice'
  <2> SUFFICES ASSUME ~Negotiated PROVE NoneTwice'
    BY DEF NoneTwice
  <2>1. p0 \notin ready /\ \A i \in Net : p0 \notin added[i]
    BY <1>p DEF NoneTwice
  <2>2. \A t \in Threads \ {w} : pc[t] # "idle" => part[t] # p0
    BY <2>1 DEF OnlyReady
  <2>3. \A v \in Workers : todo'[v] \intersect ready' = {}
    BY <1>p DEF NoneTwice, PreadyMark, TypeOK
  <2>4. \A v, u \in Workers : v # u => todo'[v] \intersect todo'[u] = {}
    BY <1>p DEF NoneTwice, PreadyMark, TypeOK
  <2>5. \A i \in Net : /\ added'[i] \subseteq ready'
                       /\ internal_status'[i] = Cardinality(added'[i])
    BY <1>p DEF NoneTwice, PreadyMark
  <2>6. \A t \in Threads : \A i \in Net : WillCount(t, i)' => part'[t] \notin added'[i]
    BY <1>e, <1>p, <2>1 DEF NoneTwice, WillCount, OthersStay
  <2>7. \A t, u \in Threads :
           (pc'[t] # "idle" /\ pc'[u] # "idle" /\ part'[t] = part'[u]) => t = u
    BY <1>e, <2>2 DEF NoneTwice, OthersStay
  <2> QED
    BY <2>3, <2>4, <2>5, <2>6, <2>7 DEF NoneTwice
<1>2. OnlyReady'
  BY <1>e, <1>p DEF OnlyReady, OthersStay, PreadyMark
<1> QED
  BY <1>1, <1>2

\* The thread goes on to count its partition, or leaves it.
LEMMA Ready_PreadyRead ==
    ASSUME IInv, CInv, RInv, NEW w \in Workers, PreadyRead(w)
    PROVE  RInv'
<1> USE DEF IInv, CInv, RInv, PreadyRead, ReadThreaded, reqvars, LockFree
<1>s. /\ w \in Threads /\ part[w] \in User
      /\ threaded # "RUNNING" => parts = Parts
  BY DEF Lifecycle, Arrays, SetUp, ThreadsInv, WorkersIdle, TypeOK, ReqTypeOK,
     Threads
<1>e. /\ OthersStay(w) /\ part'[w] = part[w]
      /\ pc'[w] \in {"add", "idle"}
  BY <1>s, EnterFacts DEF OthersStay, TypeOK
<1>1. NoneTwice'
  BY <1>s, <1>e DEF NoneTwice, WillCount, OthersStay
<1>2. OnlyReady'
  BY <1>s, <1>e DEF OnlyReady, OthersStay
<1> QED
  BY <1>1, <1>2

\* The message is started; the loop goes on.
LEMMA Ready_GeneralSendStart ==
    ASSUME IInv, CInv, RInv, NEW t \in Threads, GeneralSendStart(t)
    PROVE  RInv'
<1> USE DEF IInv, CInv, RInv, GeneralSendStart
<1>e. /\ pc'[t] \in {"add", "idle"} /\ part'[t] = part[t]
      /\ pc'[t] = "add" => next'[t] = next[t] + 1
      /\ OthersStay(t)
  BY LoopStep
<1>1. NoneTwice'
  <2>1. \A u \in Threads : \A i \in Net :
           WillCount(u, i)' => WillCount(u, i) /\ part'[u] = part[u]
    <3>1. ASSUME NEW i \in Net, WillCount(t, i)' PROVE WillCount(t, i)
      <4>1. pc[t] = "start" /\ next[t] \in Int /\ i \in Int
        BY DEF TypeOK, Net
      <4> QED
        BY <1>e, <3>1, <4>1 DEF WillCount
    <3>2. ASSUME NEW u \in Threads \ {t}, NEW i \in Net, WillCount(u, i)'
          PROVE  WillCount(u, i)
      BY <1>e, <3>2 DEF WillCount, OthersStay
    <3> QED
      BY <1>e, <3>1, <3>2 DEF OthersStay
  <2>2. \A u \in Threads : pc'[u] # "idle" => pc[u] # "idle"
    BY <1>e DEF OthersStay
  <2> QED
    BY <2>1, <2>2 DEF NoneTwice
<1>2. OnlyReady'
  BY <1>e DEF OnlyReady, OthersStay
<1> QED
  BY <1>1, <1>2

\* A counter at its threshold has counted every partition of the message.
LEMMA Ready_GeneralSendAdd ==
    ASSUME IInv, CInv, RInv, ExactGeometry, Negotiated => LocalParts <= Parts,
           NEW t \in Threads, GeneralSendAdd(t)
    PROVE  RInv'
<1> USE DEF IInv, CInv, RInv, GeneralSendAdd, Count, CounterOf
<1> DEFINE j == next[t]
<1>c. CInv'
  BY Count_GeneralSendAdd
<1>j. /\ j \in Net /\ part[t] \in User /\ part[t] \in CarriedBy(j)
      /\ parts = Parts /\ pc[t] = "add" /\ part' = part
      /\ \A i \in Net :
            /\ added'[i] = IF i = j THEN added[i] \union {part[t]} ELSE added[i]
            /\ internal_status'[i] = IF i = j THEN internal_status[i] + 1
                                             ELSE internal_status[i]
  BY MapFacts, Counter DEF TypeOK, ReqTypeOK, OnItsMessages
<1>e. /\ OthersStay(t)
      /\ \/ pc'[t] = "start" /\ next'[t] = j
         \/ pc'[t] = "add" /\ next'[t] = j + 1
         \/ pc'[t] = "idle"
  <2>1. CASE internal_status[j] + 1 = Threshold(LocalParts, parts)
    BY <1>j, <2>1 DEF OthersStay, TypeOK
  <2>2. CASE internal_status[j] + 1 # Threshold(LocalParts, parts)
    BY <1>j, <2>2, LoopStep
  <2> QED
    BY <2>1, <2>2
<1>1. NoneTwice'
  <2> SUFFICES ASSUME ~Negotiated PROVE NoneTwice'
    BY DEF NoneTwice
  <2>1. part[t] \notin added[j]
    <3>1. WillCount(t, j)
      BY <1>j DEF WillCount, Net
    <3> QED
      BY <1>j, <3>1 DEF NoneTwice
  <2>2. ASSUME NEW i \in Net
        PROVE  /\ added'[i] \subseteq ready'
               /\ internal_status'[i] = Cardinality(added'[i])
    <3>1. IsFiniteSet(added[i])
      BY MapFacts, FS_Subset DEF Counted
    <3>2. CASE i = j
      <4>1. Cardinality(added[i] \union {part[t]}) = Cardinality(added[i]) + 1
        BY <2>1, <3>1, <3>2, FS_AddElement
      <4> QED
        BY <1>j, <3>2, <4>1 DEF NoneTwice, OnlyReady
    <3>3. CASE i # j
      BY <1>j, <3>3 DEF NoneTwice
    <3> QED
      BY <3>2, <3>3
  <2>3. ASSUME NEW u \in Threads, NEW i \in Net, WillCount(u, i)'
        PROVE  part'[u] \notin added'[i]
    <3>1. CASE u = t
      <4>1. i # j /\ WillCount(t, i)
        BY <2>3, <3>1, <1>j, <1>e DEF WillCount, Net
      <4> QED
        BY <3>1, <4>1, <1>j DEF NoneTwice
    <3>2. CASE u # t
      <4>1. WillCount(u, i) /\ pc[u] # "idle" /\ part'[u] = part[u]
        BY <2>3, <3>2, <1>e DEF WillCount, OthersStay
      <4>2. part[u] # part[t] /\ part[u] \notin added[i]
        BY <3>2, <4>1, <1>j DEF NoneTwice
      <4> QED
        BY <4>1, <4>2, <1>j
    <3> QED
      BY <3>1, <3>2
  <2>4. \A u, v \in Threads :
           (pc'[u] # "idle" /\ pc'[v] # "idle" /\ part'[u] = part'[v]) => u = v
    BY <1>j, <1>e DEF NoneTwice, OthersStay
  <2> QED
    BY <2>2, <2>3, <2>4 DEF NoneTwice
<1>2. OnlyReady'
  <2>1. ASSUME NEW i \in Net, internal_status'[i] >= T
        PROVE  CarriedBy(i) \subseteq ready
    <3>1. CASE i # j
      BY <2>1, <3>1, <1>j DEF OnlyReady
    <3>2. CASE i = j /\ LocalParts <= Parts
      <4>1. T = 1
        BY <3>2 DEF T, Threshold
      <4>2. PICK x : CarriedBy(i) = {x}
        BY <4>1, MapFacts, FS_Singleton
      <4> QED
        BY <3>2, <4>2, <1>j DEF OnlyReady
    <3>3. CASE i = j /\ ~Negotiated
      <4>1. /\ added'[i] \subseteq CarriedBy(i)
            /\ added'[i] \subseteq ready
            /\ Cardinality(added'[i]) >= T
        BY <2>1, <3>3, <1>1, <1>c DEF Counted, NoneTwice
      <4>2. /\ IsFiniteSet(CarriedBy(i)) /\ Cardinality(CarriedBy(i)) = T
            /\ T \in Nat
        BY MapFacts
      <4>3. /\ IsFiniteSet(added'[i])
            /\ Cardinality(added'[i]) <= Cardinality(CarriedBy(i))
            /\ Cardinality(CarriedBy(i)) = Cardinality(added'[i])
                  => CarriedBy(i) = added'[i]
        BY <4>1, <4>2, FS_Subset
      <4>4. Cardinality(added'[i]) \in Nat
        BY <4>3, FS_CardinalityType
      <4> QED
        BY <4>1, <4>2, <4>3, <4>4
    <3> QED
      BY <3>1, <3>2, <3>3
  <2>2. \A u \in Threads : pc'[u] # "idle" => part'[u] \in ready
    BY <1>j, <1>e DEF OnlyReady, OthersStay
  <2> QED
    BY <2>1, <2>2, <1>j DEF OnlyReady, CarriedBy
<1> QED
  BY <1>1, <1>2

-----------------------------------------------------------------------------
(* Nothing leaves early.                                                   *)

\* The readiness invariant holds initially.
LEMMA InitRInv == ASSUME ExactGeometry, Init PROVE RInv
<1> USE DEF Init, ReqInit
<1>1. Cardinality({}) = 0 /\ T \in Nat \ {0}
  BY FS_EmptySet, MapFacts
<1>2. OnlyReady
  BY <1>1 DEF OnlyReady, Threads
<1>3. NoneTwice
  BY <1>1 DEF NoneTwice, WillCount
<1> QED
  BY <1>2, <1>3 DEF RInv

\* ... and is preserved by every step.
LEMMA NextRInv ==
    ASSUME ExactGeometry, SafeCatchUp, IInv, CInv, RInv, [Next]_vars
    PROVE  RInv'
<1>1. CASE Psend_init
  BY <1>1, Ready_InitDirect, Ready_InitSpawn, Ready_InitStore
     DEF Psend_init, SafeCatchUp
<1>2. CASE SyncStep
  BY <1>2, Ready_SyncSide, Ready_SyncSetup, Ready_SyncNothing,
     Ready_SyncCatchUp, Ready_SyncScan, Ready_SyncFinish
     DEF SyncStep, Negotiate
<1>3. CASE MPIP_Start
  BY <1>3, Ready_MPIP_Start
<1>4. ASSUME NEW w \in Workers, NEW S \in SUBSET User, MPIP_Pready_list(w, S)
      PROVE  RInv'
  BY <1>4, Ready_MPIP_Pready_list
<1>5. ASSUME NEW w \in Workers, NEW low \in User, NEW high \in User,
             MPIP_Pready_range(w, low, high)
      PROVE  RInv'
  <2>1. low..high \in SUBSET User
    BY ParamAssumption DEF User
  <2> QED
    BY <1>5, <2>1, Ready_MPIP_Pready_list DEF MPIP_Pready_range
<1>6. ASSUME NEW w \in Workers, PreadyMark(w) \/ PreadyRead(w)
      PROVE  RInv'
  BY <1>6, Ready_PreadyMark, Ready_PreadyRead
<1>7. ASSUME NEW t \in Threads, GeneralSendAdd(t) \/ GeneralSendStart(t)
      PROVE  RInv'
  BY <1>7, Ready_GeneralSendAdd, Ready_GeneralSendStart DEF SafeCatchUp
<1>8. ASSUME NEW i \in Net, MPI_Complete(i)
      PROVE  RInv'
  BY <1>8, Ready_MPI_Complete
<1>9. CASE MPIP_Wait \/ Join \/ Waitall \/ Test
  BY <1>9, Ready_WaitRead, Ready_WaitJoin, Ready_WaitReturn, Ready_MPIP_Test
     DEF MPIP_Wait, Join, Waitall, Test
<1>10. CASE Request_free
  BY <1>10, Ready_MPIP_Request_free DEF Request_free
<1>11. CASE UNCHANGED vars
  BY <1>11 DEF vars, reqvars, sendvars, RInv, OnlyReady, NoneTwice, WillCount,
     CarriedBy
<1> QED
  BY <1>1, <1>2, <1>3, <1>4, <1>5, <1>6, <1>7, <1>8, <1>9, <1>10, <1>11
     DEF Next, Done

\* No message is started while a partition it carries is not ready: always
\* when the number of messages is fixed in the init call, and with the
\* background thread when the flags start out cleared and no message gathers
\* several partitions.
THEOREM NothingEarly ==
    ASSUME ExactGeometry, SafeCatchUp,
           "early" \notin Windows, "outrun" \notin Windows
    PROVE  Spec => []NoPrematureSend
<1>1. Init => CInv /\ RInv
  BY InitCInv, InitRInv
<1>2. IInv /\ CInv /\ RInv /\ [Next]_vars => CInv' /\ RInv'
  BY NextCInv, NextRInv
<1>3. IInv /\ RInv => NoPrematureSend
  <2> SUFFICES ASSUME IInv, RInv, NEW i \in Net, starts[i] > 0
               PROVE  CarriedBy(i) \subseteq ready
    BY DEF NoPrematureSend
  <2>1. internal_status[i] \in Nat /\ T \in Nat
    BY MapFacts DEF IInv, TypeOK, ReqTypeOK
  <2>2. ~(internal_status[i] < T)
    BY DEF IInv, Counting, T
  <2> QED
    BY <2>1, <2>2 DEF RInv, OnlyReady
<1> QED
  BY <1>1, <1>2, <1>3, Invariance, PTL DEF Spec

-----------------------------------------------------------------------------
(* The send side implements Partitioned.                                   *)

\* An activation that was completed has started every message.
AllStarted == (round > 0 /\ state = "INACTIVE") => \A i \in Net : starts[i] = 1

-----------------------------------------------------------------------------
(* The buffer.                                                             *)

\* All messages together are the buffer.
LEMMA WholeBuffer ==
    ASSUME ExactGeometry
    PROVE  Blocks(Net, Size) = 0..(LocalParts * LocalSize - 1)
BY ParamAssumption, AllBlocks DEF Net, ExactGeometry, Exact

\* A message whose partitions are all ready has only ready elements.
LEMMA CarriedIsReady ==
    ASSUME ExactGeometry, NEW R \in SUBSET User, NEW M \in SUBSET Net,
           \A i \in M : CarriedBy(i) \subseteq R
    PROVE  Blocks(M, Size) \subseteq Blocks(R, LocalSize)
BY ParamAssumption, MovedInReady DEF CarriedBy, Net, ExactGeometry

-----------------------------------------------------------------------------
(* What a step does to the variables of the mapping.                       *)

Starting == state = "INACTIVE" /\ state' = "ACTIVE" /\ ready' = {}
               /\ \A i \in Net : starts'[i] = 0
Marking == state = "ACTIVE" /\ ready \subseteq ready' /\ UNCHANGED <<state, starts>>
Sending == /\ state = "ACTIVE" /\ UNCHANGED <<state, ready>>
           /\ \A i \in Net : starts[i] > 0 => starts'[i] > 0
Completing == state = "ACTIVE" /\ state' = "INACTIVE" /\ round' > 0
                 /\ UNCHANGED <<ready, starts>>
Quiet == UNCHANGED <<state, ready, starts>>

\* Only MPIP_Start, a mark, an MPI_Start and a completion touch them, and the
\* last three happen only while the request is active.
LEMMA StepShape ==
    ASSUME IInv, CInv, [Next]_vars
    PROVE  Starting \/ Marking \/ Sending \/ Completing \/ Quiet
<1> USE DEF IInv, sendvars
<1>1. CASE Psend_init
  BY <1>1 DEF Psend_init, InitDirect, InitSpawn, InitStore, prep, Lifecycle,
     Quiet
<1>2. CASE SyncStep
  BY <1>2 DEF SyncStep, Negotiate, SyncSide, Learn, SyncSetup, SyncNothing,
     SyncCatchUp, SyncScan, Scan, SyncFinish, reqvars, Quiet
<1>3. CASE MPIP_Start
  BY <1>3 DEF MPIP_Start, StartLocked, Starting
<1>4. ASSUME NEW w \in Workers, NEW S, MPIP_Pready_list(w, S)
      PROVE  Quiet
  BY <1>4 DEF MPIP_Pready_list, reqvars, Quiet
<1>5. ASSUME NEW w \in Workers, NEW low, NEW high,
             MPIP_Pready_range(w, low, high)
      PROVE  Quiet
  BY <1>5 DEF MPIP_Pready_range, MPIP_Pready_list, reqvars, Quiet
<1>6. ASSUME NEW w \in Workers, PreadyMark(w)
      PROVE  Marking
  BY <1>6 DEF PreadyMark, ThreadsInv, WorkersIdle, TypeOK, ReqTypeOK, Marking
<1>7. ASSUME NEW w \in Workers, PreadyRead(w)
      PROVE  Quiet
  BY <1>7 DEF PreadyRead, ReadThreaded, reqvars, Quiet
<1>8. ASSUME NEW t \in Threads, GeneralSendAdd(t)
      PROVE  Quiet
  BY <1>8 DEF GeneralSendAdd, Count, Quiet
<1>9. ASSUME NEW t \in Threads, GeneralSendStart(t)
      PROVE  Sending
  <2>1. state = "ACTIVE"
    BY <1>9 DEF GeneralSendStart, ThreadsInv, WorkersIdle, Lifecycle, Threads,
       TypeOK, ReqTypeOK
  <2>2. \A i \in Net : starts[i] > 0 => starts'[i] > 0
    BY <1>9 DEF GeneralSendStart, TypeOK
  <2> QED
    BY <1>9, <2>1, <2>2 DEF GeneralSendStart, Sending
<1>10. ASSUME NEW i \in Net, MPI_Complete(i)
       PROVE  Quiet
  BY <1>10 DEF MPI_Complete, Quiet
<1>11. CASE MPIP_Wait \/ Join
  BY <1>11 DEF MPIP_Wait, WaitRead, EnterWait, Join, WaitJoin, Quiet
<1>12. CASE Waitall \/ Test
  <2>1. state' = "INACTIVE" /\ UNCHANGED <<ready, starts, round>>
    BY <1>12 DEF Waitall, WaitReturn, Test, MPIP_Test, Deactivate
  <2> QED
    BY <2>1 DEF Quiet, Completing, TypeOK, ReqTypeOK, CInv, Flags
<1>13. CASE Request_free
  BY <1>13 DEF Request_free, MPIP_Request_free, Quiet
<1>14. CASE UNCHANGED vars
  BY <1>14 DEF vars, reqvars, Quiet
<1> QED
  BY <1>1, <1>2, <1>3, <1>4, <1>5, <1>6, <1>7, <1>8, <1>9, <1>10, <1>11, <1>12,
     <1>13, <1>14 DEF Next, Done

-----------------------------------------------------------------------------
(* The refinement.                                                         *)

\* The messages started in this activation.
Started == {i \in Net : starts[i] > 0}

\* A request that was just created has declared and moved nothing.
LEMMA InitRefines == Init => Promised!Init
<1> SUFFICES ASSUME Init PROVE Promised!Init
  OBVIOUS
<1>1. {i \in Net : starts[i] > 0} = {} /\ ready = {}
  BY DEF Init
<1>2. Blocks({i \in Net : starts[i] > 0}, Size) = {}
      /\ Blocks(ready, LocalSize) = {}
  BY <1>1, Zenon DEF Blocks
<1> QED
  BY <1>2, Zenon DEF Promised!Init

\* Every step is one of the promised steps, or changes nothing they speak of.
LEMMA NextRefines ==
    ASSUME ExactGeometry, IInv, CInv, IInv', NoPrematureSend', AllStarted',
           [Next]_vars
    PROVE  [Promised!Next]_(Promised!vars)
<1> USE ParamAssumption
<1> DEFINE rd == Blocks(ready, LocalSize)
           mv == Blocks(Started, Size)
<1>1. ready \in SUBSET User /\ ready' \in SUBSET User
      /\ Started \in SUBSET Net /\ Started' \in SUBSET Net
  BY DEF IInv, TypeOK, Started
<1>2. CASE Starting
  <2>1. ready' = {} /\ Started' = {}
    BY <1>2 DEF Starting, Started
  <2>2. rd' = {} /\ mv' = {}
    BY <2>1, Zenon DEF Blocks
  <2> QED
    BY <1>2, <2>2 DEF Starting, Started, Promised!Next, Promised!Start
<1>3. CASE Marking
  <2>1. rd \subseteq rd'
    BY <1>3, Zenon DEF Marking, Blocks
  <2>2. rd' \subseteq 0..(LocalParts * LocalSize - 1)
    BY <1>1, BlocksInside DEF User
  <2>3. mv' = mv
    BY <1>3 DEF Marking, Started
  <2> QED
    BY <1>3, <2>1, <2>2, <2>3 DEF Marking, Started, Promised!Next,
       Promised!Ready
<1>4. CASE Sending
  <2>1. Started \subseteq Started' /\ rd' = rd
    BY <1>4 DEF Sending, Started
  <2>2. mv \subseteq mv'
    BY <2>1, Zenon DEF Blocks
  <2>3. \A i \in Started' : CarriedBy(i) \subseteq ready
    BY <1>4 DEF Sending, NoPrematureSend, Started, CarriedBy
  <2>4. mv' \subseteq rd
    BY <1>1, <2>3, CarriedIsReady
  <2> QED
    BY <1>4, <2>1, <2>2, <2>4 DEF Sending, Started, Promised!Next,
       Promised!Move
<1>5. CASE Completing
  <2>1. \A i \in Net : starts[i] = 1
    BY <1>5 DEF Completing, AllStarted
  <2>2. Started = Net
    BY <2>1 DEF Started
  <2>3. mv = 0..(LocalParts * LocalSize - 1)
    BY <2>2, WholeBuffer
  <2>4. rd' = rd /\ mv' = mv
    BY <1>5 DEF Completing, Started
  <2> QED
    BY <1>5, <2>3, <2>4 DEF Completing, Started, Promised!Next,
       Promised!Complete
<1>6. CASE Quiet
  BY <1>6 DEF Quiet, Promised!vars
<1> QED
  BY <1>2, <1>3, <1>4, <1>5, <1>6, StepShape

\* The send side implements Partitioned for every geometry the partition map
\* is exact on, any number of threads, messages and activations.
THEOREM SendRefines ==
    ASSUME ExactGeometry, SafeCatchUp,
           "early" \notin Windows, "outrun" \notin Windows
    PROVE  Spec => ImplementsPartitioned
<1>1. Init => CInv
  BY InitCInv
<1>2. IInv /\ CInv /\ [Next]_vars => CInv'
  BY NextCInv
<1>3. IInv /\ CInv => AllStarted
  BY CompletedStarts DEF AllStarted
<1>4. IInv /\ CInv /\ IInv' /\ NoPrematureSend' /\ AllStarted' /\ [Next]_vars
         => [Promised!Next]_(Promised!vars)
  BY NextRefines
<1>5. Init => Promised!Init
  BY InitRefines
<1> QED
  BY <1>1, <1>2, <1>3, <1>4, <1>5, Invariance, NothingEarly, PTL
     DEF Spec, ImplementsPartitioned, Promised!Spec
=============================================================================
