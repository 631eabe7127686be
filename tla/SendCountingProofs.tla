------------------------- MODULE SendCountingProofs -------------------------
(***************************************************************************)
(* Proof that an activation that was completed has sent everything         *)
(* (CompletionSends), for the geometries the partition map is exact on.    *)
(* The runs that drop one of the theorem's assumptions violate the         *)
(* property.                                                               *)
(***************************************************************************)
EXTENDS SendRequestProofs

T == Threshold(LocalParts, Parts)
Of(p) == MessagesOf(LocalParts, Parts, p)
ExactGeometry == Exact(LocalParts, LocalSize, Parts, Size)

-----------------------------------------------------------------------------
(* Every ready partition is counted.                                       *)

\* general_send works on a message of its partition.
OnItsMessages ==
    \A t \in Threads : pc[t] \in {"add", "start"} => next[t] \in Of(part[t])

\* A counter is at least the number of partitions counted, all of which the
\* message carries; a counter that reached the threshold led to a start.
Counted ==
    \A i \in Net :
        /\ added[i] \subseteq CarriedBy(i)
        /\ Cardinality(added[i]) <= internal_status[i]
        /\ internal_status[i] >= T =>
              \/ starts[i] = 1
              \/ \E t \in Threads : pc[t] = "start" /\ next[t] = i

\* The background thread will come to partition p.
LeftToSync(p) ==
    /\ p \in local_status
    /\ sync \notin {"none", "done"}
    /\ sync = "catchup" => scan <= p

\* Thread t is in a call that has yet to count its partition for message i.
WillCount(t, i) ==
    \/ pc[t] = "marked"
    \/ pc[t] = "add" /\ next[t] <= i
    \/ pc[t] = "start" /\ next[t] < i

\* Some thread is in a call that will count partition p for message i.
InCall(p, i) == \E t \in Threads : part[t] = p /\ WillCount(t, i)

\* No ready partition is forgotten.
NoneForgotten ==
    \A p \in ready : \A i \in Of(p) :
        p \in added[i] \/ LeftToSync(p) \/ InCall(p, i)

\* What the flags and the activation say about each other.
Flags ==
    /\ pc[Sync] # "marked"
    /\ \A w \in Workers : pc[w] = "marked" => part[w] \in local_status
    /\ main = "created" => sync \in {"recv", "setup", "lock"}
    /\ threaded = "RUNNING" => sync # "done"
    /\ state = "ACTIVE" => round > 0
    /\ round = 0 => ready = {}
    /\ (round > 0 /\ state = "INACTIVE") => ready = User

CInv == OnItsMessages /\ Counted /\ NoneForgotten /\ Flags

-----------------------------------------------------------------------------
(* The partition map, in the form the steps use it.                        *)

\* Threshold and partition map of an exact geometry.
LEMMA MapFacts ==
    ASSUME ExactGeometry
    PROVE  /\ T \in Nat \ {0}
           /\ \A i \in Net : /\ IsFiniteSet(CarriedBy(i))
                             /\ Cardinality(CarriedBy(i)) = T
                             /\ CarriedBy(i) \subseteq User
           /\ \A p \in User : \A i \in Net : i \in Of(p) <=> p \in CarriedBy(i)
           /\ \A p \in User : Of(p) \subseteq Net
<1> USE ParamAssumption
<1>1. T \in Nat \ {0}
  BY Geometry DEF T
<1>2. ASSUME NEW i \in Net
      PROVE  /\ IsFiniteSet(CarriedBy(i))
             /\ Cardinality(CarriedBy(i)) = T
             /\ CarriedBy(i) \subseteq User
  <2>1. CarriedBy(i) \subseteq User
    BY DEF CarriedBy, Carried, User
  <2> QED
    BY <2>1, ThresholdIsExact DEF ExactGeometry, CarriedBy, T, Net
<1>3. ASSUME NEW p \in User, NEW i \in Net
      PROVE  i \in Of(p) <=> p \in CarriedBy(i)
  BY MapIsExact DEF ExactGeometry, Of, CarriedBy, Carried, User, Net
<1>4. ASSUME NEW p \in User PROVE Of(p) \subseteq Net
  BY Geometry DEF Of, MessagesOf, Net
<1> QED
  BY <1>1, <1>2, <1>3, <1>4

\* The loop of general_send visits the messages of its partition in order.
LEMMA LoopFacts ==
    ASSUME NEW p \in User
    PROVE  /\ start_part(LocalParts, Parts, p) \in Of(p)
           /\ \A i \in Of(p) : start_part(LocalParts, Parts, p) <= i
           /\ \A n \in Of(p) : IF n + 1 < end_part(LocalParts, Parts, p)
                               THEN n + 1 \in Of(p)
                               ELSE \A i \in Of(p) : i <= n
<1> QED
  BY Geometry DEF Of, MessagesOf, Net

\* What the other threads are doing does not change.
OthersStay(t) ==
    \A u \in Threads \ {t} : /\ pc'[u] = pc[u]
                             /\ part'[u] = part[u]
                             /\ next'[u] = next[u]

\* A thread that enters general_send has all messages of p before it.
LEMMA EnterFacts ==
    ASSUME TypeOK, parts = Parts, NEW t \in Threads, NEW p \in User,
           EnterSend(t, p)
    PROVE  /\ pc'[t] = "add" /\ part'[t] = p
           /\ next'[t] \in Of(p) /\ \A i \in Of(p) : next'[t] <= i
           /\ OthersStay(t)
BY LoopFacts DEF EnterSend, TypeOK, OthersStay

\* A thread that goes on with its loop has the later messages before it.
LEMMA LoopStep ==
    ASSUME IInv, CInv, NEW t \in Threads, pc[t] \in {"add", "start"},
           NextMessage(t), UNCHANGED part
    PROVE  /\ pc'[t] \in {"add", "idle"} /\ part'[t] = part[t]
           /\ pc'[t] = "add" => /\ next'[t] \in Of(part[t])
                                /\ next'[t] = next[t] + 1
           /\ \A i \in Of(part[t]) :
                 next[t] < i => pc'[t] = "add" /\ next'[t] <= i
           /\ OthersStay(t)
<1>1. parts = Parts /\ part[t] \in User /\ next[t] \in Of(part[t])
  BY Counter DEF IInv, TypeOK, CInv, OnItsMessages
<1>2. next[t] \in Int /\ \A i \in Of(part[t]) : i \in Int
  BY DEF IInv, TypeOK, Net, Of, MessagesOf
<1>3. CASE next[t] + 1 < end_part(LocalParts, Parts, part[t])
  <2>1. pc' = [pc EXCEPT ![t] = "add"] /\ next' = [next EXCEPT ![t] = @ + 1]
    BY <1>1, <1>3 DEF NextMessage
  <2>2. next[t] + 1 \in Of(part[t])
    BY <1>1, <1>3, LoopFacts
  <2> QED
    BY <2>1, <2>2, <1>2 DEF IInv, TypeOK, OthersStay
<1>4. CASE ~(next[t] + 1 < end_part(LocalParts, Parts, part[t]))
  <2>1. pc' = [pc EXCEPT ![t] = "idle"] /\ next' = next
    BY <1>1, <1>4 DEF NextMessage
  <2>2. \A i \in Of(part[t]) : i <= next[t]
    BY <1>1, <1>4, LoopFacts
  <2> QED
    BY <2>1, <2>2, <1>2 DEF IInv, TypeOK, OthersStay
<1> QED
  BY <1>3, <1>4

\* A pending count of another thread stays pending.
LEMMA OthersCount ==
    ASSUME NEW t \in Threads, OthersStay(t), NEW p, NEW i, InCall(p, i),
           ~(part[t] = p /\ WillCount(t, i))
    PROVE  InCall(p, i)'
BY DEF OthersStay, InCall, WillCount

-----------------------------------------------------------------------------
(* The steps, one lemma per action.                                        *)

\* Every counter is zero before and after the init call.
LEMMA Count_InitDirect ==
    ASSUME IInv, CInv, InitDirect, UNCHANGED sendvars
    PROVE  CInv'
<1> USE DEF IInv, CInv, InitDirect, prep, internal_setup, sendvars
<1>1. OnItsMessages'
  BY DEF OnItsMessages
<1>2. Counted'
  BY Geometry DEF Counted, ThreadsInv, Lifecycle, TypeOK, ReqTypeOK, T
<1>3. NoneForgotten'
  BY DEF NoneForgotten, LeftToSync, InCall, WillCount, Flags, Lifecycle
<1>4. Flags'
  BY DEF Flags, Lifecycle, ThreadsInv, WorkersIdle
<1> QED
  BY <1>1, <1>2, <1>3, <1>4

\* The init call that creates the background thread.
LEMMA Count_InitSpawn ==
    ASSUME IInv, CInv, InitSpawn, UNCHANGED sendvars
    PROVE  CInv'
<1> USE DEF IInv, CInv, InitSpawn, prep, sendvars
<1>1. OnItsMessages'
  BY DEF OnItsMessages
<1>2. Counted'
  BY DEF Counted, CarriedBy
<1>3. NoneForgotten'
  BY DEF NoneForgotten, LeftToSync, InCall, WillCount, Flags, Lifecycle
<1>4. Flags'
  BY DEF Flags, Lifecycle, ThreadsInv, WorkersIdle
<1> QED
  BY <1>1, <1>2, <1>3, <1>4

\* RUNNING is stored before the background thread can end.
LEMMA Count_InitStore ==
    ASSUME IInv, CInv, InitStore, UNCHANGED sendvars
    PROVE  CInv'
<1> USE DEF IInv, CInv, InitStore, sendvars
<1>1. OnItsMessages'
  BY DEF OnItsMessages
<1>2. Counted'
  BY DEF Counted, CarriedBy
<1>3. NoneForgotten'
  BY DEF NoneForgotten, LeftToSync, InCall, WillCount, Flags, Lifecycle
<1>4. Flags'
  BY DEF Flags, Lifecycle, ThreadsInv, WorkersIdle
<1> QED
  BY <1>1, <1>2, <1>3, <1>4

\* The numbers of the driving side arrive.
LEMMA Count_SyncSide ==
    ASSUME IInv, CInv, SyncSide, UNCHANGED sendvars
    PROVE  CInv'
<1> USE DEF IInv, CInv, SyncSide, sendvars, Learn
<1>1. OnItsMessages'
  BY DEF OnItsMessages
<1>2. Counted'
  BY DEF Counted, CarriedBy
<1>3. NoneForgotten'
  BY DEF NoneForgotten, LeftToSync, InCall, WillCount, Flags, Lifecycle
<1>4. Flags'
  BY DEF Flags, Lifecycle, ThreadsInv, WorkersIdle
<1> QED
  BY <1>1, <1>2, <1>3, <1>4

\* internal_setup clears counters that are zero already.
LEMMA Count_SyncSetup ==
    ASSUME IInv, CInv, SyncSetup, UNCHANGED sendvars
    PROVE  CInv'
<1> USE DEF IInv, CInv, SyncSetup, internal_setup, sendvars
<1>1. OnItsMessages'
  BY DEF OnItsMessages
<1>2. Counted'
  BY Geometry DEF Counted, ThreadsInv, Lifecycle, TypeOK, ReqTypeOK, T
<1>3. NoneForgotten'
  BY DEF NoneForgotten, LeftToSync, InCall, WillCount, Flags, Lifecycle
<1>4. Flags'
  BY DEF Flags, Lifecycle, ThreadsInv, WorkersIdle
<1> QED
  BY <1>1, <1>2, <1>3, <1>4

\* The thread ends without a catch-up only when nothing is ready yet.
LEMMA Count_SyncNothing ==
    ASSUME IInv, CInv, "outrun" \notin Windows, SyncNothing, UNCHANGED sendvars
    PROVE  CInv'
<1> USE DEF IInv, CInv, SyncNothing, MayLock, sendvars
<1>1. OnItsMessages'
  BY DEF OnItsMessages
<1>2. Counted'
  BY DEF Counted, CarriedBy
<1>3. NoneForgotten'
  BY ParamAssumption DEF NoneForgotten, Flags, Lifecycle, TypeOK, ReqTypeOK
<1>4. Flags'
  BY DEF Flags, Lifecycle, ThreadsInv, WorkersIdle
<1> QED
  BY <1>1, <1>2, <1>3, <1>4

\* MPIP_Wait reads threaded.
LEMMA Count_WaitRead ==
    ASSUME IInv, CInv, WaitRead, UNCHANGED sendvars
    PROVE  CInv'
<1> USE DEF IInv, CInv, WaitRead, sendvars, EnterWait
<1>1. OnItsMessages'
  BY DEF OnItsMessages
<1>2. Counted'
  BY DEF Counted, CarriedBy
<1>3. NoneForgotten'
  BY DEF NoneForgotten, LeftToSync, InCall, WillCount, Flags, Lifecycle
<1>4. Flags'
  BY DEF Flags, Lifecycle, ThreadsInv, WorkersIdle
<1> QED
  BY <1>1, <1>2, <1>3, <1>4

\* pthread_join returns.
LEMMA Count_WaitJoin ==
    ASSUME IInv, CInv, WaitJoin, UNCHANGED sendvars
    PROVE  CInv'
<1> USE DEF IInv, CInv, WaitJoin, sendvars
<1>1. OnItsMessages'
  BY DEF OnItsMessages
<1>2. Counted'
  BY DEF Counted, CarriedBy
<1>3. NoneForgotten'
  BY DEF NoneForgotten, LeftToSync, InCall, WillCount, Flags, Lifecycle
<1>4. Flags'
  BY DEF Flags, Lifecycle, ThreadsInv, WorkersIdle
<1> QED
  BY <1>1, <1>2, <1>3, <1>4

\* MPIP_Wait completes the activation with every partition ready.
LEMMA Count_WaitReturn ==
    ASSUME IInv, CInv, WaitReturn, UNCHANGED sendvars
    PROVE  CInv'
<1> USE DEF IInv, CInv, WaitReturn, sendvars, Deactivate
<1>1. OnItsMessages'
  BY DEF OnItsMessages
<1>2. Counted'
  BY DEF Counted, CarriedBy
<1>3. NoneForgotten'
  BY DEF NoneForgotten, LeftToSync, InCall, WillCount, Flags, Lifecycle
<1>4. Flags'
  BY DEF Flags, ThreadsInv, TypeOK, ReqTypeOK
<1> QED
  BY <1>1, <1>2, <1>3, <1>4

\* A successful MPIP_Test, likewise.
LEMMA Count_MPIP_Test ==
    ASSUME IInv, CInv, "early" \notin Windows, MayComplete, MPIP_Test,
           UNCHANGED sendvars
    PROVE  CInv'
<1> USE DEF IInv, CInv, MPIP_Test, MayComplete, sendvars, Deactivate
<1>1. OnItsMessages'
  BY DEF OnItsMessages
<1>2. Counted'
  BY DEF Counted, CarriedBy
<1>3. NoneForgotten'
  BY DEF NoneForgotten, LeftToSync, InCall, WillCount, Flags, Lifecycle
<1>4. Flags'
  BY DEF Flags, Lifecycle, ThreadsInv, WorkersIdle
<1> QED
  BY <1>1, <1>2, <1>3, <1>4

\* The request is freed.
LEMMA Count_MPIP_Request_free ==
    ASSUME IInv, CInv, MPIP_Request_free, UNCHANGED sendvars
    PROVE  CInv'
<1> USE DEF IInv, CInv, MPIP_Request_free, sendvars
<1>1. OnItsMessages'
  BY DEF OnItsMessages
<1>2. Counted'
  BY DEF Counted, CarriedBy
<1>3. NoneForgotten'
  BY DEF NoneForgotten, LeftToSync, InCall, WillCount, Flags, Lifecycle
<1>4. Flags'
  BY DEF Flags, Lifecycle, ThreadsInv, WorkersIdle
<1> QED
  BY <1>1, <1>2, <1>3, <1>4

\* MPI completes a message.
LEMMA Count_MPI_Complete ==
    ASSUME IInv, CInv, NEW i \in Net, MPI_Complete(i)
    PROVE  CInv'
<1> USE DEF IInv, CInv, MPI_Complete, sendvars
<1>1. OnItsMessages'
  BY DEF OnItsMessages
<1>2. Counted'
  BY DEF Counted, CarriedBy
<1>3. NoneForgotten'
  BY DEF NoneForgotten, LeftToSync, InCall, WillCount, Flags, Lifecycle
<1>4. Flags'
  BY DEF Flags, Lifecycle, ThreadsInv, WorkersIdle
<1> QED
  BY <1>1, <1>2, <1>3, <1>4

\* The catch-up starts at the first partition.
LEMMA Count_SyncCatchUp ==
    ASSUME IInv, CInv, SyncCatchUp
    PROVE  CInv'
<1> USE DEF IInv, CInv, SyncCatchUp, MayLock
<1>1. OnItsMessages'
  BY DEF OnItsMessages
<1>2. Counted'
  BY DEF Counted, CarriedBy
<1>3. NoneForgotten'
  BY ParamAssumption
     DEF NoneForgotten, LeftToSync, InCall, WillCount, TypeOK, User
<1>4. Flags'
  BY DEF Flags, Lifecycle, ThreadsInv, WorkersIdle
<1> QED
  BY <1>1, <1>2, <1>3, <1>4

\* The scan has passed every partition.
LEMMA Count_SyncFinish ==
    ASSUME IInv, CInv, SyncFinish
    PROVE  CInv'
<1> USE DEF IInv, CInv, SyncFinish, sendvars
<1>1. OnItsMessages'
  BY DEF OnItsMessages
<1>2. Counted'
  BY DEF Counted, CarriedBy
<1>3. NoneForgotten'
  BY ParamAssumption
     DEF NoneForgotten, LeftToSync, InCall, WillCount, TypeOK, User
<1>4. Flags'
  BY DEF Flags, Lifecycle, ThreadsInv, WorkersIdle
<1> QED
  BY <1>1, <1>2, <1>3, <1>4

\* A new activation: nothing ready, nothing counted.
LEMMA Count_MPIP_Start ==
    ASSUME IInv, CInv, MPIP_Start
    PROVE  CInv'
<1> USE DEF IInv, CInv, MPIP_Start, StartLocked, reset_status, LockFree
<1>1. OnItsMessages'
  BY DEF OnItsMessages
<1>2. Counted'
  <2>1. \A i \in Net : internal_status'[i] = 0
    BY ParamAssumption
       DEF Lifecycle, Arrays, SetUp, ThreadsInv, TypeOK, ReqTypeOK, Net
  <2>2. Cardinality({}) = 0
    BY FS_EmptySet
  <2> QED
    BY <2>1, <2>2, Geometry DEF Counted, T
<1>3. NoneForgotten'
  BY DEF NoneForgotten, LeftToSync, InCall, WillCount, Flags, Lifecycle
<1>4. Flags'
  BY ParamAssumption DEF Flags, Lifecycle, WorkersIdle, TypeOK, ReqTypeOK
<1> QED
  BY <1>1, <1>2, <1>3, <1>4

\* A Pready call is made.
LEMMA Count_MPIP_Pready_list ==
    ASSUME IInv, CInv, NEW w \in Workers, NEW S \in SUBSET User,
           MPIP_Pready_list(w, S)
    PROVE  CInv'
<1> USE DEF IInv, CInv, MPIP_Pready_list, reqvars
<1>1. OnItsMessages'
  BY DEF OnItsMessages
<1>2. Counted'
  BY DEF Counted, CarriedBy
<1>3. NoneForgotten'
  BY DEF NoneForgotten, LeftToSync, InCall, WillCount, Flags, Lifecycle
<1>4. Flags'
  BY DEF Flags, Lifecycle, ThreadsInv, WorkersIdle
<1> QED
  BY <1>1, <1>2, <1>3, <1>4

\* A flag that reads true is taken up before the scan passes it.
LEMMA Count_SyncScan ==
    ASSUME IInv, CInv, SyncScan
    PROVE  CInv'
<1> USE DEF IInv, CInv, SyncScan, Scan, reqvars
<1>s. /\ parts = Parts /\ scan \in User /\ Sync \in Threads
      /\ pc[Sync] = "idle" /\ sync = "catchup"
  BY ParamAssumption DEF Lifecycle, Arrays, SetUp, TypeOK, User, Threads
<1>e. /\ OthersStay(Sync)
      /\ scan \in local_status =>
            /\ pc'[Sync] = "add" /\ part'[Sync] = scan
            /\ next'[Sync] \in Of(scan) /\ \A i \in Of(scan) : next'[Sync] <= i
      /\ scan \notin local_status => pc'[Sync] = "idle"
  BY <1>s, EnterFacts DEF OthersStay
<1>1. OnItsMessages'
  BY <1>s, <1>e DEF OnItsMessages, OthersStay
<1>2. Counted'
  BY <1>s, <1>e DEF Counted, OthersStay
<1>3. NoneForgotten'
  <2> SUFFICES ASSUME NEW p \in ready, NEW i \in Of(p)
               PROVE  p \in added[i] \/ LeftToSync(p)' \/ InCall(p, i)'
    BY DEF NoneForgotten
  <2>1. ASSUME LeftToSync(p) PROVE LeftToSync(p)' \/ InCall(p, i)'
    <3>1. CASE p = scan
      BY <2>1, <3>1, <1>s, <1>e DEF LeftToSync, InCall, WillCount
    <3>2. CASE p # scan
      BY <2>1, <3>2, <1>s DEF LeftToSync, TypeOK, User
    <3> QED
      BY <3>1, <3>2
  <2>2. ASSUME InCall(p, i) PROVE InCall(p, i)'
    BY <2>2, <1>s, <1>e, OthersCount DEF WillCount
  <2> QED
    BY <2>1, <2>2 DEF NoneForgotten
<1>4. Flags'
  BY <1>s, <1>e, ThreadAssumption DEF Flags, OthersStay, Threads
<1> QED
  BY <1>1, <1>2, <1>3, <1>4

\* The thread that marks a partition has yet to count it.
LEMMA Count_PreadyMark ==
    ASSUME IInv, CInv, NEW w \in Workers, PreadyMark(w)
    PROVE  CInv'
<1> USE DEF IInv, CInv
<1>p. PICK p0 \in todo[w] : /\ local_status' = local_status \union {p0}
                           /\ ready' = ready \union {p0}
                           /\ part' = [part EXCEPT ![w] = p0]
                           /\ UNCHANGED <<sync, scan, added>>
  BY DEF PreadyMark
<1>e. /\ w \in Threads /\ pc[w] = "idle"
      /\ pc'[w] = "marked" /\ part'[w] = p0
      /\ OthersStay(w)
  BY <1>p DEF PreadyMark, TypeOK, Threads, OthersStay
<1>1. OnItsMessages'
  BY <1>e DEF OnItsMessages, OthersStay
<1>2. Counted'
  BY <1>e DEF Counted, OthersStay, PreadyMark
<1>3. NoneForgotten'
  <2> SUFFICES ASSUME NEW p \in ready', NEW i \in Of(p)
               PROVE  p \in added[i] \/ LeftToSync(p)' \/ InCall(p, i)'
    BY <1>p DEF NoneForgotten
  <2>1. CASE p = p0
    BY <2>1, <1>e, <1>p DEF InCall, WillCount
  <2>2. CASE p # p0
    <3>1. p \in ready
      BY <2>2, <1>p
    <3>2. LeftToSync(p) => LeftToSync(p)'
      BY <1>p DEF LeftToSync
    <3>3. InCall(p, i) => InCall(p, i)'
      BY <1>e, OthersCount DEF WillCount
    <3> QED
      BY <3>1, <3>2, <3>3 DEF NoneForgotten
  <2> QED
    BY <2>1, <2>2
<1>4. Flags'
  <2>1. state = "ACTIVE"
    BY <1>p DEF ThreadsInv, WorkersIdle, TypeOK, ReqTypeOK
  <2> QED
    BY <2>1, <1>e, <1>p, ThreadAssumption DEF Flags, OthersStay, Threads,
       PreadyMark, TypeOK, ReqTypeOK
<1> QED
  BY <1>1, <1>2, <1>3, <1>4

\* The partition is counted by the thread itself or left to the catch-up.
LEMMA Count_PreadyRead ==
    ASSUME IInv, CInv, NEW w \in Workers, PreadyRead(w)
    PROVE  CInv'
<1> USE DEF IInv, CInv, PreadyRead, ReadThreaded, reqvars, LockFree
<1>s. /\ w \in Threads /\ part[w] \in User
      /\ threaded # "RUNNING" => parts = Parts
  BY DEF Lifecycle, Arrays, SetUp, ThreadsInv, WorkersIdle, TypeOK, ReqTypeOK,
     Threads
<1>e. /\ OthersStay(w)
      /\ threaded # "RUNNING" =>
            /\ pc'[w] = "add" /\ part'[w] = part[w]
            /\ next'[w] \in Of(part[w])
            /\ \A i \in Of(part[w]) : next'[w] <= i
      /\ threaded = "RUNNING" => pc'[w] = "idle"
  BY <1>s, EnterFacts DEF OthersStay, TypeOK
<1>1. OnItsMessages'
  BY <1>s, <1>e DEF OnItsMessages, OthersStay
<1>2. Counted'
  BY <1>s, <1>e DEF Counted, OthersStay
<1>3. NoneForgotten'
  <2> SUFFICES ASSUME NEW p \in ready, NEW i \in Of(p)
               PROVE  p \in added[i] \/ LeftToSync(p)' \/ InCall(p, i)'
    BY DEF NoneForgotten
  <2>1. LeftToSync(p) => LeftToSync(p)'
    BY DEF LeftToSync
  <2>2. CASE part[w] = p
    <3>1. CASE threaded = "RUNNING"
      BY <3>1, <2>2 DEF LeftToSync, Flags, Lifecycle
    <3>2. CASE threaded # "RUNNING"
      BY <3>2, <2>2, <1>s, <1>e DEF InCall, WillCount
    <3> QED
      BY <3>1, <3>2
  <2>3. CASE part[w] # p
    BY <2>1, <2>3, <1>s, <1>e, OthersCount DEF NoneForgotten
  <2> QED
    BY <2>2, <2>3
<1>4. Flags'
  BY <1>s, <1>e, ThreadAssumption DEF Flags, OthersStay, Threads
<1> QED
  BY <1>1, <1>2, <1>3, <1>4

\* The partition is counted, and the threshold leads to a start.
LEMMA Count_GeneralSendAdd ==
    ASSUME IInv, CInv, ExactGeometry, NEW t \in Threads, GeneralSendAdd(t)
    PROVE  CInv'
<1> USE DEF IInv, CInv, GeneralSendAdd, Count, CounterOf
<1>s. next[t] \in Of(part[t]) /\ pc[t] = "add" /\ part[t] \in User
  BY DEF OnItsMessages, TypeOK
<1>e. /\ pc'[t] \in {"start", "add", "idle"} /\ part'[t] = part[t]
      /\ pc'[t] \in {"start", "add"} => next'[t] \in Of(part[t])
      /\ \A i \in Of(part[t]) : next[t] < i =>
            \/ pc'[t] = "start" /\ next'[t] < i
            \/ pc'[t] = "add" /\ next'[t] <= i
      /\ OthersStay(t)
  <2>1. CASE internal_status[next[t]] + 1 = Threshold(LocalParts, parts)
    BY <1>s, <2>1 DEF OthersStay, TypeOK
  <2>2. CASE internal_status[next[t]] + 1 # Threshold(LocalParts, parts)
    BY <1>s, <2>2, LoopStep
  <2> QED
    BY <2>1, <2>2
<1>1. OnItsMessages'
  BY <1>s, <1>e DEF OnItsMessages, OthersStay
<1>2. Counted'
  <2> DEFINE j == next[t]
  <2>1. /\ j \in Net /\ part[t] \in User /\ part[t] \in CarriedBy(j)
        /\ internal_status \in [Net -> Nat] /\ T \in Nat /\ parts = Parts
    BY <1>s, MapFacts, Counter DEF TypeOK, ReqTypeOK
  <2> SUFFICES ASSUME NEW i \in Net
               PROVE  /\ added'[i] \subseteq CarriedBy(i)
                      /\ Cardinality(added'[i]) <= internal_status'[i]
                      /\ internal_status'[i] >= T =>
                            \/ starts[i] = 1
                            \/ \E u \in Threads : pc'[u] = "start" /\ next'[u] = i
    BY DEF Counted
  <2>2. IsFiniteSet(added[i]) /\ Cardinality(added[i]) \in Nat
    BY MapFacts, FS_Subset, FS_CardinalityType DEF Counted
  <2>3. \A u \in Threads : pc[u] = "start" =>
           pc'[u] = "start" /\ next'[u] = next[u]
    BY <1>e DEF OthersStay
  <2>4. CASE i # j
    BY <2>1, <2>3, <2>4 DEF Counted, TypeOK
  <2>5. CASE i = j
    <3>1. added'[i] = added[i] \union {part[t]}
      BY <2>1, <2>5 DEF TypeOK
    <3>2. internal_status'[i] = internal_status[i] + 1
      BY <2>1, <2>5
    <3>3. Cardinality(added'[i]) <= internal_status[i] + 1
      <4>1. \/ Cardinality(added'[i]) = Cardinality(added[i])
            \/ Cardinality(added'[i]) = Cardinality(added[i]) + 1
        BY <2>2, <3>1, FS_AddElement
      <4> QED
        BY <4>1, <2>1, <2>2 DEF Counted
    <3>4. CASE internal_status[i] + 1 = T
      <4>1. pc'[t] = "start" /\ next'[t] = i
        BY <2>1, <2>5, <3>4 DEF T, TypeOK
      <4> QED
        BY <4>1, <2>1, <2>5, <3>1, <3>2, <3>3 DEF Counted
    <3>5. CASE internal_status[i] + 1 # T
      BY <2>1, <2>3, <2>5, <3>1, <3>2, <3>3, <3>5 DEF Counted
    <3> QED
      BY <3>4, <3>5
  <2> QED
    BY <2>4, <2>5
<1>3. NoneForgotten'
  <2> SUFFICES ASSUME NEW p \in ready, NEW i \in Of(p)
               PROVE  p \in added'[i] \/ LeftToSync(p)' \/ InCall(p, i)'
    BY DEF NoneForgotten
  <2>1. LeftToSync(p) => LeftToSync(p)'
    BY DEF LeftToSync
  <2>2. p \in User /\ i \in Net
    BY MapFacts DEF TypeOK
  <2>3. p \in added[i] => p \in added'[i]
    BY <2>2 DEF TypeOK
  <2>4. CASE part[t] = p /\ i = next[t]
    BY <2>2, <2>4 DEF TypeOK
  <2>5. CASE part[t] = p /\ next[t] < i
    BY <2>5, <1>e DEF InCall, WillCount
  <2>6. CASE ~(part[t] = p /\ next[t] <= i)
    BY <2>1, <2>3, <2>6, <1>e, OthersCount DEF NoneForgotten, WillCount
  <2>7. next[t] <= i => next[t] = i \/ next[t] < i
    BY <2>2 DEF TypeOK, Net
  <2> QED
    BY <2>4, <2>5, <2>6, <2>7
<1>4. Flags'
  BY <1>e, ThreadAssumption DEF Flags, OthersStay, Threads
<1> QED
  BY <1>1, <1>2, <1>3, <1>4

\* The message is started; the loop goes on.
LEMMA Count_GeneralSendStart ==
    ASSUME IInv, CInv, NEW t \in Threads, GeneralSendStart(t)
    PROVE  CInv'
<1> USE DEF IInv, CInv, GeneralSendStart
<1>e. /\ pc'[t] \in {"add", "idle"} /\ part'[t] = part[t]
      /\ pc'[t] = "add" => next'[t] \in Of(part[t])
      /\ \A i \in Of(part[t]) :
            next[t] < i => pc'[t] = "add" /\ next'[t] <= i
      /\ OthersStay(t)
  BY LoopStep
<1>1. OnItsMessages'
  BY <1>e DEF OnItsMessages, OthersStay
<1>2. Counted'
  <2>1. \A i \in Net : starts'[i] = IF i = next[t] THEN 1 ELSE starts[i]
    BY DEF Counting, TypeOK
  <2>2. \A u \in Threads : (pc[u] = "start" /\ next[u] # next[t]) =>
           pc'[u] = "start" /\ next'[u] = next[u]
    BY <1>e DEF OthersStay
  <2> QED
    BY <2>1, <2>2 DEF Counted
<1>3. NoneForgotten'
  <2> SUFFICES ASSUME NEW p \in ready, NEW i \in Of(p)
               PROVE  p \in added[i] \/ LeftToSync(p)' \/ InCall(p, i)'
    BY DEF NoneForgotten
  <2>1. LeftToSync(p) => LeftToSync(p)'
    BY DEF LeftToSync
  <2>2. CASE part[t] = p /\ next[t] < i
    BY <2>2, <1>e DEF InCall, WillCount
  <2>3. CASE ~(part[t] = p /\ next[t] < i)
    BY <2>1, <2>3, <1>e, OthersCount DEF NoneForgotten, WillCount
  <2> QED
    BY <2>2, <2>3
<1>4. Flags'
  BY <1>e, ThreadAssumption DEF Flags, OthersStay, Threads
<1> QED
  BY <1>1, <1>2, <1>3, <1>4

-----------------------------------------------------------------------------
(* The theorems.                                                           *)

\* The counting invariant holds initially.
LEMMA InitCInv == ASSUME ExactGeometry, Init PROVE CInv
<1> USE DEF Init, ReqInit
<1>1. Counted
  <2>1. Cardinality({}) = 0 /\ T \in Nat \ {0}
    BY FS_EmptySet, MapFacts
  <2> QED
    BY <2>1 DEF Counted
<1>2. OnItsMessages /\ NoneForgotten /\ Flags
  BY DEF OnItsMessages, NoneForgotten, Flags, Threads
<1> QED
  BY <1>1, <1>2 DEF CInv

\* ... and is preserved by every step.
LEMMA NextCInv ==
    ASSUME ExactGeometry, "early" \notin Windows, "outrun" \notin Windows,
           IInv, CInv, [Next]_vars
    PROVE  CInv'
<1>1. CASE Psend_init
  BY <1>1, Count_InitDirect, Count_InitSpawn, Count_InitStore DEF Psend_init
<1>2. CASE SyncStep
  BY <1>2, Count_SyncSide, Count_SyncSetup, Count_SyncNothing,
     Count_SyncCatchUp, Count_SyncScan, Count_SyncFinish
     DEF SyncStep, Negotiate
<1>3. CASE MPIP_Start
  BY <1>3, Count_MPIP_Start
<1>4. ASSUME NEW w \in Workers, NEW S \in SUBSET User, MPIP_Pready_list(w, S)
      PROVE  CInv'
  BY <1>4, Count_MPIP_Pready_list
<1>5. ASSUME NEW w \in Workers, NEW low \in User, NEW high \in User,
             MPIP_Pready_range(w, low, high)
      PROVE  CInv'
  <2>1. low..high \in SUBSET User
    BY ParamAssumption DEF User
  <2> QED
    BY <1>5, <2>1, Count_MPIP_Pready_list DEF MPIP_Pready_range
<1>6. ASSUME NEW w \in Workers, PreadyMark(w) \/ PreadyRead(w)
      PROVE  CInv'
  BY <1>6, Count_PreadyMark, Count_PreadyRead
<1>7. ASSUME NEW t \in Threads, GeneralSendAdd(t) \/ GeneralSendStart(t)
      PROVE  CInv'
  BY <1>7, Count_GeneralSendAdd, Count_GeneralSendStart
<1>8. ASSUME NEW i \in Net, MPI_Complete(i)
      PROVE  CInv'
  BY <1>8, Count_MPI_Complete
<1>9. CASE MPIP_Wait \/ Join \/ Waitall \/ Test
  BY <1>9, Count_WaitRead, Count_WaitJoin, Count_WaitReturn, Count_MPIP_Test
     DEF MPIP_Wait, Join, Waitall, Test
<1>10. CASE Request_free
  BY <1>10, Count_MPIP_Request_free DEF Request_free
<1>11. CASE UNCHANGED vars
  BY <1>11 DEF vars, reqvars, sendvars, CInv, OnItsMessages, Counted,
     NoneForgotten, LeftToSync, InCall, WillCount, Flags, CarriedBy
<1> QED
  BY <1>1, <1>2, <1>3, <1>4, <1>5, <1>6, <1>7, <1>8, <1>9, <1>10, <1>11
     DEF Next, Done

\* Some message carries a given element of the buffer.
LEMMA ElementHasMessage ==
    ASSUME ExactGeometry, NEW e \in 0..(LocalParts * LocalSize - 1)
    PROVE  \E i \in Net : i * Size <= e /\ e < (i + 1) * Size
<1>1. e \in 0..(Parts * Size - 1)
  BY DEF ExactGeometry, Exact
<1> QED
  BY <1>1, ParamAssumption, BlockOf DEF Net

\* A completed activation has counted every partition for every message it
\* has data in, hence reached every threshold, hence started every message.
LEMMA CompletedStarts ==
    ASSUME ExactGeometry, IInv, CInv, round > 0, state = "INACTIVE",
           NEW i \in Net
    PROVE  starts[i] = 1
<1> USE DEF IInv, CInv
<1>1. ready = User /\ sync \in {"none", "done"}
  BY DEF Flags, Lifecycle
<1>2. \A t \in Threads : pc[t] = "idle"
  BY <1>1 DEF ThreadsInv, WorkersIdle, Threads
<1>3. \A p \in User : i \in Of(p) => p \in added[i]
  BY <1>1, <1>2 DEF NoneForgotten, LeftToSync, InCall, WillCount
<1>4. added[i] = CarriedBy(i)
  BY <1>3, MapFacts DEF Counted
<1>5. T <= internal_status[i] /\ T \in Nat /\ internal_status[i] \in Nat
  BY <1>4, MapFacts DEF Counted, TypeOK, ReqTypeOK
<1> QED
  BY <1>2, <1>5 DEF Counted

\* When MPIP_Wait or MPIP_Test has completed an activation, every element of
\* the buffer was in a started message and no message is left active.
THEOREM CompletionSends ==
    ASSUME ExactGeometry, "early" \notin Windows, "outrun" \notin Windows
    PROVE  Spec => []CompletionMeansSent
<1>1. Init => CInv
  BY InitCInv
<1>2. IInv /\ CInv /\ [Next]_vars => CInv'
  BY NextCInv
<1>3. IInv /\ CInv => CompletionMeansSent
  <2> SUFFICES ASSUME IInv, CInv, round > 0, state = "INACTIVE"
               PROVE  /\ \A e \in 0..(LocalParts * LocalSize - 1) :
                            ElementSent(e)
                      /\ \A i \in Net : request[i] # "active"
    BY DEF CompletionMeansSent
  <2>1. \A e \in 0..(LocalParts * LocalSize - 1) : ElementSent(e)
    BY ElementHasMessage, CompletedStarts DEF ElementSent
  <2>2. \A i \in Net : request[i] # "active"
    BY DEF IInv, Requests
  <2> QED
    BY <2>1, <2>2
<1> QED
  BY <1>1, <1>2, <1>3, Invariance, PTL DEF Spec
=============================================================================
