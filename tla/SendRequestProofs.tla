------------------------- MODULE SendRequestProofs --------------------------
(***************************************************************************)
(* Proofs about the send side, for every number of threads, partitions,    *)
(* messages and activations.                                               *)
(***************************************************************************)
EXTENDS SendRequest, PartitionMapProofs

-----------------------------------------------------------------------------
(* The inductive invariant.                                                *)

\* internal_setup has run.
SetUp == IF Negotiated THEN sync \in {"lock", "catchup", "done"}
                       ELSE main # "none"

\* How far the main thread and the background thread are relative to each
\* other: in particular, once the init call has returned, a threaded field
\* that is not RUNNING means that the background thread has returned.
Lifecycle ==
    /\ main \in {"none", "created"} => state = "INACTIVE" /\ round = 0
    /\ main = "freed" => state = "INACTIVE"
    /\ sync = "none" <=> (~Negotiated \/ main = "none")
    /\ main = "created" => Negotiated
    /\ (threaded # "RUNNING" /\ main \notin {"none", "created"})
          => sync \in {"none", "done"}
    /\ threaded = "RUNNING" => Negotiated /\ main \notin {"none", "created"}
    /\ sync = "catchup" => /\ state = "ACTIVE"
                           /\ threaded = "RUNNING"
                           /\ main \in {"idle", "join"}
    /\ main = "waitall" => sync \in {"none", "done"}
    /\ (round > 0 /\ state = "INACTIVE") => sync \in {"none", "done"}

\* When the arrays exist, and how many messages there are.
Arrays ==
    /\ SetUp \/ sync = "setup" => parts = Parts
    /\ SetUp /\ main # "freed" => \A i \in Net : request[i] # "null"

\* Where the threads are: a partition is counted only once the arrays exist,
\* and nobody is inside MPIP_Pready while the request is inactive.
ThreadsInv ==
    /\ state = "INACTIVE" => WorkersIdle
    /\ (state = "ACTIVE" /\ main \in {"join", "waitall"})
          => ready = User /\ WorkersIdle
    /\ sync # "catchup" => pc[Sync] = "idle"
    /\ \A w \in Workers : pc[w] \in {"add", "start"} => threaded # "RUNNING"
    /\ (\/ main \in {"none", "created"}
        \/ threaded = "RUNNING" /\ sync # "catchup")
          => \A i \in Net : internal_status[i] = 0

\* The counter of a message decides who starts it, and when.
Counting ==
    /\ \A i \in Net : starts[i] <= 1
    /\ \A i \in Net : internal_status[i] < Threshold(LocalParts, Parts)
                         => starts[i] = 0
    /\ \A t \in Threads : pc[t] = "start" =>
          /\ internal_status[next[t]] >= Threshold(LocalParts, Parts)
          /\ starts[next[t]] = 0
    /\ \A t, u \in Threads : (pc[t] = "start" /\ pc[u] = "start"
                                 /\ next[t] = next[u]) => t = u

\* An MPI request is in use only for a message started in this activation.
Requests ==
    \A i \in Net : /\ request[i] \in {"active", "complete"} => starts[i] = 1
                   /\ state = "INACTIVE" => request[i] \in {"null", "inactive"}

IInv == TypeOK /\ Lifecycle /\ Arrays /\ ThreadsInv /\ Counting /\ Requests

-----------------------------------------------------------------------------
(* The assumptions on the constants, in the form the steps use them.       *)

\* The partition map of a request stays inside its arrays.
LEMMA Geometry ==
    /\ Threshold(LocalParts, Parts) \in Nat \ {0}
    /\ \A p \in User : /\ start_part(LocalParts, Parts, p) \in Net
                       /\ end_part(LocalParts, Parts, p) \in Nat
                       /\ end_part(LocalParts, Parts, p) <= Parts
                       /\ start_part(LocalParts, Parts, p)
                             < end_part(LocalParts, Parts, p)
<1>1. 0 \in User
  BY ParamAssumption DEF User
<1> QED
  BY <1>1, MapInRange, ParamAssumption, InRangeAssumption DEF User, Net

-----------------------------------------------------------------------------
(* The invariant holds initially and is preserved, one lemma per action.   *)

\* Nothing has happened yet.
LEMMA InitIInv == Init => IInv
<1> SUFFICES ASSUME Init PROVE IInv
  OBVIOUS
<1> USE DEF Init, ReqInit
<1>1. TypeOK
  BY ParamAssumption DEF TypeOK, ReqTypeOK, RequestState, Net, User
<1>2. Lifecycle /\ Arrays
  BY DEF Lifecycle, Arrays, SetUp
<1>3. ThreadsInv /\ Counting /\ Requests
  BY DEF ThreadsInv, WorkersIdle, Counting, Requests, Threads
<1> QED
  BY <1>1, <1>2, <1>3 DEF IInv

\* The init call of the side that knows the number of messages.
LEMMA Step_InitDirect ==
    ASSUME IInv, InitDirect, UNCHANGED sendvars
    PROVE  IInv'
<1> USE DEF InitDirect, sendvars, IInv, prep, internal_setup
<1>1. TypeOK'
  BY ParamAssumption DEF TypeOK, ReqTypeOK, RequestState, Net
<1>2. Lifecycle'
  BY DEF Lifecycle
<1>3. Arrays'
  BY DEF Lifecycle, Arrays, SetUp
<1>4. ThreadsInv'
  BY DEF Lifecycle, ThreadsInv, WorkersIdle, TypeOK, ReqTypeOK
<1>5. Counting'
  BY Geometry DEF Counting, Lifecycle, ThreadsInv, TypeOK, ReqTypeOK
<1>6. Requests'
  BY DEF Requests, Counting, Lifecycle, Arrays, SetUp, TypeOK, ReqTypeOK, Net
<1> QED
  BY <1>1, <1>2, <1>3, <1>4, <1>5, <1>6

\* The init call that creates the background thread.
LEMMA Step_InitSpawn ==
    ASSUME IInv, InitSpawn, UNCHANGED sendvars
    PROVE  IInv'
<1> USE DEF InitSpawn, sendvars, IInv, prep
<1>1. TypeOK'
  BY ParamAssumption DEF TypeOK, ReqTypeOK, RequestState, Net
<1>2. Lifecycle'
  BY DEF Lifecycle
<1>3. Arrays'
  BY DEF Lifecycle, Arrays, SetUp
<1>4. ThreadsInv'
  BY DEF Lifecycle, ThreadsInv, WorkersIdle, TypeOK, ReqTypeOK
<1>5. Counting'
  BY Geometry DEF Counting, Lifecycle, ThreadsInv, TypeOK, ReqTypeOK
<1>6. Requests'
  BY DEF Requests, Counting, Lifecycle, Arrays, SetUp, TypeOK, ReqTypeOK, Net
<1> QED
  BY <1>1, <1>2, <1>3, <1>4, <1>5, <1>6

\* RUNNING is stored while the request is still inactive.
LEMMA Step_InitStore ==
    ASSUME IInv, InitStore, UNCHANGED sendvars
    PROVE  IInv'
<1> USE DEF InitStore, sendvars, IInv
<1>1. TypeOK'
  BY ParamAssumption DEF TypeOK, ReqTypeOK, RequestState, Net
<1>2. Lifecycle'
  BY DEF Lifecycle
<1>3. Arrays'
  BY DEF Lifecycle, Arrays, SetUp
<1>4. ThreadsInv'
  BY DEF Lifecycle, ThreadsInv, WorkersIdle, TypeOK, ReqTypeOK
<1>5. Counting'
  BY Geometry DEF Counting, Lifecycle, ThreadsInv, TypeOK, ReqTypeOK
<1>6. Requests'
  BY DEF Requests, Counting, Lifecycle, Arrays, SetUp, TypeOK, ReqTypeOK, Net
<1> QED
  BY <1>1, <1>2, <1>3, <1>4, <1>5, <1>6

\* The numbers of the driving side arrive.
LEMMA Step_SyncSide ==
    ASSUME IInv, SyncSide, UNCHANGED sendvars
    PROVE  IInv'
<1> USE DEF SyncSide, sendvars, IInv, Learn
<1>1. TypeOK'
  BY ParamAssumption DEF TypeOK, ReqTypeOK, RequestState, Net
<1>2. Lifecycle'
  BY DEF Lifecycle
<1>3. Arrays'
  BY DEF Lifecycle, Arrays, SetUp
<1>4. ThreadsInv'
  BY DEF Lifecycle, ThreadsInv, WorkersIdle, TypeOK, ReqTypeOK
<1>5. Counting'
  BY Geometry DEF Counting, Lifecycle, ThreadsInv, TypeOK, ReqTypeOK
<1>6. Requests'
  BY DEF Requests, Counting, Lifecycle, Arrays, SetUp, TypeOK, ReqTypeOK, Net
<1> QED
  BY <1>1, <1>2, <1>3, <1>4, <1>5, <1>6

\* internal_setup in the background finds every counter at zero.
LEMMA Step_SyncSetup ==
    ASSUME IInv, SyncSetup, UNCHANGED sendvars
    PROVE  IInv'
<1> USE DEF SyncSetup, sendvars, IInv, internal_setup
<1>1. TypeOK'
  BY ParamAssumption DEF TypeOK, ReqTypeOK, RequestState, Net
<1>2. Lifecycle'
  BY DEF Lifecycle
<1>3. Arrays'
  BY DEF Lifecycle, Arrays, SetUp
<1>4. ThreadsInv'
  BY DEF Lifecycle, ThreadsInv, WorkersIdle, TypeOK, ReqTypeOK
<1>5. Counting'
  BY Geometry DEF Counting, Lifecycle, ThreadsInv, TypeOK, ReqTypeOK
<1>6. Requests'
  BY DEF Requests, Counting, Lifecycle, Arrays, SetUp, TypeOK, ReqTypeOK, Net
<1> QED
  BY <1>1, <1>2, <1>3, <1>4, <1>5, <1>6

\* The background thread finds the request inactive.
LEMMA Step_SyncNothing ==
    ASSUME IInv, SyncNothing, UNCHANGED sendvars
    PROVE  IInv'
<1> USE DEF SyncNothing, sendvars, IInv, MayLock
<1>1. TypeOK'
  BY ParamAssumption DEF TypeOK, ReqTypeOK, RequestState, Net
<1>2. Lifecycle'
  BY DEF Lifecycle
<1>3. Arrays'
  BY DEF Lifecycle, Arrays, SetUp
<1>4. ThreadsInv'
  BY DEF Lifecycle, ThreadsInv, WorkersIdle, TypeOK, ReqTypeOK
<1>5. Counting'
  BY Geometry DEF Counting, Lifecycle, ThreadsInv, TypeOK, ReqTypeOK
<1>6. Requests'
  BY DEF Requests, Counting, Lifecycle, Arrays, SetUp, TypeOK, ReqTypeOK, Net
<1> QED
  BY <1>1, <1>2, <1>3, <1>4, <1>5, <1>6

\* MPIP_Wait decides whether to join; every partition was marked before.
LEMMA Step_WaitRead ==
    ASSUME "early" \notin Windows, IInv, MayComplete, WaitRead,
           UNCHANGED sendvars
    PROVE  IInv'
<1> USE DEF WaitRead, sendvars, IInv, LockFree, MayComplete, EnterWait
<1>1. TypeOK'
  BY ParamAssumption DEF TypeOK, ReqTypeOK, RequestState, Net
<1>2. Lifecycle'
  BY DEF Lifecycle
<1>3. Arrays'
  BY DEF Lifecycle, Arrays, SetUp
<1>4. ThreadsInv'
  BY DEF Lifecycle, ThreadsInv, WorkersIdle, TypeOK, ReqTypeOK
<1>5. Counting'
  BY Geometry DEF Counting, Lifecycle, ThreadsInv, TypeOK, ReqTypeOK
<1>6. Requests'
  BY DEF Requests, Counting, Lifecycle, Arrays, SetUp, TypeOK, ReqTypeOK, Net
<1> QED
  BY <1>1, <1>2, <1>3, <1>4, <1>5, <1>6

\* pthread_join returns only when the background thread has returned.
LEMMA Step_WaitJoin ==
    ASSUME IInv, WaitJoin, UNCHANGED sendvars
    PROVE  IInv'
<1> USE DEF WaitJoin, sendvars, IInv
<1>1. TypeOK'
  BY ParamAssumption DEF TypeOK, ReqTypeOK, RequestState, Net
<1>2. Lifecycle'
  BY DEF Lifecycle
<1>3. Arrays'
  BY DEF Lifecycle, Arrays, SetUp
<1>4. ThreadsInv'
  BY DEF Lifecycle, ThreadsInv, WorkersIdle, TypeOK, ReqTypeOK
<1>5. Counting'
  BY Geometry DEF Counting, Lifecycle, ThreadsInv, TypeOK, ReqTypeOK
<1>6. Requests'
  BY DEF Requests, Counting, Lifecycle, Arrays, SetUp, TypeOK, ReqTypeOK, Net
<1> QED
  BY <1>1, <1>2, <1>3, <1>4, <1>5, <1>6

\* MPI_Waitall covers every message, so none stays in use.
LEMMA Step_WaitReturn ==
    ASSUME IInv, WaitReturn, UNCHANGED sendvars
    PROVE  IInv'
<1> USE DEF WaitReturn, sendvars, IInv, NoneActive, Waited, Consumed,
         Deactivate
<1>1. TypeOK'
  BY ParamAssumption DEF TypeOK, ReqTypeOK, RequestState, Net
<1>2. Lifecycle'
  BY DEF Lifecycle
<1>3. Arrays'
  BY DEF Lifecycle, Arrays, SetUp
<1>4. ThreadsInv'
  BY DEF Lifecycle, ThreadsInv, WorkersIdle, TypeOK, ReqTypeOK
<1>5. Counting'
  BY Geometry DEF Counting, Lifecycle, ThreadsInv, TypeOK, ReqTypeOK
<1>6. Requests'
  BY DEF Requests, Counting, Lifecycle, Arrays, SetUp, TypeOK, ReqTypeOK, Net
<1> QED
  BY <1>1, <1>2, <1>3, <1>4, <1>5, <1>6

\* A successful MPIP_Test, likewise.
LEMMA Step_MPIP_Test ==
    ASSUME "early" \notin Windows, IInv, MayComplete, MPIP_Test,
           UNCHANGED sendvars
    PROVE  IInv'
<1> USE DEF MPIP_Test, sendvars, IInv, NoneActive, Waited, Consumed, LockFree,
        MayComplete,
         Deactivate
<1>1. TypeOK'
  BY ParamAssumption DEF TypeOK, ReqTypeOK, RequestState, Net
<1>2. Lifecycle'
  BY DEF Lifecycle
<1>3. Arrays'
  BY DEF Lifecycle, Arrays, SetUp
<1>4. ThreadsInv'
  BY DEF Lifecycle, ThreadsInv, WorkersIdle, TypeOK, ReqTypeOK
<1>5. Counting'
  BY Geometry DEF Counting, Lifecycle, ThreadsInv, TypeOK, ReqTypeOK
<1>6. Requests'
  BY DEF Requests, Counting, Lifecycle, Arrays, SetUp, TypeOK, ReqTypeOK, Net
<1> QED
  BY <1>1, <1>2, <1>3, <1>4, <1>5, <1>6

\* The request is freed while no thread is inside a call.
LEMMA Step_MPIP_Request_free ==
    ASSUME IInv, WorkersIdle, MPIP_Request_free, UNCHANGED sendvars
    PROVE  IInv'
<1> USE DEF MPIP_Request_free, sendvars, IInv, Waited
<1>1. TypeOK'
  BY ParamAssumption DEF TypeOK, ReqTypeOK, RequestState, Net
<1>2. Lifecycle'
  BY DEF Lifecycle
<1>3. Arrays'
  BY DEF Lifecycle, Arrays, SetUp
<1>4. ThreadsInv'
  BY DEF Lifecycle, ThreadsInv, WorkersIdle, TypeOK, ReqTypeOK
<1>5. Counting'
  BY Geometry DEF Counting, Lifecycle, ThreadsInv, TypeOK, ReqTypeOK
<1>6. Requests'
  BY DEF Requests, Counting, Lifecycle, Arrays, SetUp, TypeOK, ReqTypeOK, Net
<1> QED
  BY <1>1, <1>2, <1>3, <1>4, <1>5, <1>6

\* MPI completes a message.
LEMMA Step_MPI_Complete ==
    ASSUME IInv, NEW i \in Net, MPI_Complete(i)
    PROVE  IInv'
<1> USE DEF IInv, MPI_Complete, sendvars
<1>1. TypeOK'
  BY ParamAssumption DEF TypeOK, ReqTypeOK, RequestState, Net
<1>2. Lifecycle'
  BY DEF Lifecycle
<1>3. Arrays'
  BY DEF Lifecycle, Arrays, SetUp
<1>4. ThreadsInv'
  BY DEF Lifecycle, ThreadsInv, WorkersIdle, TypeOK, ReqTypeOK
<1>5. Counting'
  BY Geometry DEF Counting, Lifecycle, ThreadsInv, TypeOK, ReqTypeOK
<1>6. Requests'
  BY DEF Requests, Counting, Lifecycle, Arrays, SetUp, TypeOK, ReqTypeOK, Net
<1> QED
  BY <1>1, <1>2, <1>3, <1>4, <1>5, <1>6

\* The catch-up begins: the request is active and threaded is RUNNING.
LEMMA Step_SyncCatchUp ==
    ASSUME IInv, SyncCatchUp
    PROVE  IInv'
<1> USE DEF IInv, SyncCatchUp, MayLock
<1>1. TypeOK'
  BY ParamAssumption DEF TypeOK, ReqTypeOK, RequestState, Net
<1>2. Lifecycle'
  BY DEF Lifecycle, TypeOK, ReqTypeOK
<1>3. Arrays'
  BY DEF Lifecycle, Arrays, SetUp
<1>4. ThreadsInv'
  BY DEF Lifecycle, ThreadsInv, WorkersIdle, TypeOK, ReqTypeOK
<1>5. Counting'
  BY Geometry DEF Counting, Lifecycle, ThreadsInv, TypeOK, ReqTypeOK
<1>6. Requests'
  BY DEF Requests, Counting, Lifecycle, Arrays, SetUp, TypeOK, ReqTypeOK, Net
<1> QED
  BY <1>1, <1>2, <1>3, <1>4, <1>5, <1>6

\* One turn of send_ready.
LEMMA Step_SyncScan ==
    ASSUME IInv, SyncScan
    PROVE  IInv'
<1> USE DEF IInv, SyncScan, Scan, EnterSend, reqvars
<1>s. parts = Parts /\ scan \in User
  BY ParamAssumption DEF Lifecycle, Arrays, SetUp, TypeOK, User
<1>1. TypeOK'
  BY <1>s, Geometry, ParamAssumption DEF TypeOK, ReqTypeOK, Threads, User
<1>2. Lifecycle'
  BY DEF Lifecycle
<1>3. Arrays'
  BY DEF Lifecycle, Arrays, SetUp
<1>4. ThreadsInv'
  BY ThreadAssumption DEF Lifecycle, ThreadsInv, WorkersIdle, TypeOK, Threads
<1>5. Counting'
  BY ThreadAssumption DEF Counting, TypeOK, Threads
<1>6. Requests'
  BY DEF Requests, Counting, Lifecycle, Arrays, SetUp, TypeOK, ReqTypeOK, Net
<1> QED
  BY <1>1, <1>2, <1>3, <1>4, <1>5, <1>6

\* The catch-up ends.
LEMMA Step_SyncFinish ==
    ASSUME IInv, SyncFinish
    PROVE  IInv'
<1> USE DEF IInv, SyncFinish, sendvars
<1>1. TypeOK'
  BY ParamAssumption DEF TypeOK, ReqTypeOK, RequestState, Net
<1>2. Lifecycle'
  BY DEF Lifecycle
<1>3. Arrays'
  BY DEF Lifecycle, Arrays, SetUp
<1>4. ThreadsInv'
  BY DEF Lifecycle, ThreadsInv, WorkersIdle, TypeOK, ReqTypeOK
<1>5. Counting'
  BY Geometry DEF Counting, Lifecycle, ThreadsInv, TypeOK, ReqTypeOK
<1>6. Requests'
  BY DEF Requests, Counting, Lifecycle, Arrays, SetUp, TypeOK, ReqTypeOK, Net
<1> QED
  BY <1>1, <1>2, <1>3, <1>4, <1>5, <1>6

\* An activation begins with every counter at zero, whether reset or not.
LEMMA Step_MPIP_Start ==
    ASSUME IInv, MPIP_Start
    PROVE  IInv'
<1> USE DEF IInv, MPIP_Start, StartLocked, reset_status, LockFree
<1>1. TypeOK'
  BY ParamAssumption DEF TypeOK, ReqTypeOK, RequestState, Net
<1>2. Lifecycle'
  BY DEF Lifecycle
<1>3. Arrays'
  BY DEF Lifecycle, Arrays, SetUp
<1>4. ThreadsInv'
  BY DEF Lifecycle, ThreadsInv, WorkersIdle, TypeOK, ReqTypeOK
<1>5. Counting'
  BY DEF Counting, Lifecycle, ThreadsInv, WorkersIdle, Threads
<1>6. Requests'
  BY DEF Requests, Counting, Lifecycle, Arrays, SetUp, TypeOK, ReqTypeOK, Net
<1> QED
  BY <1>1, <1>2, <1>3, <1>4, <1>5, <1>6

\* A Pready call is made.
LEMMA Step_MPIP_Pready_list ==
    ASSUME IInv, NEW w \in Workers, NEW S \in SUBSET User, MPIP_Pready_list(w,
           S)
    PROVE  IInv'
<1> USE DEF IInv, MPIP_Pready_list, reqvars, Unmarked
<1>1. TypeOK'
  BY ParamAssumption DEF TypeOK, ReqTypeOK, RequestState, Net
<1>2. Lifecycle'
  BY DEF Lifecycle
<1>3. Arrays'
  BY DEF Lifecycle, Arrays, SetUp
<1>4. ThreadsInv'
  BY DEF Lifecycle, ThreadsInv, WorkersIdle, TypeOK, ReqTypeOK
<1>5. Counting'
  BY Geometry DEF Counting, Lifecycle, ThreadsInv, TypeOK, ReqTypeOK
<1>6. Requests'
  BY DEF Requests, Counting, Lifecycle, Arrays, SetUp, TypeOK, ReqTypeOK, Net
<1> QED
  BY <1>1, <1>2, <1>3, <1>4, <1>5, <1>6

\* A partition is marked.
LEMMA Step_PreadyMark ==
    ASSUME IInv, NEW w \in Workers, PreadyMark(w)
    PROVE  IInv'
<1> USE DEF IInv, PreadyMark
<1>1. TypeOK'
  BY DEF TypeOK, ReqTypeOK, Threads
<1>2. Lifecycle'
  BY DEF Lifecycle
<1>3. Arrays'
  BY DEF Lifecycle, Arrays, SetUp
<1>4. ThreadsInv'
  BY ThreadAssumption DEF Lifecycle, ThreadsInv, WorkersIdle, TypeOK, Threads
<1>5. Counting'
  BY ThreadAssumption DEF Counting, TypeOK, Threads
<1>6. Requests'
  BY DEF Requests, Counting, Lifecycle, Arrays, SetUp, TypeOK, ReqTypeOK, Net
<1> QED
  BY <1>1, <1>2, <1>3, <1>4, <1>5, <1>6

\* A thread that finds threaded other than RUNNING finds the arrays.
LEMMA Step_PreadyRead ==
    ASSUME IInv, NEW w \in Workers, PreadyRead(w)
    PROVE  IInv'
<1> USE DEF IInv, PreadyRead, ReadThreaded, EnterSend, reqvars, LockFree
<1>s. threaded # "RUNNING" => parts = Parts
  BY DEF Lifecycle, Arrays, SetUp, ThreadsInv, WorkersIdle, TypeOK, ReqTypeOK
<1>1. TypeOK'
  BY <1>s, Geometry DEF TypeOK, ReqTypeOK, Threads
<1>2. Lifecycle'
  BY DEF Lifecycle
<1>3. Arrays'
  BY DEF Lifecycle, Arrays, SetUp
<1>4. ThreadsInv'
  BY ThreadAssumption DEF Lifecycle, ThreadsInv, WorkersIdle, TypeOK, Threads
<1>5. Counting'
  BY ThreadAssumption DEF Counting, TypeOK, Threads
<1>6. Requests'
  BY DEF Requests, Counting, Lifecycle, Arrays, SetUp, TypeOK, ReqTypeOK, Net
<1> QED
  BY <1>1, <1>2, <1>3, <1>4, <1>5, <1>6

\* Whoever counts a partition finds the arrays set up.
LEMMA Counter ==
    ASSUME IInv, NEW t \in Threads, pc[t] \in {"add", "start"}
    PROVE  /\ state = "ACTIVE" /\ main \notin {"none", "created", "freed"}
           /\ SetUp /\ parts = Parts
           /\ t = Sync => sync = "catchup"
           /\ t # Sync => threaded # "RUNNING" /\ main = "idle"
<1> USE DEF IInv
<1>1. CASE t = Sync
  BY <1>1, ThreadAssumption
     DEF ThreadsInv, Lifecycle, Arrays, SetUp, Threads, TypeOK, ReqTypeOK
<1>2. CASE t \in Workers
  BY <1>2, ThreadAssumption
     DEF ThreadsInv, WorkersIdle, Lifecycle, Arrays, SetUp, TypeOK, ReqTypeOK
<1> QED
  BY <1>1, <1>2 DEF Threads

\* The loop of general_send stays inside the arrays.
LEMMA NextMessageType ==
    ASSUME IInv, NEW t \in Threads, pc[t] \in {"add", "start"}, NextMessage(t)
    PROVE  /\ pc' \in [Threads -> {"idle", "marked", "add", "start"}]
           /\ next' \in [Threads -> Net]
           /\ pc'[t] \in {"add", "idle"}
           /\ \A u \in Threads \ {t} : pc'[u] = pc[u] /\ next'[u] = next[u]
<1> USE DEF IInv
<1>1. parts = Parts /\ part[t] \in User /\ next[t] \in Net
  BY Counter DEF TypeOK
<1>2. next[t] + 1 < end_part(LocalParts, parts, part[t]) => next[t] + 1 \in Net
  BY <1>1, Geometry, ParamAssumption DEF Net
<1> QED
  BY <1>2 DEF NextMessage, TypeOK

\* Only the increment that reaches the threshold leads to a start.
LEMMA Step_GeneralSendAdd ==
    ASSUME IInv, NEW t \in Threads, GeneralSendAdd(t)
    PROVE  IInv'
<1> USE DEF IInv, GeneralSendAdd, Count, CounterOf
<1>1. TypeOK'
  BY NextMessageType DEF TypeOK, ReqTypeOK
<1>2. Lifecycle'
  BY DEF Lifecycle
<1>3. Arrays'
  BY DEF Lifecycle, Arrays, SetUp
<1>4. ThreadsInv'
  BY Counter, NextMessageType, ThreadAssumption
     DEF Lifecycle, ThreadsInv, WorkersIdle, TypeOK, Threads
<1>5. Counting'
  <2> DEFINE i == next[t]
              T == Threshold(LocalParts, Parts)
  <2>1. /\ i \in Net /\ T \in Nat \ {0} /\ parts = Parts
        /\ internal_status' = [internal_status EXCEPT ![i] = @ + 1]
        /\ internal_status \in [Net -> Nat]
        /\ starts' = starts
    BY Geometry, Counter DEF TypeOK, ReqTypeOK
  <2> HIDE DEF T
  <2>2. CASE internal_status[i] + 1 = T
    <3>1. pc' = [pc EXCEPT ![t] = "start"] /\ next' = next
      BY <2>1, <2>2 DEF T
    <3>2. /\ starts[i] = 0
          /\ \A u \in Threads : pc[u] = "start" => next[u] # i
      BY <2>1, <2>2 DEF Counting, T
    <3> QED
      BY <2>1, <2>2, <3>1, <3>2 DEF Counting, TypeOK, T
  <2>3. CASE internal_status[i] + 1 # T
    <3>1. /\ pc'[t] # "start"
          /\ \A u \in Threads \ {t} : pc'[u] = pc[u] /\ next'[u] = next[u]
      BY <2>1, <2>3, NextMessageType DEF T
    <3> QED
      BY <2>1, <2>3, <3>1 DEF Counting, TypeOK, T
  <2> QED
    BY <2>2, <2>3
<1>6. Requests'
  BY DEF Requests, Counting, Lifecycle, Arrays, SetUp, TypeOK, ReqTypeOK, Net
<1> QED
  BY <1>1, <1>2, <1>3, <1>4, <1>5, <1>6

\* Only one thread starts the message, and once.
LEMMA Step_GeneralSendStart ==
    ASSUME IInv, NEW t \in Threads, GeneralSendStart(t)
    PROVE  IInv'
<1> USE DEF IInv, GeneralSendStart
<1>1. TypeOK'
  BY NextMessageType DEF TypeOK, ReqTypeOK, RequestState
<1>2. Lifecycle'
  BY DEF Lifecycle
<1>3. Arrays'
  BY DEF Lifecycle, Arrays, SetUp
<1>4. ThreadsInv'
  BY Counter, NextMessageType, ThreadAssumption
     DEF Lifecycle, ThreadsInv, WorkersIdle, TypeOK, Threads
<1>5. Counting'
  <2> DEFINE i == next[t]
  <2>1. /\ i \in Net /\ starts' = [starts EXCEPT ![i] = @ + 1]
        /\ internal_status' = internal_status
        /\ starts[i] = 0
        /\ internal_status[i] >= Threshold(LocalParts, Parts)
    BY DEF Counting, TypeOK
  <2>2. \A u \in Threads \ {t} : pc[u] = "start" => next[u] # i
    BY DEF Counting
  <2>3. /\ pc'[t] # "start"
        /\ \A u \in Threads \ {t} : pc'[u] = pc[u] /\ next'[u] = next[u]
    BY NextMessageType
  <2>4. internal_status \in [Net -> Nat] /\ Threshold(LocalParts, Parts) \in Nat
    BY Geometry DEF TypeOK, ReqTypeOK
  <2>5. \A j \in Net : starts'[j] = IF j = i THEN 1 ELSE starts[j]
    BY <2>1 DEF TypeOK
  <2>6. \A u \in Threads : pc'[u] = "start" => /\ pc[u] = "start"
                                               /\ next'[u] = next[u]
                                               /\ next[u] # i
    BY <2>2, <2>3
  <2>7. \A j \in Net : /\ starts'[j] <= 1
                       /\ internal_status'[j] < Threshold(LocalParts, Parts)
                             => starts'[j] = 0
    BY <2>1, <2>4, <2>5 DEF Counting
  <2>8. \A u \in Threads : pc'[u] = "start" =>
           /\ internal_status'[next'[u]] >= Threshold(LocalParts, Parts)
           /\ starts'[next'[u]] = 0
    BY <2>1, <2>5, <2>6 DEF Counting, TypeOK
  <2>9. \A u, v \in Threads : (pc'[u] = "start" /\ pc'[v] = "start"
                                  /\ next'[u] = next'[v]) => u = v
    BY <2>6 DEF Counting
  <2> QED
    BY <2>7, <2>8, <2>9 DEF Counting
<1>6. Requests'
  BY Counter DEF Requests, Counting, TypeOK, ReqTypeOK
<1> QED
  BY <1>1, <1>2, <1>3, <1>4, <1>5, <1>6

\* Every step of the specification preserves the invariant, as long as no
\* MPIP_Wait or MPIP_Test overlaps the marking of partitions.
LEMMA NextIInv ==
    ASSUME "early" \notin Windows, IInv, [Next]_vars
    PROVE  IInv'
<1>1. CASE Psend_init
  BY <1>1, Step_InitDirect, Step_InitSpawn, Step_InitStore DEF Psend_init
<1>2. CASE SyncStep
  BY <1>2, Step_SyncSide, Step_SyncSetup, Step_SyncNothing, Step_SyncCatchUp,
     Step_SyncScan, Step_SyncFinish DEF SyncStep, Negotiate
<1>3. CASE MPIP_Start
  BY <1>3, Step_MPIP_Start
<1>4. ASSUME NEW w \in Workers, NEW S \in SUBSET User, MPIP_Pready_list(w, S)
      PROVE  IInv'
  BY <1>4, Step_MPIP_Pready_list
<1>5. ASSUME NEW w \in Workers, NEW low \in User, NEW high \in User,
             MPIP_Pready_range(w, low, high)
      PROVE  IInv'
  <2>1. low..high \in SUBSET User
    BY ParamAssumption DEF User
  <2> QED
    BY <1>5, <2>1, Step_MPIP_Pready_list DEF MPIP_Pready_range
<1>6. ASSUME NEW w \in Workers, PreadyMark(w) \/ PreadyRead(w)
      PROVE  IInv'
  BY <1>6, Step_PreadyMark, Step_PreadyRead
<1>7. ASSUME NEW t \in Threads, GeneralSendAdd(t) \/ GeneralSendStart(t)
      PROVE  IInv'
  BY <1>7, Step_GeneralSendAdd, Step_GeneralSendStart
<1>8. ASSUME NEW i \in Net, MPI_Complete(i)
      PROVE  IInv'
  BY <1>8, Step_MPI_Complete
<1>9. CASE MPIP_Wait \/ Join \/ Waitall \/ Test
  BY <1>9, Step_WaitRead, Step_WaitJoin, Step_WaitReturn, Step_MPIP_Test
     DEF MPIP_Wait, Join, Waitall, Test
<1>10. CASE Request_free
  BY <1>10, Step_MPIP_Request_free DEF Request_free
<1>11. CASE UNCHANGED vars
  BY <1>11 DEF vars, reqvars, sendvars, IInv, TypeOK, ReqTypeOK, Lifecycle,
     Arrays, SetUp, ThreadsInv, WorkersIdle, Counting, Requests
<1> QED
  BY <1>1, <1>2, <1>3, <1>4, <1>5, <1>6, <1>7, <1>8, <1>9, <1>10, <1>11
     DEF Next, Done

\* The inductive invariant holds in every reachable state.
THEOREM Invariance == ASSUME "early" \notin Windows PROVE Spec => []IInv
<1>1. IInv /\ [Next]_vars => IInv'
  BY NextIInv
<1> QED
  BY <1>1, InitIInv, PTL DEF Spec

-----------------------------------------------------------------------------
(* What follows.                                                           *)

\* Type correctness: in particular the loop index of general_send, which the
\* code never checks, stays inside request[] and internal_status[].
THEOREM TypeCorrect == ASSUME "early" \notin Windows PROVE Spec => []TypeOK
<1>1. IInv => TypeOK
  BY DEF IInv
<1> QED
  BY <1>1, Invariance, PTL

\* However many threads count, each message is started at most once in an
\* activation, on an MPI request that is allocated and inactive.
THEOREM StartsOnce == ASSUME "early" \notin Windows PROVE Spec => []StartedOnce
<1>1. IInv => StartedOnce
  <2> SUFFICES ASSUME IInv PROVE StartedOnce
    OBVIOUS
  <2>1. ASSUME NEW t \in Threads, pc[t] = "start"
        PROVE  starts[next[t]] = 0 /\ request[next[t]] = "inactive"
    <3>1. starts[next[t]] = 0 /\ next[t] \in Net
      BY <2>1 DEF IInv, Counting, TypeOK
    <3>2. request[next[t]] # "null"
      BY <2>1, <3>1, Counter DEF IInv, Arrays
    <3>3. request[next[t]] \in RequestState
      BY <3>1 DEF IInv, TypeOK, ReqTypeOK
    <3> QED
      BY <3>1, <3>2, <3>3 DEF IInv, Requests, RequestState
  <2> QED
    BY <2>1 DEF IInv, Counting, StartedOnce
<1> QED
  BY <1>1, Invariance, PTL

\* No counting thread ever sees request[] before internal_setup has filled it
\* in, or after MPIP_Request_free.
THEOREM ArraysSeen ==
    ASSUME "early" \notin Windows
    PROVE  Spec => []SendSeesArrays
<1>1. IInv => SendSeesArrays
  <2> SUFFICES ASSUME IInv, NEW t \in Threads, pc[t] \in {"add", "start"}
               PROVE  parts = Parts /\ \A i \in Net : request[i] # "null"
    BY DEF SendSeesArrays
  <2> QED
    BY Counter DEF IInv, Arrays
<1> QED
  BY <1>1, Invariance, PTL

\* MPI_Waitall is given initialised requests, as many as were negotiated.
THEOREM WaitsSeeArrays ==
    ASSUME "early" \notin Windows
    PROVE  Spec => []WaitSeesArrays
<1>1. IInv => WaitSeesArrays
  BY DEF IInv, Lifecycle, Arrays, SetUp, WaitSeesArrays
<1> QED
  BY <1>1, Invariance, PTL

\* A request that was started and completed before it is freed leaves neither
\* its background thread nor an MPI request behind.
THEOREM FreeIsQuiet ==
    ASSUME "early" \notin Windows
    PROVE  Spec => []FreedMeansQuiet
<1>1. Init => FreedMeansQuiet
  BY DEF Init, ReqInit, FreedMeansQuiet
<1>2. ASSUME IInv, FreedMeansQuiet, Request_free PROVE FreedMeansQuiet'
  <2> SUFFICES ASSUME round > 0
               PROVE  /\ sync' \in {"none", "done"}
                      /\ \A i \in Net : request'[i] = "null"
    BY <1>2 DEF FreedMeansQuiet, Request_free, MPIP_Request_free
  <2>1. sync \in {"none", "done"}
    BY <1>2 DEF Request_free, MPIP_Request_free, IInv, Lifecycle
  <2>2. parts = Parts
    BY <2>1, <1>2 DEF Request_free, MPIP_Request_free, IInv, Lifecycle, Arrays,
       SetUp
  <2> QED
    BY <1>2, <2>1, <2>2 DEF Request_free, MPIP_Request_free, Waited, Net
<1>3. ASSUME IInv, FreedMeansQuiet, [Next]_vars, ~Request_free
      PROVE  FreedMeansQuiet'
  <2>1. CASE main # "freed"
    <3>1. main' # "freed"
      BY <2>1, <1>3 DEF Next, vars, reqvars, sendvars, Psend_init, InitDirect,
         InitSpawn, InitStore, SyncStep, Negotiate, SyncSide, SyncSetup,
         SyncNothing, SyncCatchUp, SyncScan, SyncFinish, MPIP_Start,
         StartLocked, MPIP_Pready_list, MPIP_Pready_range, PreadyMark,
         PreadyRead, GeneralSendAdd, GeneralSendStart, MPI_Complete, MPIP_Wait,
         WaitRead, Join, WaitJoin, Waitall, WaitReturn, Test, MPIP_Test, Done,
         Deactivate, EnterWait, Learn, Count, CounterOf, Scan,
         ReadThreaded
    <3> QED
      BY <3>1 DEF FreedMeansQuiet
  <2>2. CASE main = "freed"
    <3>1. round' = round
      BY <2>2, <1>3 DEF Next, vars, reqvars, sendvars, Psend_init, InitDirect,
         InitSpawn, InitStore, SyncStep, Negotiate, SyncSide, SyncSetup,
         SyncNothing, SyncCatchUp, SyncScan, SyncFinish, MPIP_Start,
         StartLocked, MPIP_Pready_list, MPIP_Pready_range, PreadyMark,
         PreadyRead, GeneralSendAdd, GeneralSendStart, MPI_Complete, MPIP_Wait,
         WaitRead, Join, WaitJoin, Waitall, WaitReturn, Test, MPIP_Test, Done,
         Deactivate, EnterWait, Learn, Count, CounterOf, Scan,
         ReadThreaded
    <3> SUFFICES ASSUME round > 0 PROVE FreedMeansQuiet'
      BY <3>1 DEF FreedMeansQuiet
    <3>2. /\ sync \in {"none", "done"} /\ \A i \in Net : request[i] = "null"
          /\ state = "INACTIVE" /\ \A t \in Threads : pc[t] = "idle"
      BY <2>2, <1>3 DEF FreedMeansQuiet, IInv, Lifecycle, ThreadsInv,
         WorkersIdle, Threads
    <3>3. UNCHANGED <<sync, request>>
      BY <2>2, <3>2, <1>3 DEF Next, vars, reqvars, sendvars, Psend_init,
         InitDirect, InitSpawn, InitStore, SyncStep, Negotiate, SyncSide,
         SyncSetup, SyncNothing, MayLock, SyncCatchUp, SyncScan, SyncFinish,
         MPIP_Start, StartLocked, MPIP_Pready_list, MPIP_Pready_range,
         PreadyMark, PreadyRead, GeneralSendAdd, GeneralSendStart,
         MPI_Complete, MPIP_Wait, WaitRead, Join, WaitJoin, Waitall,
         WaitReturn, Test, MPIP_Test, Done,
         Deactivate, EnterWait, Learn, Count, CounterOf, Scan,
         ReadThreaded
    <3> QED
      BY <3>2, <3>3 DEF FreedMeansQuiet
  <2> QED
    BY <2>1, <2>2
<1>4. IInv /\ FreedMeansQuiet /\ [Next]_vars => FreedMeansQuiet'
  BY <1>2, <1>3
<1> QED
  BY <1>1, <1>4, Invariance, PTL DEF Spec
=============================================================================
