------------------------- MODULE RecvRequestProofs --------------------------
(***************************************************************************)
(* Proofs about the receive side, for every number of polling threads,     *)
(* partitions, messages and activations, with every window of MPIPRequest  *)
(* open unless a theorem says otherwise.                                   *)
(***************************************************************************)
EXTENDS RecvRequest, PartitionMapProofs

-----------------------------------------------------------------------------
(* The inductive invariant.                                                *)

\* internal_setup has run.
SetUp == IF Negotiated THEN sync \in {"lock", "done"} ELSE main # "none"

\* How far the main thread and the background thread are relative to each
\* other.  Once the init call has returned, a threaded field that is not
\* RUNNING means that the background thread has returned; the converse fails
\* when the thread outruns its creator.
Lifecycle ==
    /\ sync # "catchup"
    /\ main \in {"none", "created"} => state = "INACTIVE" /\ round = 0
    /\ main = "freed" => state = "INACTIVE"
    /\ sync = "none" <=> (~Negotiated \/ main = "none")
    /\ main = "created" => Negotiated
    /\ threaded = "RUNNING" => Negotiated /\ main \notin {"none", "created"}
    /\ (threaded # "RUNNING" /\ main \notin {"none", "created"})
          => sync \in {"none", "done"}
    /\ main = "waitall" => sync \in {"none", "done"}
    /\ (round > 0 /\ state = "INACTIVE") => sync \in {"none", "done"}
    /\ state = "ACTIVE" => round > 0

\* When the arrays exist, and how many messages there are.
Arrays ==
    /\ SetUp \/ sync = "setup" => parts = Parts
    /\ SetUp /\ main # "freed" => \A i \in Net : request[i] # "null"
    /\ main = "freed" /\ round > 0 => \A i \in Net : request[i] = "null"

\* Whoever finds the negotiation over finds the receives posted, and nobody
\* posts before the background thread does.
Posting ==
    /\ \A i \in Net : starts[i] \in {0, 1}
    /\ (sync \in {"recv", "setup", "lock"} \/ round = 0)
          => \A i \in Net : starts[i] = 0
    /\ (round > 0 /\ threaded # "RUNNING") => \A i \in Net : starts[i] = 1

\* An MPI request that was posted and is no longer active has its data: this
\* is what a positive MPI_Testall or MPI_Waitall stands on, although an
\* inactive request counts as complete as well.
Receipts ==
    \A i \in Net :
        /\ i \in delivered <=> starts[i] = 1 /\ request[i] # "active"
        /\ request[i] = "active" => starts[i] = 1 /\ state = "ACTIVE"

\* A poll runs on a started request, and looks at it only once it is set up.
Polls ==
    \A w \in Workers :
        /\ pc[w] # "idle" => round > 0 /\ main # "freed"
        /\ pc[w] \in {"check", "testall", "store"} => threaded # "RUNNING"

IInv == TypeOK /\ Lifecycle /\ Arrays /\ Posting /\ Receipts /\ Polls

-----------------------------------------------------------------------------
(* What the answers rest on.                                               *)

\* No flag that nobody stored is ever tested.
CleanFlags == ~Negotiated \/ HeapGarbage = {}

\* The messages of partition p.
Behind(p) == MessagesOf(LocalParts, Parts, p)

\* Flags that are cached or about to be cached, and answers given, are backed
\* by messages of this activation.
Cached ==
    /\ threaded = "RUNNING" \/ main = "created" => local_status = {}
    /\ round > 0 => \A p \in local_status : Behind(p) \subseteq delivered

Answers ==
    \A w \in Workers :
        /\ threaded = "RUNNING" \/ round = 0 => answered[w] = {}
        /\ \A p \in answered[w] : Behind(p) \subseteq delivered
        /\ pc[w] = "store" /\ flag[w] => Behind(part[w]) \subseteq delivered
        /\ pc[w] = "store" /\ part[w] \in answered[w] => flag[w]

AInv == Cached /\ Answers



-----------------------------------------------------------------------------
(* The invariant is preserved, one lemma per action.                       *)

\* The partition map of a request stays inside its arrays.
LEMMA BehindInNet == \A p \in User : Behind(p) \subseteq Net
<1> SUFFICES ASSUME NEW p \in User PROVE Behind(p) \subseteq Net
  OBVIOUS
<1>p. p \in 0..(LocalParts - 1)
  BY DEF User
<1>1. /\ start_part(LocalParts, Parts, p) \in 0..(Parts - 1)
      /\ end_part(LocalParts, Parts, p) \in Nat
      /\ end_part(LocalParts, Parts, p) <= Parts
  BY <1>p, MapInRange, ParamAssumption, InRangeAssumption
<1> QED
  BY <1>1, ParamAssumption DEF Net, Behind, MessagesOf

\* Nothing has happened yet.
LEMMA InitIInv == Init => IInv
<1> SUFFICES ASSUME Init PROVE IInv
  OBVIOUS
<1> USE DEF Init, ReqInit
<1>1. TypeOK
  BY ParamAssumption DEF TypeOK, ReqTypeOK, RequestState, Net, User
<1>2. Lifecycle /\ Arrays
  BY DEF Lifecycle, Arrays, SetUp
<1>3. Posting /\ Receipts /\ Polls
  BY DEF Posting, Receipts, Polls
<1> QED
  BY <1>1, <1>2, <1>3 DEF IInv

\* The init call of the side that knows the number of messages.
LEMMA Step_InitDirect ==
    ASSUME IInv, InitDirect, UNCHANGED recvvars
    PROVE  IInv'
<1> USE DEF IInv, InitDirect, prep, internal_setup, recvvars
<1>1. TypeOK'
  BY ParamAssumption DEF TypeOK, ReqTypeOK, RequestState, Net
<1>2. Lifecycle'
  BY DEF Lifecycle, TypeOK, ReqTypeOK
<1>3. Arrays'
  BY DEF Lifecycle, Arrays, SetUp, TypeOK, ReqTypeOK
<1>4. Posting'
  BY DEF Lifecycle, Posting, TypeOK, ReqTypeOK
<1>5. Receipts'
  BY DEF Lifecycle, Posting, Receipts, TypeOK, ReqTypeOK
<1>6. Polls'
  BY DEF Lifecycle, Polls, TypeOK, ReqTypeOK
<1> QED
  BY <1>1, <1>2, <1>3, <1>4, <1>5, <1>6

\* The init call that creates the background thread.
LEMMA Step_InitSpawn ==
    ASSUME IInv, InitSpawn, UNCHANGED recvvars
    PROVE  IInv'
<1> USE DEF IInv, InitSpawn, prep, recvvars
<1>1. TypeOK'
  BY ParamAssumption DEF TypeOK, ReqTypeOK, RequestState, Net
<1>2. Lifecycle'
  BY DEF Lifecycle, TypeOK, ReqTypeOK
<1>3. Arrays'
  BY DEF Lifecycle, Arrays, SetUp, TypeOK, ReqTypeOK
<1>4. Posting'
  BY DEF Lifecycle, Posting, TypeOK, ReqTypeOK
<1>5. Receipts'
  BY DEF Lifecycle, Posting, Receipts, TypeOK, ReqTypeOK
<1>6. Polls'
  BY DEF Lifecycle, Polls, TypeOK, ReqTypeOK
<1> QED
  BY <1>1, <1>2, <1>3, <1>4, <1>5, <1>6

\* RUNNING is stored, be the thread still running or not.
LEMMA Step_InitStore ==
    ASSUME IInv, InitStore, UNCHANGED recvvars
    PROVE  IInv'
<1> USE DEF IInv, InitStore, recvvars
<1>1. TypeOK'
  BY ParamAssumption DEF TypeOK, ReqTypeOK, RequestState, Net
<1>2. Lifecycle'
  BY DEF Lifecycle, TypeOK, ReqTypeOK
<1>3. Arrays'
  BY DEF Lifecycle, Arrays, SetUp, TypeOK, ReqTypeOK
<1>4. Posting'
  BY DEF Lifecycle, Posting, TypeOK, ReqTypeOK
<1>5. Receipts'
  BY DEF Lifecycle, Posting, Receipts, TypeOK, ReqTypeOK
<1>6. Polls'
  BY DEF Lifecycle, Polls, TypeOK, ReqTypeOK
<1> QED
  BY <1>1, <1>2, <1>3, <1>4, <1>5, <1>6

\* The numbers of the driving side arrive.
LEMMA Step_SyncSide ==
    ASSUME IInv, SyncSide, UNCHANGED recvvars
    PROVE  IInv'
<1> USE DEF IInv, SyncSide, Learn, recvvars
<1>1. TypeOK'
  BY ParamAssumption DEF TypeOK, ReqTypeOK, RequestState, Net
<1>2. Lifecycle'
  BY DEF Lifecycle, TypeOK, ReqTypeOK
<1>3. Arrays'
  BY DEF Lifecycle, Arrays, SetUp, TypeOK, ReqTypeOK
<1>4. Posting'
  BY DEF Lifecycle, Posting, TypeOK, ReqTypeOK
<1>5. Receipts'
  BY DEF Lifecycle, Posting, Receipts, TypeOK, ReqTypeOK
<1>6. Polls'
  BY DEF Lifecycle, Polls, TypeOK, ReqTypeOK
<1> QED
  BY <1>1, <1>2, <1>3, <1>4, <1>5, <1>6

\* internal_setup in the background: nothing is posted yet.
LEMMA Step_SyncSetup ==
    ASSUME IInv, SyncSetup, UNCHANGED recvvars
    PROVE  IInv'
<1> USE DEF IInv, SyncSetup, internal_setup, recvvars
<1>1. TypeOK'
  BY ParamAssumption DEF TypeOK, ReqTypeOK, RequestState, Net
<1>2. Lifecycle'
  BY DEF Lifecycle, TypeOK, ReqTypeOK
<1>3. Arrays'
  BY DEF Lifecycle, Arrays, SetUp, TypeOK, ReqTypeOK
<1>4. Posting'
  BY DEF Lifecycle, Posting, TypeOK, ReqTypeOK
<1>5. Receipts'
  BY DEF Lifecycle, Posting, Receipts, TypeOK, ReqTypeOK
<1>6. Polls'
  BY DEF Lifecycle, Polls, TypeOK, ReqTypeOK
<1> QED
  BY <1>1, <1>2, <1>3, <1>4, <1>5, <1>6

\* The background thread finds the request inactive.
LEMMA Step_SyncNothing ==
    ASSUME IInv, SyncNothing, UNCHANGED recvvars
    PROVE  IInv'
<1> USE DEF IInv, SyncNothing, MayLock, recvvars
<1>1. TypeOK'
  BY ParamAssumption DEF TypeOK, ReqTypeOK, RequestState, Net
<1>2. Lifecycle'
  BY DEF Lifecycle, TypeOK, ReqTypeOK
<1>3. Arrays'
  BY DEF Lifecycle, Arrays, SetUp, TypeOK, ReqTypeOK
<1>4. Posting'
  BY DEF Lifecycle, Posting, TypeOK, ReqTypeOK
<1>5. Receipts'
  BY DEF Lifecycle, Posting, Receipts, TypeOK, ReqTypeOK
<1>6. Polls'
  BY DEF Lifecycle, Polls, TypeOK, ReqTypeOK
<1> QED
  BY <1>1, <1>2, <1>3, <1>4, <1>5, <1>6

\* The background thread posts the receives of the first activation.
LEMMA Step_SyncCatchUp ==
    ASSUME IInv, SyncCatchUp
    PROVE  IInv'
<1> USE DEF IInv, SyncCatchUp, MayLock, Startall
<1>w. Waited = Net
  BY DEF Waited, Net, Lifecycle, Arrays, SetUp
<1>1. TypeOK'
  BY <1>w, ParamAssumption DEF TypeOK, ReqTypeOK, RequestState, Net
<1>2. Lifecycle'
  BY DEF Lifecycle, TypeOK, ReqTypeOK
<1>3. Arrays'
  BY <1>w DEF Lifecycle, Arrays, SetUp, TypeOK, ReqTypeOK
<1>4. Posting'
  BY <1>w DEF Lifecycle, Posting, TypeOK, ReqTypeOK
<1>5. Receipts'
  BY <1>w DEF Lifecycle, Posting, Receipts, TypeOK, ReqTypeOK
<1>6. Polls'
  BY DEF Lifecycle, Polls, TypeOK, ReqTypeOK
<1> QED
  BY <1>1, <1>2, <1>3, <1>4, <1>5, <1>6

\* A new activation; the receives are posted if the negotiation is over.
LEMMA Step_MPIP_Start ==
    ASSUME IInv, MPIP_Start
    PROVE  IInv'
<1> USE DEF IInv, MPIP_Start, Activate, StartLocked, Startall, reset_status
<1>w. threaded # "RUNNING" => Waited = Net
  BY DEF Waited, Net, Lifecycle, Arrays, SetUp
<1>1. TypeOK'
  <2>1. round' \in 0..MaxRounds
    BY ParamAssumption DEF TypeOK, ReqTypeOK
  <2>2. request' \in [Net -> RequestState] /\ starts' \in [Net -> Nat]
    BY DEF TypeOK, ReqTypeOK, RequestState
  <2>3. internal_status' \in [Net -> Nat] /\ local_status' \in SUBSET User
    BY DEF TypeOK, ReqTypeOK
  <2> QED
    BY <2>1, <2>2, <2>3 DEF TypeOK, ReqTypeOK
<1>2. Lifecycle'
  BY DEF Lifecycle, TypeOK, ReqTypeOK
<1>3. Arrays'
  BY <1>w DEF Lifecycle, Arrays, SetUp, TypeOK, ReqTypeOK
<1>4. Posting'
  BY <1>w DEF Lifecycle, Posting, TypeOK, ReqTypeOK
<1>5. Receipts'
  BY <1>w DEF Lifecycle, Posting, Receipts, TypeOK, ReqTypeOK
<1>6. Polls'
  BY DEF Lifecycle, Polls, TypeOK, ReqTypeOK, WorkersIdle
<1> QED
  BY <1>1, <1>2, <1>3, <1>4, <1>5, <1>6

\* A poll begins.
LEMMA Step_MPIP_Parrived ==
    ASSUME IInv, NEW w \in Workers, NEW p \in User, MPIP_Parrived(w, p)
    PROVE  IInv'
<1> USE DEF IInv, MPIP_Parrived, reqvars
<1>1. TypeOK'
  BY ParamAssumption DEF TypeOK, ReqTypeOK, RequestState, Net
<1>2. Lifecycle'
  BY DEF Lifecycle, TypeOK, ReqTypeOK
<1>3. Arrays'
  BY DEF Lifecycle, Arrays, SetUp, TypeOK, ReqTypeOK
<1>4. Posting'
  BY DEF Lifecycle, Posting, TypeOK, ReqTypeOK
<1>5. Receipts'
  BY DEF Lifecycle, Posting, Receipts, TypeOK, ReqTypeOK
<1>6. Polls'
  BY DEF Lifecycle, Polls, TypeOK, ReqTypeOK
<1> QED
  BY <1>1, <1>2, <1>3, <1>4, <1>5, <1>6

\* The poll asks whether the negotiation is over.
LEMMA Step_ParrivedRead ==
    ASSUME IInv, NEW w \in Workers, ParrivedRead(w)
    PROVE  IInv'
<1> USE DEF IInv, ParrivedRead, ReadThreaded, Return, reqvars
<1>1. TypeOK'
  BY ParamAssumption DEF TypeOK, ReqTypeOK, RequestState, Net
<1>2. Lifecycle'
  BY DEF Lifecycle, TypeOK, ReqTypeOK
<1>3. Arrays'
  BY DEF Lifecycle, Arrays, SetUp, TypeOK, ReqTypeOK
<1>4. Posting'
  BY DEF Lifecycle, Posting, TypeOK, ReqTypeOK
<1>5. Receipts'
  BY DEF Lifecycle, Posting, Receipts, TypeOK, ReqTypeOK
<1>6. Polls'
  BY DEF Lifecycle, Polls, TypeOK, ReqTypeOK
<1> QED
  BY <1>1, <1>2, <1>3, <1>4, <1>5, <1>6

\* The poll looks at the cached flag.
LEMMA Step_ParrivedCheck ==
    ASSUME IInv, NEW w \in Workers, ParrivedCheck(w)
    PROVE  IInv'
<1> USE DEF IInv, ParrivedCheck, Return, reqvars
<1>t. /\ part[w] \in User /\ answered[w] \in SUBSET User
      /\ answered[w] \union {part[w]} \in SUBSET User
  BY DEF TypeOK
<1>1. TypeOK'
  BY <1>t, ParamAssumption DEF TypeOK, ReqTypeOK, RequestState, Net
<1>2. Lifecycle'
  BY DEF Lifecycle, TypeOK, ReqTypeOK
<1>3. Arrays'
  BY DEF Lifecycle, Arrays, SetUp, TypeOK, ReqTypeOK
<1>4. Posting'
  BY DEF Lifecycle, Posting, TypeOK, ReqTypeOK
<1>5. Receipts'
  BY DEF Lifecycle, Posting, Receipts, TypeOK, ReqTypeOK
<1>6. Polls'
  BY DEF Lifecycle, Polls, TypeOK, ReqTypeOK
<1> QED
  BY <1>1, <1>2, <1>3, <1>4, <1>5, <1>6

\* The poll consumes messages only when none of them is active.
LEMMA Step_ParrivedTestall ==
    ASSUME IInv, NEW w \in Workers, ParrivedTestall(w)
    PROVE  IInv'
<1> USE DEF IInv, ParrivedTestall, Testall, NoneActive, Consumed
<1>w. Tested(part[w]) = Behind(part[w]) /\ pc[w] # "idle"
  BY DEF Polls, Lifecycle, Arrays, SetUp, Tested, Behind
<1>n. Behind(part[w]) \subseteq Net
  BY BehindInNet DEF TypeOK
<1>1. TypeOK'
  BY ParamAssumption DEF TypeOK, ReqTypeOK, RequestState, Net
<1>2. Lifecycle'
  BY DEF Lifecycle, TypeOK, ReqTypeOK
<1>3. Arrays'
  BY <1>w DEF Lifecycle, Arrays, SetUp, Polls, TypeOK, ReqTypeOK
<1>4. Posting'
  BY DEF Lifecycle, Posting, TypeOK, ReqTypeOK
<1>5. Receipts'
  BY <1>w, <1>n DEF Receipts, TypeOK, ReqTypeOK
<1>6. Polls'
  BY DEF Lifecycle, Polls, TypeOK, ReqTypeOK
<1> QED
  BY <1>1, <1>2, <1>3, <1>4, <1>5, <1>6

\* The poll caches its flag and returns it.
LEMMA Step_ParrivedStore ==
    ASSUME IInv, NEW w \in Workers, ParrivedStore(w)
    PROVE  IInv'
<1> USE DEF IInv, ParrivedStore, Return
<1>1. TypeOK'
  BY ParamAssumption DEF TypeOK, ReqTypeOK, RequestState, Net
<1>2. Lifecycle'
  BY DEF Lifecycle, TypeOK, ReqTypeOK
<1>3. Arrays'
  BY DEF Lifecycle, Arrays, SetUp, TypeOK, ReqTypeOK
<1>4. Posting'
  BY DEF Lifecycle, Posting, TypeOK, ReqTypeOK
<1>5. Receipts'
  BY DEF Lifecycle, Posting, Receipts, TypeOK, ReqTypeOK
<1>6. Polls'
  BY DEF Lifecycle, Polls, TypeOK, ReqTypeOK
<1> QED
  BY <1>1, <1>2, <1>3, <1>4, <1>5, <1>6

\* MPIP_Wait decides whether to join.
LEMMA Step_WaitRead ==
    ASSUME IInv, WaitRead, UNCHANGED recvvars
    PROVE  IInv'
<1> USE DEF IInv, WaitRead, EnterWait, recvvars
<1>1. TypeOK'
  BY ParamAssumption DEF TypeOK, ReqTypeOK, RequestState, Net
<1>2. Lifecycle'
  BY DEF Lifecycle, TypeOK, ReqTypeOK
<1>3. Arrays'
  BY DEF Lifecycle, Arrays, SetUp, TypeOK, ReqTypeOK
<1>4. Posting'
  BY DEF Lifecycle, Posting, TypeOK, ReqTypeOK
<1>5. Receipts'
  BY DEF Lifecycle, Posting, Receipts, TypeOK, ReqTypeOK
<1>6. Polls'
  BY DEF Lifecycle, Polls, TypeOK, ReqTypeOK
<1> QED
  BY <1>1, <1>2, <1>3, <1>4, <1>5, <1>6

\* pthread_join returns.
LEMMA Step_WaitJoin ==
    ASSUME IInv, WaitJoin, UNCHANGED recvvars
    PROVE  IInv'
<1> USE DEF IInv, WaitJoin, recvvars
<1>1. TypeOK'
  BY ParamAssumption DEF TypeOK, ReqTypeOK, RequestState, Net
<1>2. Lifecycle'
  BY DEF Lifecycle, TypeOK, ReqTypeOK
<1>3. Arrays'
  BY DEF Lifecycle, Arrays, SetUp, TypeOK, ReqTypeOK
<1>4. Posting'
  BY DEF Lifecycle, Posting, TypeOK, ReqTypeOK
<1>5. Receipts'
  BY DEF Lifecycle, Posting, Receipts, TypeOK, ReqTypeOK
<1>6. Polls'
  BY DEF Lifecycle, Polls, TypeOK, ReqTypeOK
<1> QED
  BY <1>1, <1>2, <1>3, <1>4, <1>5, <1>6

\* MPI_Waitall covers every message.
LEMMA Step_WaitReturn ==
    ASSUME IInv, WaitReturn, UNCHANGED recvvars
    PROVE  IInv'
<1> USE DEF IInv, WaitReturn, Deactivate, NoneActive, Consumed, recvvars
<1>w. Waited = Net
  BY DEF Waited, Net, Lifecycle, Arrays, SetUp
<1>1. TypeOK'
  BY ParamAssumption DEF TypeOK, ReqTypeOK, RequestState, Net
<1>2. Lifecycle'
  BY DEF Lifecycle, TypeOK, ReqTypeOK
<1>3. Arrays'
  BY <1>w DEF Lifecycle, Arrays, SetUp, TypeOK, ReqTypeOK
<1>4. Posting'
  BY DEF Lifecycle, Posting, TypeOK, ReqTypeOK
<1>5. Receipts'
  BY <1>w DEF Lifecycle, Posting, Receipts, TypeOK, ReqTypeOK
<1>6. Polls'
  BY DEF Lifecycle, Polls, TypeOK, ReqTypeOK
<1> QED
  BY <1>1, <1>2, <1>3, <1>4, <1>5, <1>6

\* A successful MPIP_Test, likewise, beside polls that are under way.
LEMMA Step_MPIP_Test ==
    ASSUME IInv, MPIP_Test, UNCHANGED recvvars
    PROVE  IInv'
<1> USE DEF IInv, MPIP_Test, Deactivate, NoneActive, Consumed, recvvars
<1>w. Waited = Net
  BY DEF Waited, Net, Lifecycle, Arrays, SetUp
<1>1. TypeOK'
  BY ParamAssumption DEF TypeOK, ReqTypeOK, RequestState, Net
<1>2. Lifecycle'
  BY DEF Lifecycle, TypeOK, ReqTypeOK
<1>3. Arrays'
  BY <1>w DEF Lifecycle, Arrays, SetUp, TypeOK, ReqTypeOK
<1>4. Posting'
  BY DEF Lifecycle, Posting, TypeOK, ReqTypeOK
<1>5. Receipts'
  BY <1>w DEF Lifecycle, Posting, Receipts, TypeOK, ReqTypeOK
<1>6. Polls'
  BY DEF Lifecycle, Polls, TypeOK, ReqTypeOK
<1> QED
  BY <1>1, <1>2, <1>3, <1>4, <1>5, <1>6

\* The request is freed while no poll is running.
LEMMA Step_MPIP_Request_free ==
    ASSUME IInv, WorkersIdle, MPIP_Request_free, UNCHANGED recvvars
    PROVE  IInv'
<1> USE DEF IInv, MPIP_Request_free, WorkersIdle, recvvars
<1>w. round > 0 => Waited = Net
  BY DEF Waited, Net, Lifecycle, Arrays, SetUp
<1>1. TypeOK'
  BY ParamAssumption DEF TypeOK, ReqTypeOK, RequestState, Net
<1>2. Lifecycle'
  BY DEF Lifecycle, TypeOK, ReqTypeOK
<1>3. Arrays'
  BY <1>w DEF Lifecycle, Arrays, SetUp, TypeOK, ReqTypeOK
<1>4. Posting'
  BY DEF Lifecycle, Posting, TypeOK, ReqTypeOK
<1>5. Receipts'
  BY DEF Lifecycle, Posting, Receipts, TypeOK, ReqTypeOK
<1>6. Polls'
  BY DEF Lifecycle, Polls, TypeOK, ReqTypeOK
<1> QED
  BY <1>1, <1>2, <1>3, <1>4, <1>5, <1>6

\* The data of a message arrives.
LEMMA Step_MPI_Arrive ==
    ASSUME IInv, NEW i \in Net, MPI_Arrive(i)
    PROVE  IInv'
<1> USE DEF IInv, MPI_Arrive
<1>1. TypeOK'
  BY ParamAssumption DEF TypeOK, ReqTypeOK, RequestState, Net
<1>2. Lifecycle'
  BY DEF Lifecycle, TypeOK, ReqTypeOK
<1>3. Arrays'
  BY DEF Lifecycle, Arrays, SetUp, TypeOK, ReqTypeOK
<1>4. Posting'
  BY DEF Lifecycle, Posting, TypeOK, ReqTypeOK
<1>5. Receipts'
  BY DEF Lifecycle, Posting, Receipts, TypeOK, ReqTypeOK
<1>6. Polls'
  BY DEF Lifecycle, Polls, TypeOK, ReqTypeOK
<1> QED
  BY <1>1, <1>2, <1>3, <1>4, <1>5, <1>6

\* Every step preserves the invariant.
LEMMA NextIInv == IInv /\ [Next]_vars => IInv'
<1> SUFFICES ASSUME IInv, [Next]_vars PROVE IInv'
  OBVIOUS
<1>1. CASE Precv_init
  BY <1>1, Step_InitDirect, Step_InitSpawn, Step_InitStore DEF Precv_init
<1>2. CASE SyncStep
  BY <1>2, Step_SyncSide, Step_SyncSetup, Step_SyncNothing, Step_SyncCatchUp
     DEF SyncStep, Negotiate
<1>3. CASE MPIP_Start
  BY <1>3, Step_MPIP_Start
<1>4. ASSUME NEW w \in Workers, Poll(w) PROVE IInv'
  BY <1>4, Step_ParrivedRead, Step_ParrivedCheck, Step_ParrivedTestall,
     Step_ParrivedStore DEF Poll
<1>5. ASSUME NEW w \in Workers, NEW p \in User, MPIP_Parrived(w, p) PROVE IInv'
  BY <1>5, Step_MPIP_Parrived
<1>6. ASSUME NEW i \in Net, MPI_Arrive(i) PROVE IInv'
  BY <1>6, Step_MPI_Arrive
<1>7. CASE MPIP_Wait \/ Join \/ Waitall \/ Test
  BY <1>7, Step_WaitRead, Step_WaitJoin, Step_WaitReturn, Step_MPIP_Test
     DEF MPIP_Wait, Join, Waitall, Test
<1>8. CASE Request_free
  BY <1>8, Step_MPIP_Request_free DEF Request_free
<1>9. CASE UNCHANGED vars
  BY <1>9 DEF vars, reqvars, recvvars, IInv, TypeOK, ReqTypeOK, Lifecycle,
     Arrays, SetUp, Posting, Receipts, Polls
<1> QED
  BY <1>1, <1>2, <1>3, <1>4, <1>5, <1>6, <1>7, <1>8, <1>9 DEF Next, Done

\* The invariant holds in every reachable state.
LEMMA Invariance == Spec => []IInv
BY InitIInv, NextIInv, PTL DEF Spec

-----------------------------------------------------------------------------
(* The answers of the polls, from flags that start clean.                  *)

\* Nothing is cached and nobody has asked.
LEMMA InitAInv == Init => AInv
BY DEF Init, ReqInit, AInv, Cached, Answers

\* The init call: the flags are clean where they will be tested.
LEMMA Answers_Init ==
    ASSUME CleanFlags, IInv, AInv, Precv_init
    PROVE  AInv'
<1> USE DEF Precv_init, recvvars, prep
<1>1. CASE InitDirect
  BY <1>1 DEF InitDirect, IInv, Lifecycle, Polls, AInv, Cached, Answers
<1>2. CASE InitSpawn
  BY <1>2, ParamAssumption
     DEF InitSpawn, CleanFlags, IInv, Lifecycle, Polls, AInv, Cached, Answers
<1>3. CASE InitStore
  BY <1>3 DEF InitStore, IInv, Lifecycle, Polls, AInv, Cached, Answers
<1> QED
  BY <1>1, <1>2, <1>3

\* The background thread touches neither flags nor data.
LEMMA Answers_Sync ==
    ASSUME IInv, AInv, SyncStep
    PROVE  AInv'
BY DEF SyncStep, Negotiate, SyncSide, Learn, SyncSetup, SyncNothing,
   SyncCatchUp, MayLock, recvvars, IInv, Lifecycle, AInv, Cached, Answers

\* A new activation begins with empty flags: they are reset, or nothing has
\* been stored in them while the negotiation ran.
LEMMA Answers_Start ==
    ASSUME IInv, AInv, MPIP_Start
    PROVE  AInv'
<1> USE DEF MPIP_Start, Activate, StartLocked, reset_status
<1>1. local_status' = {}
  BY DEF AInv, Cached
<1> QED
  BY <1>1 DEF WorkersIdle, IInv, TypeOK, Lifecycle, AInv, Cached, Answers

\* The flag a poll reads, computes, stores and returns.
LEMMA Answers_Poll ==
    ASSUME IInv, AInv, NEW w \in Workers, Poll(w)
    PROVE  AInv'
<1>t. /\ part[w] \in User
      /\ pc \in [Workers -> {"idle", "called", "check", "testall", "store"}]
      /\ flag \in [Workers -> BOOLEAN] /\ answered \in [Workers -> SUBSET User]
      /\ \A u \in Workers : answered[u] \in SUBSET User
  BY DEF IInv, TypeOK
<1>1. CASE ParrivedRead(w)
  BY <1>1, <1>t DEF ParrivedRead, ReadThreaded, Return, reqvars, AInv, Cached,
     Answers
<1>2. CASE ParrivedCheck(w)
  <2>1. threaded # "RUNNING" /\ round > 0
    BY <1>2 DEF ParrivedCheck, IInv, Polls
  <2>2. Cached'
    BY <1>2 DEF ParrivedCheck, reqvars, AInv, Cached
  <2>3. part[w] \in local_status => Behind(part[w]) \subseteq delivered
    BY <2>1 DEF AInv, Cached
  <2>4. Answers'
    BY <1>2, <1>t, <2>1, <2>3 DEF ParrivedCheck, Return, reqvars, AInv, Answers
  <2> QED
    BY <2>2, <2>4 DEF AInv
<1>3. CASE ParrivedTestall(w)
  <2> USE <1>3 DEF ParrivedTestall, Testall, NoneActive
  <2>1. /\ Tested(part[w]) = Behind(part[w]) /\ Behind(part[w]) \subseteq Net
        /\ round > 0 /\ threaded # "RUNNING"
    BY <1>t, BehindInNet
       DEF IInv, Polls, Lifecycle, Arrays, SetUp, Tested, Behind
  <2>2. flag'[w] <=> Behind(part[w]) \subseteq delivered
    BY <1>t, <2>1 DEF IInv, Posting, Receipts
  <2>3. Cached'
    BY DEF AInv, Cached
  <2>4. Answers'
    BY <1>t, <2>2 DEF AInv, Answers
  <2> QED
    BY <2>3, <2>4 DEF AInv
<1>4. CASE ParrivedStore(w)
  <2> USE <1>4 DEF ParrivedStore, Return
  <2>1. threaded # "RUNNING" /\ round > 0
    BY DEF IInv, Polls
  <2>2. main # "created"
    BY <2>1 DEF IInv, Lifecycle
  <2>3. flag[w] => Behind(part[w]) \subseteq delivered
    BY DEF AInv, Answers
  <2>4. Cached'
    BY <2>1, <2>2, <2>3 DEF AInv, Cached
  <2>5. Answers'
    BY <1>t, <2>1, <2>3 DEF AInv, Answers
  <2> QED
    BY <2>4, <2>5 DEF AInv
<1> QED
  BY <1>1, <1>2, <1>3, <1>4 DEF Poll

\* Every step keeps the answers backed by data.
LEMMA NextAInv ==
    ASSUME CleanFlags, IInv, AInv, [Next]_vars
    PROVE  AInv'
<1>1. ASSUME NEW w \in Workers, NEW p \in User, MPIP_Parrived(w, p) PROVE AInv'
  BY <1>1 DEF MPIP_Parrived, reqvars, IInv, TypeOK, AInv, Cached, Answers
<1>2. ASSUME NEW i \in Net, MPI_Arrive(i) PROVE AInv'
  BY <1>2 DEF MPI_Arrive, AInv, Cached, Answers
<1>3. CASE MPIP_Wait \/ Join \/ Waitall \/ Test \/ Request_free
  BY <1>3 DEF MPIP_Wait, WaitRead, EnterWait, Join, WaitJoin, Waitall,
     WaitReturn, Test, MPIP_Test, Deactivate, Request_free, MPIP_Request_free,
     recvvars, AInv, Cached, Answers
<1>4. CASE UNCHANGED vars
  BY <1>4 DEF vars, reqvars, recvvars, AInv, Cached, Answers
<1> QED
  BY <1>1, <1>2, <1>3, <1>4, Answers_Init, Answers_Sync, Answers_Start,
     Answers_Poll DEF Next, Done

-----------------------------------------------------------------------------
(* From messages to the elements of the buffer.                            *)

\* The geometries the partition map is exact on.
ExactGeometry == Exact(LocalParts, LocalSize, Parts, Size)

\* Every element of the buffer is in one of the messages.
LEMMA ElementHasMessage ==
    ASSUME ExactGeometry, NEW e \in 0..(LocalParts * LocalSize - 1)
    PROVE  \E i \in Net : i * Size <= e /\ e < (i + 1) * Size
<1>1. e \in 0..(Parts * Size - 1)
  BY DEF ExactGeometry, Exact
<1> QED
  BY <1>1, ParamAssumption, BlockOf DEF Net

\* When the messages behind a partition have arrived, so have its elements.
LEMMA PartitionDelivered ==
    ASSUME ExactGeometry, NEW p \in User, Behind(p) \subseteq delivered,
           NEW e \in (p * LocalSize)..((p + 1) * LocalSize - 1)
    PROVE  ElementDelivered(e)
<1>1. p \in 0..(LocalParts - 1)
  BY DEF User
<1>2. \E i \in Behind(p) : i * Size <= e /\ e < (i + 1) * Size
  BY <1>1, ParamAssumption, MessagesCover DEF Behind, ExactGeometry
<1> QED
  BY <1>2 DEF ElementDelivered

-----------------------------------------------------------------------------
(* The theorems.                                                           *)

\* Type correctness: every field of the request and every local of a poll
\* keeps its type, with all windows open.
THEOREM TypeCorrect == Spec => []TypeOK
BY Invariance, PTL DEF IInv

\* No poll ever works on requests that internal_setup has not created or that
\* were freed, although polls start while the background thread still runs.
THEOREM PollsSeeArrays == Spec => []PollSeesArrays
<1>1. IInv => PollSeesArrays
  <2> SUFFICES ASSUME IInv, NEW w \in Workers,
                      pc[w] \in {"check", "testall", "store"}
               PROVE  parts = Parts /\ \A i \in Net : request[i] # "null"
    BY DEF PollSeesArrays
  <2>1. threaded # "RUNNING" /\ round > 0 /\ main # "freed"
    BY DEF IInv, Polls
  <2> QED
    BY <2>1 DEF IInv, Lifecycle, Arrays, SetUp
<1> QED
  BY <1>1, Invariance, PTL

\* MPI_Waitall is given all requests that were negotiated.
THEOREM WaitsSeeArrays == Spec => []WaitSeesArrays
<1>1. IInv => WaitSeesArrays
  BY DEF IInv, Lifecycle, Arrays, SetUp, WaitSeesArrays
<1> QED
  BY <1>1, Invariance, PTL

\* A request freed after an activation leaves neither its background thread
\* nor an MPI request behind.
THEOREM FreeIsQuiet == Spec => []FreedMeansQuiet
<1>1. IInv => FreedMeansQuiet
  BY DEF IInv, Lifecycle, Arrays, FreedMeansQuiet
<1> QED
  BY <1>1, Invariance, PTL

-----------------------------------------------------------------------------
(* With "outrun" shut the field threaded tells the truth.                  *)

\* The background thread has returned exactly when the field says so.
Ended ==
    /\ sync = "done" => threaded = "FINISHED"
    /\ main = "created" => sync # "done"

LEMMA EndedInvariance ==
    ASSUME "outrun" \notin Windows
    PROVE  Spec => []Ended
<1>1. Init => Ended
  BY DEF Init, ReqInit, Ended
<1>2. IInv /\ Ended /\ [Next]_vars => Ended'
  BY DEF Ended, IInv, Lifecycle, Next, Precv_init, InitDirect, InitSpawn,
     InitStore, prep, SyncStep, Negotiate, SyncSide, Learn, SyncSetup,
     SyncNothing, SyncCatchUp, MayLock, MPIP_Start, Activate, StartLocked, Poll,
     ParrivedRead, ReadThreaded, ParrivedCheck, ParrivedTestall, Testall,
     ParrivedStore, MPIP_Parrived, MPI_Arrive, MPIP_Wait, WaitRead, EnterWait,
     Join, WaitJoin, Waitall, WaitReturn, Test, MPIP_Test, Deactivate,
     Request_free, MPIP_Request_free, Done, vars, reqvars
<1> QED
  BY <1>1, <1>2, Invariance, PTL DEF Spec

\* MPIP_Start and the background thread together post every receive exactly
\* once in an activation, unless the background thread outruns its creator:
\* then RUNNING is stored over FINISHED and nobody posts them.
THEOREM PostsOnce ==
    ASSUME "outrun" \notin Windows
    PROVE  Spec => []PostedOnce
<1>1. IInv /\ Ended => PostedOnce
  <2> SUFFICES ASSUME IInv, Ended, NEW i \in Net
               PROVE  /\ starts[i] <= 1
                      /\ (state = "ACTIVE" /\ sync \in {"none", "done"})
                            => starts[i] = 1
    BY DEF PostedOnce
  <2>1. starts[i] <= 1
    BY DEF IInv, Posting
  <2>2. ASSUME state = "ACTIVE", sync \in {"none", "done"}
        PROVE  starts[i] = 1
    <3>1. round > 0 /\ threaded # "RUNNING"
      BY <2>2 DEF IInv, Lifecycle, Ended
    <3> QED
      BY <3>1 DEF IInv, Posting
  <2> QED
    BY <2>1, <2>2
<1> QED
  BY <1>1, Invariance, EndedInvariance, PTL

\* A completed activation has every element of the buffer, unless the
\* background thread outran its creator: then nobody posted the receives.
THEOREM CompletionArrives ==
    ASSUME ExactGeometry, "outrun" \notin Windows
    PROVE  Spec => []CompletionMeansArrived
<1>1. IInv /\ Ended => CompletionMeansArrived
  <2> SUFFICES ASSUME IInv, Ended, round > 0, state = "INACTIVE",
                      NEW e \in 0..(LocalParts * LocalSize - 1)
               PROVE  ElementDelivered(e)
    BY DEF CompletionMeansArrived
  <2>1. threaded # "RUNNING"
    BY DEF IInv, Lifecycle, TypeOK, ReqTypeOK, Ended
  <2>2. \A i \in Net : i \in delivered
    BY <2>1 DEF IInv, Posting, Receipts
  <2> QED
    BY <2>2, ElementHasMessage DEF ElementDelivered
<1> QED
  BY <1>1, Invariance, EndedInvariance, PTL

\* A partition is reported only when every one of its elements arrived in this
\* activation, with any number of threads polling and caching beside each
\* other and beside MPIP_Test, MPIP_Wait and the background thread.
THEOREM ParrivedIsSound ==
    ASSUME ExactGeometry, CleanFlags
    PROVE  Spec => []ParrivedSound
<1>1. IInv /\ AInv => ParrivedSound
  <2> SUFFICES ASSUME IInv, AInv, NEW w \in Workers, NEW p \in answered[w],
                      NEW e \in (p * LocalSize)..((p + 1) * LocalSize - 1)
               PROVE  ElementDelivered(e)
    BY DEF ParrivedSound
  <2>1. p \in User /\ Behind(p) \subseteq delivered
    BY DEF IInv, TypeOK, AInv, Answers
  <2> QED
    BY <2>1, PartitionDelivered
<1>2. IInv /\ AInv /\ [Next]_vars => AInv'
  BY NextAInv
<1> QED
  BY <1>1, <1>2, InitAInv, Invariance, PTL DEF Spec

\* A thread that was told a partition arrived is never told the contrary in
\* the same activation, for every geometry in range: the race on the cached
\* flag is harmless.
THEOREM AnswersAreStable ==
    ASSUME CleanFlags
    PROVE  Spec => AnswerStable
<1> DEFINE Stable == \A w \in Workers :
              (pc[w] # "idle" /\ pc'[w] = "idle" /\ part[w] \in answered[w])
                 => result'[w]
<1>1. IInv /\ AInv /\ [Next]_vars => [Stable]_vars
  <2> SUFFICES ASSUME IInv, AInv, Next, NEW w \in Workers,
                      pc[w] # "idle", pc'[w] = "idle", part[w] \in answered[w]
               PROVE  result'[w]
    OBVIOUS
  <2>t. /\ pc \in [Workers -> {"idle", "called", "check", "testall", "store"}]
        /\ result \in [Workers -> BOOLEAN]
    BY DEF IInv, TypeOK
  <2>1. threaded # "RUNNING"
    BY DEF AInv, Answers
  <2>2. PICK u \in Workers : Poll(u) \/ \E p \in User : MPIP_Parrived(u, p)
    BY DEF Next, Precv_init, SyncStep, Negotiate, SyncCatchUp, MPIP_Start,
       Activate, MPI_Arrive, MPIP_Wait, Join, Waitall, Test, Request_free,
       Done, vars, recvvars
  <2>3. u = w /\ Poll(w)
    BY <2>t, <2>2 DEF Poll, ParrivedRead, ReadThreaded, ParrivedCheck,
       ParrivedTestall, Testall, ParrivedStore, MPIP_Parrived, Return
  <2>4. CASE ParrivedRead(w) \/ ParrivedCheck(w) \/ ParrivedTestall(w)
    BY <2>t, <2>1, <2>4 DEF ParrivedRead, ReadThreaded, ParrivedCheck,
       ParrivedTestall, Testall, Return
  <2>5. CASE ParrivedStore(w)
    BY <2>t, <2>5 DEF ParrivedStore, Return, AInv, Answers
  <2> QED
    BY <2>3, <2>4, <2>5 DEF Poll
<1>2. IInv /\ AInv /\ [Next]_vars => AInv'
  BY NextAInv
<1> QED
  BY <1>1, <1>2, InitAInv, Invariance, PTL DEF Spec, AnswerStable
=============================================================================
