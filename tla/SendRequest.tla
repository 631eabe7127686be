---------------------------- MODULE SendRequest -----------------------------
(***************************************************************************)
(* The send side of a partitioned request: several threads of the user     *)
(* mark partitions ready (MPIP_Pready and its list and range forms) while  *)
(* the background thread negotiates and then catches up with what was      *)
(* marked before it was done.  Both run general_send, which counts the     *)
(* ready partitions of each message and starts the message whose counter   *)
(* reaches the threshold.                                                  *)
(*                                                                         *)
(* Assumed of the caller, as MPI-4 asks: in one activation each partition  *)
(* is marked at most once, by a call made while the request is active, and *)
(* a request is started again only when no such call is running.           *)
(***************************************************************************)
EXTENDS MPIPRequest

CONSTANTS
    Workers,   \* the user's threads that call MPIP_Pready
    Sync       \* the background thread

ASSUME ThreadAssumption == Sync \notin Workers

Threads == Workers \union {Sync}

VARIABLES
    pc,      \* where each thread is in MPIP_Pready / general_send
    part,    \* general_send's argument id, per thread
    next,    \* general_send's loop index i, per thread
    todo,    \* partitions the running Pready call of a thread has yet to mark
    scan,    \* send_ready's loop index
    ready,   \* history: partitions marked in this activation
    added,   \* history: partitions counted for each message in this activation
    starts   \* history: MPI_Start calls on each message in this activation

sendvars == <<pc, part, next, todo, scan, ready, added, starts>>
vars == <<reqvars, sendvars>>

TypeOK ==
    /\ ReqTypeOK
    /\ pc \in [Threads -> {"idle", "marked", "add", "start"}]
    /\ part \in [Threads -> User]
    /\ next \in [Threads -> Net]
    /\ todo \in [Workers -> SUBSET User]
    /\ scan \in 0..LocalParts
    /\ ready \in SUBSET User
    /\ added \in [Net -> SUBSET User]
    /\ starts \in [Net -> Nat]

Init ==
    /\ ReqInit
    /\ pc = [t \in Threads |-> "idle"]
    /\ part = [t \in Threads |-> 0]
    /\ next = [t \in Threads |-> 0]
    /\ todo = [w \in Workers |-> {}]
    /\ scan = 0
    /\ ready = {}
    /\ added = [i \in Net |-> {}]
    /\ starts = [i \in Net |-> 0]

\* The user partitions whose data message i carries, by the buffer layout.
CarriedBy(i) == Carried(LocalParts, LocalSize, Size, i)

\* Partitions no Pready call has been made for in this activation.
Unmarked == User \ (ready \union UNION {todo[w] : w \in Workers})

\* No thread of the user is inside a Pready call.
WorkersIdle == \A w \in Workers : pc[w] = "idle" /\ todo[w] = {}

-----------------------------------------------------------------------------
(* general_send, run by a worker or by the background thread.              *)

\* Thread t enters general_send(p).
EnterSend(t, p) ==
    /\ part' = [part EXCEPT ![t] = p]
    /\ next' = [next EXCEPT ![t] = start_part(LocalParts, parts, p)]
    /\ pc' = [pc EXCEPT ![t] = "add"]

\* The loop goes on with the next message of the partition, or returns.
NextMessage(t) ==
    IF next[t] + 1 < end_part(LocalParts, parts, part[t])
    THEN /\ pc' = [pc EXCEPT ![t] = "add"]
         /\ next' = [next EXCEPT ![t] = @ + 1]
    ELSE /\ pc' = [pc EXCEPT ![t] = "idle"]
         /\ UNCHANGED next

\* Thread t counts its partition: the counter of message next[t] becomes n, and
\* if reached holds the thread goes on to start the message.
Count(t, n, reached) ==
    /\ pc[t] = "add"
    /\ internal_status' = [internal_status EXCEPT ![next[t]] = n]
    /\ added' = [added EXCEPT ![next[t]] = @ \union {part[t]}]
    /\ IF reached THEN pc' = [pc EXCEPT ![t] = "start"] /\ UNCHANGED next
                  ELSE NextMessage(t)
    /\ UNCHANGED <<state, threaded, parts, local_status, request, main, sync,
                   round, part, todo, scan, ready, starts>>

\* The counter thread t is about to increment.
CounterOf(t) == internal_status[next[t]]

\* Mutant: the first partition counted starts the message.
GeneralSendAdd_First(t) == Count(t, CounterOf(t) + 1, CounterOf(t) = 0)

\* Mutant: the message is started whenever the counter is past the threshold.
GeneralSendAdd_AtLeast(t) ==
    Count(t, CounterOf(t) + 1, CounterOf(t) + 1 >= Threshold(LocalParts, parts))

\* Mutant: a plain increment, lost when another thread is at the same one.
GeneralSendAdd_Lost(t) ==
    LET raced == \E u \in Threads \ {t} : pc[u] = "add" /\ next[u] = next[t]
    IN  Count(t, IF raced THEN CounterOf(t) ELSE CounterOf(t) + 1,
              CounterOf(t) + 1 = Threshold(LocalParts, parts))

\* The atomic increment; the thread whose increment reaches the threshold is
\* the one that starts the message.
GeneralSendAdd(t) ==
    Count(t, CounterOf(t) + 1, CounterOf(t) + 1 = Threshold(LocalParts, parts))

\* MPI_Start on the message's request.
GeneralSendStart(t) ==
    /\ pc[t] = "start"
    /\ request' = [request EXCEPT ![next[t]] = "active"]
    /\ starts' = [starts EXCEPT ![next[t]] = @ + 1]
    /\ NextMessage(t)
    /\ UNCHANGED <<state, threaded, parts, local_status, internal_status, main,
                   sync, round, part, todo, scan, ready, added>>

-----------------------------------------------------------------------------
(* MPIP_Pready, MPIP_Pready_list, MPIP_Pready_range.                       *)

\* A call for the partitions in S.  A list names them in the order of the
\* caller's array, which is resolved one partition at a time by PreadyMark.
MPIP_Pready_list(w, S) ==
    /\ state = "ACTIVE"
    /\ pc[w] = "idle" /\ todo[w] = {}
    /\ S # {} /\ S \subseteq Unmarked
    /\ todo' = [todo EXCEPT ![w] = S]
    /\ UNCHANGED <<reqvars, pc, part, next, scan, ready, added, starts>>

\* A range is the list of the partitions from low to high; a single
\* MPIP_Pready is the range of one.
MPIP_Pready_range(w, low, high) == MPIP_Pready_list(w, low..high)

\* MPIP_Pready: store the flag, without the lock.
PreadyMark(w) ==
    /\ pc[w] = "idle"
    /\ \E p \in todo[w] :
          /\ local_status' = local_status \union {p}
          /\ ready' = ready \union {p}
          /\ todo' = [todo EXCEPT ![w] = @ \ {p}]
          /\ part' = [part EXCEPT ![w] = p]
    /\ pc' = [pc EXCEPT ![w] = "marked"]
    /\ UNCHANGED <<state, threaded, parts, internal_status, request, main, sync,
                   round, next, scan, added, starts>>

\* Then read threaded under the lock: the partition is left to the background
\* thread (delayed), or general_send is called.
ReadThreaded(w, delayed) ==
    /\ pc[w] = "marked" /\ LockFree
    /\ IF delayed
       THEN pc' = [pc EXCEPT ![w] = "idle"] /\ UNCHANGED <<part, next>>
       ELSE EnterSend(w, part[w])
    /\ UNCHANGED <<reqvars, todo, scan, ready, added, starts>>

\* Mutant: general_send is called whatever the negotiation's state.
PreadyRead_Unconditional(w) == ReadThreaded(w, FALSE)

\* Mutant: the delayed branch taken for FINISHED as well.
PreadyRead_Delayed(w) == ReadThreaded(w, threaded # "NONE")

PreadyRead(w) == ReadThreaded(w, threaded = "RUNNING")

-----------------------------------------------------------------------------
(* The background thread's catch-up: send_ready, under the lock.           *)

\* Mutant: the thread ends without looking at what was marked meanwhile.
SyncCatchUp_Skip ==
    /\ MayLock /\ state = "ACTIVE"
    /\ sync' = "done" /\ threaded' = "FINISHED"
    /\ UNCHANGED <<state, parts, local_status, internal_status, request, main,
                   round, sendvars>>

SyncCatchUp ==
    /\ MayLock /\ state = "ACTIVE"
    /\ sync' = "catchup" /\ scan' = 0
    /\ UNCHANGED <<state, threaded, parts, local_status, internal_status,
                   request, main, round, pc, part, next, todo, ready, added,
                   starts>>

\* One turn of send_ready's loop: a flag in S is sent.
Scan(S, limit) ==
    /\ sync = "catchup" /\ pc[Sync] = "idle" /\ scan < limit
    /\ scan' = scan + 1
    /\ IF scan \in S THEN EnterSend(Sync, scan)
                     ELSE UNCHANGED <<pc, part, next>>
    /\ UNCHANGED <<reqvars, todo, ready, added, starts>>

\* Mutant: the loop runs one entry too far.
SyncScan_OffByOne == Scan(local_status, LocalParts + 1)

\* Mutant: every entry is sent, whatever its flag.
SyncScan_All == Scan(User, LocalParts)

\* The flags that read true are sent.
SyncScan == Scan(local_status, LocalParts)

\* Mutant: the thread returns without releasing the lock.
SyncFinish_KeepLock ==
    /\ sync = "catchup" /\ pc[Sync] = "idle" /\ scan = LocalParts
    /\ threaded' = "FINISHED"
    /\ UNCHANGED <<state, parts, local_status, internal_status, request, main,
                   sync, round, sendvars>>

\* FINISHED is stored, the lock released, the thread returns.
SyncFinish ==
    /\ sync = "catchup" /\ pc[Sync] = "idle" /\ scan = LocalParts
    /\ threaded' = "FINISHED" /\ sync' = "done"
    /\ UNCHANGED <<state, parts, local_status, internal_status, request, main,
                   round, sendvars>>

-----------------------------------------------------------------------------
(* The main thread.                                                        *)

\* MPIP_Start: once set up, the counters and flags are reset; while the
\* negotiation runs nothing is.
MPIP_Start ==
    /\ StartLocked /\ WorkersIdle
    /\ IF threaded # "RUNNING" THEN reset_status
                               ELSE UNCHANGED <<internal_status, local_status>>
    /\ ready' = {}
    /\ added' = [i \in Net |-> {}]
    /\ starts' = [i \in Net |-> 0]
    /\ UNCHANGED <<request, pc, part, next, todo, scan>>

\* With "early" shut the main thread completes an activation only after every
\* partition has been passed to a Pready call that has returned.
MayComplete ==
    "early" \in Windows \/ state = "INACTIVE" \/ (ready = User /\ WorkersIdle)

MPIP_Wait == MayComplete /\ WaitRead /\ UNCHANGED sendvars
Join == WaitJoin /\ UNCHANGED sendvars
Waitall == WaitReturn /\ UNCHANGED sendvars
Test == MayComplete /\ MPIP_Test /\ UNCHANGED sendvars
Request_free == WorkersIdle /\ MPIP_Request_free /\ UNCHANGED sendvars

\* MPI delivers a started message (external).
MPI_Complete(i) ==
    /\ request[i] = "active"
    /\ request' = [request EXCEPT ![i] = "complete"]
    /\ UNCHANGED <<state, threaded, parts, local_status, internal_status, main,
                   sync, round, sendvars>>

Psend_init == (InitDirect \/ InitSpawn \/ InitStore) /\ UNCHANGED sendvars
Negotiate == (SyncSide \/ SyncSetup \/ SyncNothing) /\ UNCHANGED sendvars

\* The request is gone and the system may stop.
Done == main = "freed" /\ UNCHANGED vars

SyncStep == Negotiate \/ SyncCatchUp \/ SyncScan \/ SyncFinish

Next ==
    \/ Psend_init
    \/ SyncStep
    \/ MPIP_Start
    \/ \E w \in Workers : \E S \in SUBSET User : MPIP_Pready_list(w, S)
    \/ \E w \in Workers : \E low, high \in User : MPIP_Pready_range(w, low, high)
    \/ \E w \in Workers : PreadyMark(w) \/ PreadyRead(w)
    \/ \E t \in Threads : GeneralSendAdd(t) \/ GeneralSendStart(t)
    \/ \E i \in Net : MPI_Complete(i)
    \/ MPIP_Wait \/ Join \/ Waitall \/ Test
    \/ Request_free
    \/ Done

(***************************************************************************)
(* Fairness.  A call that has been made runs on (the scheduler is fair to  *)
(* threads), MPI delivers what was started, and the driving side sends its *)
(* numbers.  Nothing obliges the user to make a call.                      *)
(***************************************************************************)
Fairness ==
    /\ WF_vars(InitStore /\ UNCHANGED sendvars)
    /\ WF_vars(SyncStep)
    /\ \A w \in Workers : WF_vars(PreadyMark(w) \/ PreadyRead(w))
    /\ \A t \in Threads : WF_vars(GeneralSendAdd(t) \/ GeneralSendStart(t))
    /\ \A i \in Net : WF_vars(MPI_Complete(i))
    /\ WF_vars(Join \/ Waitall)

Spec == Init /\ [][Next]_vars /\ Fairness

-----------------------------------------------------------------------------
(* Properties.                                                             *)

\* general_send: "any internal partitions that have hit their threshold (aka
\* all the necessary external partitions are ready)" are sent.  No message is
\* started while a partition it carries has not been marked ready in this
\* activation.
NoPrematureSend ==
    \A i \in Net : starts[i] > 0 => CarriedBy(i) \subseteq ready

\* MPI forbids MPI_Start on an active request.  Whatever the interleaving of
\* the increments, each message is started at most once per activation, and
\* the thread about to start it finds its request allocated and inactive.
StartedOnce ==
    /\ \A i \in Net : starts[i] <= 1
    /\ \A t \in Threads : pc[t] = "start" => /\ starts[next[t]] = 0
                                             /\ request[next[t]] = "inactive"

\* general_send is never run on counters and requests that internal_setup has
\* not created yet or that have been freed.
SendSeesArrays ==
    \A t \in Threads : pc[t] \in {"add", "start"} =>
        parts = Parts /\ \A i \in Net : request[i] # "null"

\* Some started message carries element e of the buffer.
ElementSent(e) ==
    \E i \in Net : starts[i] = 1 /\ i * Size <= e /\ e < (i + 1) * Size

\* README: MPIP_Wait "will block until all partitions in that request have
\* been sent".  When an activation has been completed by MPIP_Wait or
\* MPIP_Test, every element of every partition was in a started message and
\* no message is left active.
CompletionMeansSent ==
    (round > 0 /\ state = "INACTIVE") =>
        /\ \A e \in 0..(LocalParts * LocalSize - 1) : ElementSent(e)
        /\ \A i \in Net : request[i] # "active"

\* README: once marked ready, a partition "will be queued to send once the
\* thread from init functions finish the setup".  With every partition marked,
\* every message is started, without any further call.
EveryPartitionGoesOut ==
    (state = "ACTIVE" /\ ready = User) ~> (\A i \in Net : starts[i] = 1)

Promised ==
    INSTANCE Partitioned
    WITH Elements <- 0..(LocalParts * LocalSize - 1),
         active   <- state = "ACTIVE",
         ready    <- Blocks(ready, LocalSize),
         moved    <- Blocks({i \in Net : starts[i] > 0}, Size),
         reported <- {}

\* The send side, with its counters, flags, lock and background thread,
\* implements Partitioned: over any number of activations an element leaves
\* only after its partition was marked in the same activation, and no
\* activation is completed with an element left behind.
ImplementsPartitioned == Promised!Spec

\* MPIP_Wait returns once it has been called.
WaitReturns == (main \in {"join", "waitall"}) ~> (main = "idle")
=============================================================================
