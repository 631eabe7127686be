---------------------------- MODULE RecvRequest -----------------------------
(***************************************************************************)
(* The receive side of a partitioned request.  The receives are posted by  *)
(* MPIP_Start or, while the negotiation runs, by the background thread;    *)
(* threads of the user poll partitions with MPIP_Parrived, which looks at  *)
(* the messages behind the partition and caches a positive answer in       *)
(* local_status.                                                           *)
(*                                                                         *)
(* Assumed of the caller: partitions are polled only after the request was *)
(* started once, and a request is started again or freed only when no poll *)
(* is running.  Any number of threads may poll the same partition.         *)
(***************************************************************************)
EXTENDS MPIPRequest

CONSTANTS Workers   \* the user's threads that call MPIP_Parrived

VARIABLES
    pc,         \* where each thread is in MPIP_Parrived
    part,       \* its argument partition
    flag,       \* map_recv_buffer's local flag
    result,     \* the flag the last call of the thread returned
    answered,   \* history: partitions reported to the thread in this activation
    delivered,  \* history: messages whose data arrived in this activation
    starts      \* history: receives posted per message in this activation

recvvars == <<pc, part, flag, result, answered, delivered, starts>>
vars == <<reqvars, recvvars>>

TypeOK ==
    /\ ReqTypeOK
    /\ pc \in [Workers -> {"idle", "called", "check", "testall", "store"}]
    /\ part \in [Workers -> User]
    /\ flag \in [Workers -> BOOLEAN]
    /\ result \in [Workers -> BOOLEAN]
    /\ answered \in [Workers -> SUBSET User]
    /\ delivered \in SUBSET Net
    /\ starts \in [Net -> Nat]

Init ==
    /\ ReqInit
    /\ pc = [w \in Workers |-> "idle"]
    /\ part = [w \in Workers |-> 0]
    /\ flag = [w \in Workers |-> FALSE]
    /\ result = [w \in Workers |-> FALSE]
    /\ answered = [w \in Workers |-> {}]
    /\ delivered = {}
    /\ starts = [i \in Net |-> 0]

WorkersIdle == \A w \in Workers : pc[w] = "idle"

-----------------------------------------------------------------------------
(* Posting the receives.                                                   *)

\* MPI_Startall on request[0 .. parts-1], started n[i] times so far.
Startall(n) ==
    /\ request' = [i \in Net |-> IF i \in Waited THEN "active" ELSE request[i]]
    /\ starts' = [i \in Net |-> IF i \in Waited THEN n[i] + 1 ELSE n[i]]

\* Mutant: the background thread never posts the receives.
SyncCatchUp_Skip ==
    /\ MayLock /\ state = "ACTIVE"
    /\ threaded' = "FINISHED" /\ sync' = "done"
    /\ UNCHANGED <<state, parts, local_status, internal_status, main, round,
                   request, recvvars>>

\* The background thread finds the request started: it posts the receives,
\* stores FINISHED and returns, all under the lock.
SyncCatchUp ==
    /\ MayLock /\ state = "ACTIVE"
    /\ Startall(starts)
    /\ threaded' = "FINISHED" /\ sync' = "done"
    /\ UNCHANGED <<state, parts, local_status, internal_status, main, round, pc,
                   part, flag, result, answered, delivered>>

\* A new activation: the histories begin anew, the flags are reset if reset
\* holds and the receives posted if post does.
Activate(reset, post) ==
    /\ StartLocked /\ WorkersIdle
    /\ answered' = [w \in Workers |-> {}] /\ delivered' = {}
    /\ LET none == [i \in Net |-> 0]
       IN  IF post THEN Startall(none) ELSE starts' = none /\ UNCHANGED request
    /\ IF reset THEN reset_status
                ELSE UNCHANGED <<internal_status, local_status>>
    /\ UNCHANGED <<pc, part, flag, result>>

\* Mutant: flags of the previous activation are kept.
MPIP_Start_NoReset == Activate(FALSE, threaded # "RUNNING")

\* Mutant: the receives are posted without asking who is to post them.
MPIP_Start_Always == Activate(TRUE, TRUE)

\* MPIP_Start: once set up, reset and post; while the negotiation runs, leave
\* both to the background thread.
MPIP_Start == Activate(threaded # "RUNNING", threaded # "RUNNING")

-----------------------------------------------------------------------------
(* MPIP_Parrived and map_recv_buffer.                                      *)

\* The call returns b.
Return(w, b) ==
    /\ pc' = [pc EXCEPT ![w] = "idle"]
    /\ result' = [result EXCEPT ![w] = b]
    /\ answered' = IF b THEN [answered EXCEPT ![w] = @ \union {part[w]}]
                        ELSE answered

MPIP_Parrived(w, p) ==
    /\ round > 0 /\ main # "freed" /\ pc[w] = "idle"
    /\ pc' = [pc EXCEPT ![w] = "called"]
    /\ part' = [part EXCEPT ![w] = p]
    /\ UNCHANGED <<reqvars, flag, result, answered, delivered, starts>>

\* Read threaded under the lock; not synced yet: return 0.
ReadThreaded(w, unsynced) ==
    /\ pc[w] = "called" /\ LockFree
    /\ IF unsynced
       THEN Return(w, FALSE)
       ELSE pc' = [pc EXCEPT ![w] = "check"] /\ UNCHANGED <<result, answered>>
    /\ UNCHANGED <<reqvars, part, flag, delivered, starts>>

\* Mutant: a poll that does not ask whether the negotiation is over.
ParrivedRead_Unconditional(w) == ReadThreaded(w, FALSE)

ParrivedRead(w) == ReadThreaded(w, threaded = "RUNNING")

\* The shortcut: a flag that reads true answers the call.
ParrivedCheck(w) ==
    /\ pc[w] = "check"
    /\ IF part[w] \in local_status
       THEN Return(w, TRUE)
       ELSE pc' = [pc EXCEPT ![w] = "testall"] /\ UNCHANGED <<result, answered>>
    /\ UNCHANGED <<reqvars, part, flag, delivered, starts>>

\* The messages map_recv_buffer tests for partition p.
Tested(p) == MessagesOf(LocalParts, parts, p)

\* MPI_Testall on the partition's messages; all or none are deactivated.
Testall(w, all) ==
    /\ pc[w] = "testall"
    /\ flag' = [flag EXCEPT ![w] = all]
    /\ request' = IF all THEN Consumed(Tested(part[w])) ELSE request
    /\ pc' = [pc EXCEPT ![w] = "store"]
    /\ UNCHANGED <<state, threaded, parts, local_status, internal_status, main,
                   sync, round, part, result, answered, delivered, starts>>

\* Mutant: only requests still holding their completion count as complete.
ParrivedTestall_FreshOnly(w) ==
    Testall(w, \A i \in Tested(part[w]) : request[i] = "complete")

ParrivedTestall(w) == Testall(w, NoneActive(Tested(part[w])))

\* The flag is stored, possibly over a newer one, and returned.
ParrivedStore(w) ==
    /\ pc[w] = "store"
    /\ local_status' = IF flag[w] THEN local_status \union {part[w]}
                                  ELSE local_status \ {part[w]}
    /\ Return(w, flag[w])
    /\ UNCHANGED <<state, threaded, parts, internal_status, request, main, sync,
                   round, part, flag, delivered, starts>>

Poll(w) == ParrivedRead(w) \/ ParrivedCheck(w) \/ ParrivedTestall(w)
              \/ ParrivedStore(w)

-----------------------------------------------------------------------------
(* The main thread and MPI.                                                *)

\* With "early" shut, the main thread waits only when no poll is running; a
\* test may run beside polls, as the tests of the library do.
MayComplete == "early" \in Windows \/ WorkersIdle

MPIP_Wait == MayComplete /\ WaitRead /\ UNCHANGED recvvars
Join == WaitJoin /\ UNCHANGED recvvars
Waitall == WaitReturn /\ UNCHANGED recvvars
Test == MPIP_Test /\ UNCHANGED recvvars
Request_free == WorkersIdle /\ MPIP_Request_free /\ UNCHANGED recvvars

\* The data of message i is in the buffer (external).
MPI_Arrive(i) ==
    /\ request[i] = "active"
    /\ request' = [request EXCEPT ![i] = "complete"]
    /\ delivered' = delivered \union {i}
    /\ UNCHANGED <<state, threaded, parts, local_status, internal_status, main,
                   sync, round, pc, part, flag, result, answered, starts>>

Precv_init == (InitDirect \/ InitSpawn \/ InitStore) /\ UNCHANGED recvvars
Negotiate == (SyncSide \/ SyncSetup \/ SyncNothing) /\ UNCHANGED recvvars

\* The request is gone and the system may stop.
Done == main = "freed" /\ UNCHANGED vars

SyncStep == Negotiate \/ SyncCatchUp

Next ==
    \/ Precv_init
    \/ SyncStep
    \/ MPIP_Start
    \/ \E w \in Workers : Poll(w) \/ \E p \in User : MPIP_Parrived(w, p)
    \/ \E i \in Net : MPI_Arrive(i)
    \/ MPIP_Wait \/ Join \/ Waitall \/ Test
    \/ Request_free
    \/ Done

\* As on the send side: calls that were made run on, the sender sends.
Fairness ==
    /\ WF_vars(InitStore /\ UNCHANGED recvvars)
    /\ WF_vars(SyncStep)
    /\ \A w \in Workers : WF_vars(Poll(w))
    /\ \A i \in Net : WF_vars(MPI_Arrive(i))
    /\ WF_vars(Join \/ Waitall)

Spec == Init /\ [][Next]_vars /\ Fairness

-----------------------------------------------------------------------------
(* Properties.                                                             *)

\* Element e of the receive buffer is in a message that has arrived.
ElementDelivered(e) ==
    \E i \in delivered : i * Size <= e /\ e < (i + 1) * Size

\* mpipcl.h on MPIP_Parrived: "1 if the partition has arrived and is ready to
\* be used".  A partition is reported only when every one of its elements
\* arrived in this activation, whichever thread polls and whatever it caches.
ParrivedSound ==
    \A w \in Workers : \A p \in answered[w] :
        \A e \in (p * LocalSize)..((p + 1) * LocalSize - 1) : ElementDelivered(e)

\* send.c on map_recv_buffer: "all results from race condition identical, no
\* lock needed".  A thread that was told a partition arrived is never told
\* the contrary in the same activation, although slower polls of other
\* threads may overwrite the cached flag with 0.
AnswerStable ==
    [][\A w \in Workers :
          (pc[w] # "idle" /\ pc'[w] = "idle" /\ part[w] \in answered[w])
             => result'[w]]_vars

\* Of MPIP_Start and the background thread exactly one posts the receives:
\* none is posted twice in an activation, and once the request is active and
\* no background thread is left to post them, all are posted.
PostedOnce ==
    \A i \in Net :
        /\ starts[i] <= 1
        /\ (state = "ACTIVE" /\ sync \in {"none", "done"}) => starts[i] = 1

\* No poll looks at requests that internal_setup has not created yet or that
\* have been freed, nor at another number of them than was negotiated.
PollSeesArrays ==
    \A w \in Workers : pc[w] \in {"check", "testall", "store"} =>
        parts = Parts /\ \A i \in Net : request[i] # "null"

\* When an activation has been completed by MPIP_Wait or MPIP_Test, every
\* element of the buffer has arrived in it.
CompletionMeansArrived ==
    (round > 0 /\ state = "INACTIVE") =>
        \A e \in 0..(LocalParts * LocalSize - 1) : ElementDelivered(e)

\* A started request gets its receives posted without any further call.
ReceivesGetPosted == (state = "ACTIVE") ~> (\A i \in Net : starts[i] = 1)

\* MPIP_Wait returns once it has been called.
WaitReturns == (main \in {"join", "waitall"}) ~> (main = "idle")
=============================================================================
