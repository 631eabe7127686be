---------------------------- MODULE MPIPRequest -----------------------------
(***************************************************************************)
(* The part of a partitioned request that both sides share: the fields of  *)
(* MPIP_Request, the steps of the main thread that owns the request        *)
(* (init, start, wait, test, free) and the first steps of the background   *)
(* thread that negotiates the number of messages.  SendRequest and         *)
(* RecvRequest extend this module with what their side does.               *)
(*                                                                         *)
(* A run fixes the outcome of the negotiation (Parts, Size); Negotiated    *)
(* says whether this side learns it in a background thread (it is not the  *)
(* side PMODE names) or knows it during the init call.                     *)
(*                                                                         *)
(* The mutex.  Every locked section of the code but one is a single read   *)
(* or a read and a write, and is one atomic step here, enabled when the    *)
(* lock is free.  The long one is the catch-up of the background thread;   *)
(* it holds the lock exactly while sync = "catchup".                       *)
(***************************************************************************)
EXTENDS PartitionMap

CONSTANTS
    LocalParts,   \* local_parts: partitions the user sees on this side
    LocalSize,    \* local_size: elements in each of them
    Parts,        \* parts, once negotiated: internal messages
    Size,         \* size, once negotiated: elements in each of them
    Negotiated,   \* TRUE: a background thread runs the negotiation
    HeapGarbage,  \* entries of local_status that may read as true before
                  \*   anything is stored in them (malloc does not clear)
    MaxRounds,    \* bound on the number of activations of the request
    Windows       \* the scheduling and calling windows left open, see below

User == 0..(LocalParts - 1)
Net  == 0..(Parts - 1)

(***************************************************************************)
(* Windows.  The negotiated path is sensitive to a few schedules and       *)
(* calling orders; a run keeps each of them shut or opens it.              *)
(*   "outrun"    the background thread may end before the init call that   *)
(*               created it stores threaded = RUNNING                      *)
(*   "early"     the main thread may call MPIP_Wait or MPIP_Test while     *)
(*               other threads still have partitions to mark               *)
(***************************************************************************)
AllWindows == {"outrun", "early"}

ASSUME ParamAssumption ==
    /\ LocalParts \in Nat \ {0} /\ LocalSize \in Nat \ {0}
    /\ Parts \in Nat \ {0} /\ Size \in Nat
    /\ Negotiated \in BOOLEAN
    /\ HeapGarbage \subseteq User
    /\ MaxRounds \in Nat
    /\ Windows \subseteq AllWindows

\* The code indexes request[] and internal_status[] with what the partition
\* map returns and never checks it: this is what keeps the index in range.
ASSUME InRangeAssumption == LocalParts <= Parts \/ LocalParts % Parts = 0

VARIABLES
    state,            \* state: INACTIVE or ACTIVE
    threaded,         \* threaded: NONE, RUNNING or FINISHED
    parts,            \* parts: 1 until the negotiation ends
    local_status,     \* local_status: the partitions whose flag reads true
    internal_status,  \* internal_status: counter of each message
    request,          \* request: the MPI request behind each message
    main,             \* where the main thread is
    sync,             \* where the background thread is
    round             \* history: number of activations so far

reqvars == <<state, threaded, parts, local_status, internal_status, request,
             main, sync, round>>

\* A persistent MPI request: not allocated, allocated and not started (or
\* completed and consumed), started, completed and not yet consumed.
RequestState == {"null", "inactive", "active", "complete"}

ReqTypeOK ==
    /\ state \in {"INACTIVE", "ACTIVE"}
    /\ threaded \in {"NONE", "RUNNING", "FINISHED"}
    /\ parts \in {1, Parts}
    /\ local_status \in SUBSET User
    /\ internal_status \in [Net -> Nat]
    /\ request \in [Net -> RequestState]
    /\ main \in {"none", "created", "idle", "join", "waitall", "freed"}
    /\ sync \in {"none", "recv", "setup", "lock", "catchup", "done"}
    /\ round \in 0..MaxRounds

ReqInit ==
    /\ state = "INACTIVE" /\ threaded = "NONE" /\ parts = 1
    /\ local_status = {}
    /\ internal_status = [i \in Net |-> 0]
    /\ request = [i \in Net |-> "null"]
    /\ main = "none" /\ sync = "none" /\ round = 0

LockFree == sync # "catchup"

-----------------------------------------------------------------------------
(* MPI's persistent requests, as the code uses them (external).            *)

\* MPI_Testall's flag, and the condition MPI_Waitall blocks on: an inactive
\* request counts as complete.
NoneActive(S) == \A i \in S : request[i] # "active"

\* Completion found by MPI_Testall or MPI_Waitall deactivates the requests.
Consumed(S) == [i \in Net |-> IF i \in S THEN "inactive" ELSE request[i]]

\* The requests MPI_Testall and MPI_Waitall are given: request[0 .. parts-1].
Waited == 0..(parts - 1)

-----------------------------------------------------------------------------
(* The init call: prep, then sync_driver.                                  *)

\* prep: default values; the flags are whatever malloc returned.
prep ==
    /\ state' = "INACTIVE"
    /\ threaded' = "NONE"
    /\ local_status' \in SUBSET HeapGarbage

\* internal_setup: one inactive persistent request and a zero counter per
\* message.
internal_setup ==
    /\ request' = [i \in Net |-> "inactive"]
    /\ internal_status' = [i \in Net |-> 0]

\* The side that knows the number of messages sets up inside the call.
InitDirect ==
    /\ main = "none" /\ ~Negotiated
    /\ prep
    /\ parts' = Parts
    /\ internal_setup
    /\ main' = "idle"
    /\ UNCHANGED <<sync, round>>

\* The other side creates the background thread ...
InitSpawn ==
    /\ main = "none" /\ Negotiated
    /\ prep
    /\ parts' = 1
    /\ sync' = "recv" /\ main' = "created"
    /\ UNCHANGED <<internal_status, request, round>>

\* ... and stores RUNNING afterwards, without the lock.
InitStore ==
    /\ main = "created"
    /\ threaded' = "RUNNING" /\ main' = "idle"
    /\ UNCHANGED <<state, parts, local_status, internal_status, request, sync,
                   round>>

-----------------------------------------------------------------------------
(* The background thread: threaded_sync_driver.                            *)

\* The thread has n as its number of messages, stored without the lock.
Learn(n) ==
    /\ sync = "recv"
    /\ parts' = n /\ sync' = "setup"
    /\ UNCHANGED <<state, threaded, local_status, internal_status, request,
                   main, round>>

\* Mutant: the thread keeps its own number of partitions.
SyncSide_Local == Learn(LocalParts)

\* sync_side on the side that does not drive: MPI_Recv of the driver's numbers.
SyncSide == Learn(Parts)

SyncSetup ==
    /\ sync = "setup"
    /\ internal_setup
    /\ sync' = "lock"
    /\ UNCHANGED <<state, threaded, parts, local_status, main, round>>

\* The guard of the lock step: with "outrun" shut, the thread takes the lock
\* only after the init call has stored RUNNING.
MayLock == sync = "lock" /\ ("outrun" \in Windows \/ main # "created")

\* Lock taken, the request is not active: nothing to catch up with.
SyncNothing ==
    /\ MayLock /\ state = "INACTIVE"
    /\ threaded' = "FINISHED" /\ sync' = "done"
    /\ UNCHANGED <<state, parts, local_status, internal_status, request, main,
                   round>>

-----------------------------------------------------------------------------
(* MPIP_Start, up to what the sides do differently.                        *)

\* The locked part: read threaded, store ACTIVE.
StartLocked ==
    /\ main = "idle" /\ state = "INACTIVE" /\ LockFree
    /\ round < MaxRounds /\ round' = round + 1
    /\ state' = "ACTIVE"
    /\ UNCHANGED <<threaded, parts, main, sync>>

\* reset_status, and the same loop once more in MPIP_Start itself.
reset_status ==
    /\ internal_status' = [i \in Net |-> IF i < parts THEN 0
                                         ELSE internal_status[i]]
    /\ local_status' = {}

-----------------------------------------------------------------------------
(* Completion.                                                             *)

\* MPIP_Wait reads threaded under the lock and decides whether to join.
EnterWait(join) ==
    /\ main = "idle" /\ LockFree
    /\ main' = IF join THEN "join" ELSE "waitall"
    /\ UNCHANGED <<state, threaded, parts, local_status, internal_status,
                   request, sync, round>>

\* Mutant: a wait that does not join the background thread.
WaitRead_NoJoin == EnterWait(FALSE)

WaitRead == EnterWait(threaded = "RUNNING")

\* pthread_join returns once the thread has returned.
WaitJoin ==
    /\ main = "join" /\ sync = "done"
    /\ main' = "waitall"
    /\ UNCHANGED <<state, threaded, parts, local_status, internal_status,
                   request, sync, round>>

\* MPI has found the requests complete: the activation is over.
Deactivate ==
    /\ request' = Consumed(Waited)
    /\ state' = "INACTIVE" /\ main' = "idle"
    /\ UNCHANGED <<threaded, parts, local_status, internal_status, sync, round>>

\* Mutant: the state becomes inactive without MPI_Waitall.
WaitReturn_NoWait ==
    /\ main = "waitall"
    /\ state' = "INACTIVE" /\ main' = "idle"
    /\ UNCHANGED <<threaded, parts, local_status, internal_status, request,
                   sync, round>>

\* Mutant: requests a poll has already deactivated are waited for again.
WaitReturn_FreshOnly ==
    main = "waitall" /\ (\A i \in Waited : request[i] = "complete") /\ Deactivate

\* MPI_Waitall returns, the state becomes inactive.
WaitReturn == main = "waitall" /\ NoneActive(Waited) /\ Deactivate

\* MPIP_Test that returns flag = 1.  The calls that return 0 (inactive,
\* negotiation still running, some message active) change nothing.
MPIP_Test ==
    /\ main = "idle" /\ state = "ACTIVE" /\ LockFree
    /\ threaded # "RUNNING" /\ NoneActive(Waited)
    /\ Deactivate

\* MPIP_Request_free: the MPI requests the request knows of, every array and
\* the lock are freed, at any time the request is not active; the background
\* thread is not joined.
MPIP_Request_free ==
    /\ main = "idle" /\ state = "INACTIVE"
    /\ request' = [i \in Net |-> IF i \in Waited THEN "null" ELSE request[i]]
    /\ main' = "freed"
    /\ UNCHANGED <<state, threaded, parts, local_status, internal_status, sync,
                   round>>

-----------------------------------------------------------------------------
(* Properties of the lifetime, the same on both sides.                     *)

\* A request that was completed before it is freed leaves nothing behind: the
\* background thread has returned and will not touch the freed fields, and no
\* MPI request is left allocated, because MPIP_Wait joins the thread and
\* MPIP_Test completes nothing while it runs.  A request freed before its first
\* activation is another matter: MPIP_Request_free.c says "clean up hanging
\* threads" and joins none.
FreedMeansQuiet ==
    (main = "freed" /\ round > 0) =>
        /\ sync \in {"none", "done"}
        /\ \A i \in Net : request[i] = "null"

\* MPI_Waitall is given initialised requests, as many as were negotiated: the
\* wait never looks at parts or request before the thread has filled them in.
WaitSeesArrays ==
    main = "waitall" => parts = Parts /\ \A i \in Net : request[i] # "null"
=============================================================================
