----------------------------- MODULE Completion -----------------------------
(***************************************************************************)
(* The operations on an array of requests.  Each is a loop of MPIP_Start,  *)
(* MPIP_Wait or MPIP_Test over the array, run by the main thread while     *)
(* background threads end their negotiations and messages arrive between   *)
(* any two turns.                                                          *)
(*                                                                         *)
(* The requests are receives with one message behind each: what a single   *)
(* request does inside MPIP_Start, MPIP_Wait and MPIP_Test is the subject  *)
(* of RecvRequest, where one call is several steps.  Here such a call is   *)
(* one step.  Assumed of the caller, as MPI asks: only inactive requests   *)
(* are started.                                                            *)
(***************************************************************************)
EXTENDS Integers, Sequences, FiniteSets

CONSTANTS
    Count,      \* count: the length of the array
    Threaded,   \* the requests negotiated by a background thread
    MaxRounds   \* bound on the activations of each request

Index == 0..(Count - 1)

ASSUME CompletionAssumption ==
    Count \in Nat \ {0} /\ Threaded \subseteq Index /\ MaxRounds \in Nat

Operations == {"Startall", "Waitall", "Waitany", "Waitsome", "Testall",
               "Testany", "Testsome"}

VARIABLES
    state,     \* state of each request
    threaded,  \* threaded of each request
    request,   \* the MPI request behind each
    op,        \* the operation the main thread is in, or "none"
    i,         \* its loop index
    flag,      \* its flag
    index,     \* the indices it has stored: *index or array_of_indices
    round,     \* history: activations of each request so far
    arrived,   \* history: requests whose message arrived in this activation
    before     \* history: requests that were active when op was called

reqvars == <<state, threaded, request, round, arrived>>
callvars == <<op, i, flag, index, before>>
vars == <<reqvars, callvars>>

TypeOK ==
    /\ state \in [Index -> {"INACTIVE", "ACTIVE"}]
    /\ threaded \in [Index -> {"NONE", "RUNNING", "FINISHED"}]
    /\ request \in [Index -> {"null", "inactive", "active", "complete"}]
    /\ op \in Operations \union {"none"}
    /\ i \in 0..Count /\ flag \in BOOLEAN
    /\ index \in Seq(Index) /\ Len(index) <= Count
    /\ round \in [Index -> 0..MaxRounds]
    /\ arrived \subseteq Index /\ before \subseteq Index

Init ==
    /\ state = [r \in Index |-> "INACTIVE"]
    /\ threaded = [r \in Index |-> IF r \in Threaded THEN "RUNNING" ELSE "NONE"]
    /\ request = [r \in Index |-> IF r \in Threaded THEN "null" ELSE "inactive"]
    /\ op = "none" /\ i = 0 /\ flag = FALSE /\ index = <<>>
    /\ round = [r \in Index |-> 0] /\ arrived = {} /\ before = {}

Active == {r \in Index : state[r] = "ACTIVE"}

-----------------------------------------------------------------------------
(* One call on one request.                                                *)

\* MPIP_Start: the receive is posted, or left to the background thread.
MPIP_Start(r) ==
    /\ state[r] = "INACTIVE" /\ round[r] < MaxRounds
    /\ state' = [state EXCEPT ![r] = "ACTIVE"]
    /\ request' = IF threaded[r] = "RUNNING" THEN request
                  ELSE [request EXCEPT ![r] = "active"]
    /\ round' = [round EXCEPT ![r] = @ + 1]
    /\ arrived' = arrived \ {r}
    /\ UNCHANGED threaded

\* Request r is complete and becomes inactive.
Deactivate(r) ==
    /\ state' = [state EXCEPT ![r] = "INACTIVE"]
    /\ request' = [request EXCEPT ![r] = "inactive"]
    /\ UNCHANGED <<threaded, round, arrived>>

\* MPIP_Wait returns: the thread is joined, no message is active.
MPIP_Wait(r) ==
    threaded[r] # "RUNNING" /\ request[r] # "active" /\ Deactivate(r)

\* Mutant: the test of a request that is not set up yet is not cut short.
Complete_Unsynced(r) == state[r] = "ACTIVE" /\ request[r] # "active"

\* MPIP_Test of r returns 1: it is active, set up, and its message complete.
Complete(r) ==
    state[r] = "ACTIVE" /\ threaded[r] # "RUNNING" /\ request[r] # "active"

\* MPIP_Test, with either result.
MPIP_Test(r) == IF Complete(r) THEN Deactivate(r) ELSE UNCHANGED reqvars

-----------------------------------------------------------------------------
(* The loops.  Each action is one turn or the end of the loop.             *)

\* The main thread calls o.
Call(o) ==
    /\ op = "none" /\ op' = o /\ i' = 0 /\ index' = <<>> /\ before' = Active
    /\ o = "Startall" => \A r \in Index : r \notin Active /\ round[r] < MaxRounds
    /\ flag' = (o = "Testall")
    /\ UNCHANGED reqvars

\* In o, at the end of the loop over the array.
AtEnd(o) == op = o /\ i = Count

Return == op' = "none" /\ UNCHANGED <<reqvars, i, flag, index, before>>

\* The enclosing while loop goes round again.
Again == i' = 0 /\ UNCHANGED <<reqvars, op, flag, index, before>>

\* In o, one turn of the loop over the array that stores nothing.
Turn(o) == op = o /\ i < Count /\ i' = i + 1 /\ UNCHANGED <<op, index, before>>

MPIP_Startall ==
    \/ Turn("Startall") /\ MPIP_Start(i) /\ UNCHANGED flag
    \/ AtEnd("Startall") /\ Return

MPIP_Waitall ==
    \/ Turn("Waitall") /\ MPIP_Wait(i) /\ UNCHANGED flag
    \/ AtEnd("Waitall") /\ Return

\* Mutant: the flag of the last request is returned.
MPIP_Testall_Last ==
    \/ Turn("Testall") /\ MPIP_Test(i) /\ flag' = Complete(i)
    \/ AtEnd("Testall") /\ Return

\* All requests are tested; the flags are combined by &.
MPIP_Testall ==
    \/ Turn("Testall") /\ MPIP_Test(i) /\ flag' = (flag /\ Complete(i))
    \/ AtEnd("Testall") /\ Return

\* One turn of the loops that stop at the first complete request, which is
\* returned in *index, if break holds.
TestUntil(o, break) ==
    /\ op = o /\ i < Count /\ MPIP_Test(i)
    /\ flag' = Complete(i)
    /\ index' = IF Complete(i) THEN <<i>> ELSE index
    /\ IF Complete(i) /\ break THEN op' = "none" /\ UNCHANGED i
                               ELSE i' = i + 1 /\ UNCHANGED op
    /\ UNCHANGED before

MPIP_Testany == TestUntil("Testany", TRUE) \/ (AtEnd("Testany") /\ Return)

\* Mutant: the loop over the array goes on after a complete request.
MPIP_Waitany_NoBreak ==
    \/ TestUntil("Waitany", FALSE)
    \/ AtEnd("Waitany") /\ IF flag THEN Return ELSE Again

MPIP_Waitany ==
    \/ TestUntil("Waitany", TRUE)
    \/ AtEnd("Waitany") /\ IF flag THEN Return ELSE Again

\* One turn of the loops that collect every complete request: the index is
\* stored if store holds.
TestEach(o, store) ==
    /\ op = o /\ i < Count /\ i' = i + 1 /\ MPIP_Test(i)
    /\ index' = IF store THEN Append(index, i) ELSE index
    /\ flag' = Complete(i)
    /\ UNCHANGED <<op, before>>

MPIP_Testsome ==
    \/ TestEach("Testsome", Complete(i))
    \/ AtEnd("Testsome") /\ Return

\* Mutant: an index is stored for every test, whatever its result.
MPIP_Waitsome_Overrun ==
    \/ TestEach("Waitsome", TRUE)
    \/ AtEnd("Waitsome") /\ IF flag THEN Return ELSE Again

\* Mutant: the loop goes on until every index is stored.
MPIP_Waitsome_Full ==
    \/ TestEach("Waitsome", Complete(i))
    \/ AtEnd("Waitsome") /\ IF Len(index) < Count THEN Again ELSE Return

MPIP_Waitsome ==
    \/ TestEach("Waitsome", Complete(i))
    \/ AtEnd("Waitsome") /\ IF Len(index) < 1 THEN Again ELSE Return

Loop == \/ MPIP_Startall \/ MPIP_Waitall \/ MPIP_Waitany \/ MPIP_Waitsome
        \/ MPIP_Testall \/ MPIP_Testany \/ MPIP_Testsome

-----------------------------------------------------------------------------
(* What happens meanwhile.                                                 *)

\* The background thread of r sets the request up, posts the receive if r was
\* started, and ends.
threaded_sync_driver(r) ==
    /\ threaded[r] = "RUNNING"
    /\ threaded' = [threaded EXCEPT ![r] = "FINISHED"]
    /\ request' = [request EXCEPT ![r] = IF state[r] = "ACTIVE" THEN "active"
                                                                ELSE "inactive"]
    /\ UNCHANGED <<state, round, arrived, callvars>>

\* The message of r arrives (external).
MPI_Arrive(r) ==
    /\ request[r] = "active"
    /\ request' = [request EXCEPT ![r] = "complete"]
    /\ arrived' = arrived \union {r}
    /\ UNCHANGED <<state, threaded, round, callvars>>

Next ==
    \/ \E o \in Operations : Call(o)
    \/ op = "none" /\ (\E r \in Index : MPIP_Start(r)) /\ UNCHANGED callvars
    \/ Loop
    \/ \E r \in Index : threaded_sync_driver(r) \/ MPI_Arrive(r)

\* Calls run on, negotiations end, the senders send; the user need not call.
Fairness ==
    /\ WF_vars(Loop)
    /\ \A r \in Index : WF_vars(threaded_sync_driver(r)) /\ WF_vars(MPI_Arrive(r))

Spec == Init /\ [][Next]_vars /\ Fairness

-----------------------------------------------------------------------------
(* Properties.                                                             *)

\* The operation o returns in this step.
Returns(o) == op = o /\ op' = "none"

\* The requests this call has found complete.
CompletedByCall == {r \in before : state[r] = "INACTIVE"}

\* mpipcl.h: the operations are to be "used the same as" MPI's.  Each request
\* that Waitany, Waitsome, Testany or Testsome makes inactive is reported, once
\* and by the same call; Waitany reports one, Waitsome at least one.  A request
\* consumed and not reported would be lost to the user.
NothingLost ==
    [][/\ \A o \in {"Waitany", "Waitsome", "Testany", "Testsome"} :
             Returns(o) =>
                /\ CompletedByCall' = {index'[k] : k \in 1..Len(index')}
                /\ Cardinality(CompletedByCall') = Len(index')
       /\ Returns("Waitany") => Len(index') = 1
       /\ Returns("Waitsome") => Len(index') >= 1]_vars

\* When Waitall returns, or Testall returns 1, no request is left active: what
\* an earlier turn found complete stays so while the later turns run.
AllMeansAll ==
    [][(Returns("Waitall") \/ (Returns("Testall") /\ flag')) => Active' = {}]_vars

\* No operation makes an active request inactive before its message of this
\* activation has arrived, whichever background thread is still running.
CompletionMeansArrived ==
    [][\A r \in Index :
          (state[r] = "ACTIVE" /\ state'[r] = "INACTIVE") => r \in arrived]_vars

\* A call to Waitany or Waitsome with an active request in the array, and every
\* call to Waitall, returns.  (With none active Waitany and Waitsome spin for
\* ever, where MPI's return at once.)
WaitsReturn ==
    /\ (op \in {"Waitany", "Waitsome"} /\ Active # {}) ~> (op = "none")
    /\ (op = "Waitall") ~> (op = "none")

\* MPI_Testall, which mpipcl.h says MPIP_Testall can be used the same as,
\* returns 0 only while some request is not complete: a user who repeats the
\* call while it returns 0 has something left to wait for.  Stated for arrays
\* whose requests have all been started the same number of times.
TestallReports ==
    [][(/\ Returns("Testall") /\ ~flag' /\ before # {}
        /\ \A r \in Index : round[r] = round[0]) => Active' # {}]_vars
=============================================================================
