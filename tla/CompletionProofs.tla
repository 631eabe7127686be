-------------------------- MODULE CompletionProofs --------------------------
(***************************************************************************)
(* Proofs about the operations on arrays of requests, for arrays of every  *)
(* length, whichever requests have a background thread, and any number of  *)
(* activations.                                                            *)
(***************************************************************************)
EXTENDS Completion, FiniteSetTheorems, SequenceTheorems, TLAPS

-----------------------------------------------------------------------------
(* The inductive invariant.                                                *)

\* Behind a request: nothing while its thread runs; once the thread is joined
\* an active request has a receive posted, complete only if its message came.
Behind ==
    \A r \in Index :
        /\ threaded[r] = "RUNNING" => request[r] = "null"
        /\ state[r] = "ACTIVE" /\ threaded[r] # "RUNNING"
              => request[r] \in {"active", "complete"}
        /\ request[r] = "complete" => r \in arrived

\* The requests are started between calls or by Startall, so what is active
\* in another call was active when it began.
Begun == op \notin {"none", "Startall"} => Active \subseteq before

\* What the turns so far have established, operation by operation.
All ==
    /\ op = "Waitall" => \A r \in 0..(i - 1) : state[r] = "INACTIVE"
    /\ op = "Testall" /\ flag => 0..(i - 1) \subseteq CompletedByCall

\* Waitany and Testany have consumed nothing before the turn they return in.
Any == op \in {"Waitany", "Testany"} =>
           CompletedByCall = {} /\ index = <<>> /\ ~flag

\* The values of a sequence.
Values(s) == {s[k] : k \in 1..Len(s)}

\* Waitsome and Testsome have stored what they have consumed.
Some == op \in {"Waitsome", "Testsome"} =>
            /\ CompletedByCall = Values(index)
            /\ Cardinality(CompletedByCall) = Len(index)

IInv == TypeOK /\ Behind /\ Begun /\ All /\ Any /\ Some

\* The parts of TypeOK about the requests and about the call, and the parts of
\* the invariant about the call.
RequestTypes ==
    /\ state \in [Index -> {"INACTIVE", "ACTIVE"}]
    /\ threaded \in [Index -> {"NONE", "RUNNING", "FINISHED"}]
    /\ request \in [Index -> {"null", "inactive", "active", "complete"}]
    /\ round \in [Index -> 0..MaxRounds]
    /\ arrived \subseteq Index

CallTypes ==
    /\ op \in Operations \union {"none"}
    /\ i \in 0..Count /\ flag \in BOOLEAN
    /\ index \in Seq(Index) /\ Len(index) <= Count
    /\ before \subseteq Index

Requests == RequestTypes /\ Behind

Calling == CallTypes /\ Begun /\ All /\ Any /\ Some

\* The invariant is what it says of the requests and of the call.
LEMMA Parts == IInv <=> Requests /\ Calling
BY DEF IInv, TypeOK, Requests, RequestTypes, Calling, CallTypes

-----------------------------------------------------------------------------
(* The requests.                                                           *)

\* Starting a request leaves the receive to its thread or posts it.
LEMMA StartKeeps ==
    ASSUME Requests, NEW r \in Index, MPIP_Start(r)
    PROVE  Requests'
<1>1. RequestTypes'
  BY CompletionAssumption DEF Requests, RequestTypes, MPIP_Start
<1>2. Behind'
  BY DEF Requests, RequestTypes, Behind, MPIP_Start
<1> QED
  BY <1>1, <1>2 DEF Requests

\* A request without a thread may be made inactive.
LEMMA DeactivateKeeps ==
    ASSUME Requests, NEW r \in Index, threaded[r] # "RUNNING", Deactivate(r)
    PROVE  Requests' /\ Active' = Active \ {r}
<1>1. RequestTypes'
  BY DEF Requests, RequestTypes, Deactivate
<1>2. Behind'
  BY DEF Requests, RequestTypes, Behind, Deactivate
<1>3. Active' = Active \ {r}
  BY DEF Requests, RequestTypes, Deactivate, Active
<1> QED
  BY <1>1, <1>2, <1>3 DEF Requests

\* MPIP_Test makes the request inactive when it is complete, and else changes
\* nothing.
LEMMA TestKeeps ==
    ASSUME Requests, NEW r \in Index, MPIP_Test(r)
    PROVE  /\ Requests'
           /\ Complete(r) => r \in Active /\ Active' = Active \ {r}
           /\ ~Complete(r) => UNCHANGED state /\ Active' = Active
<1>1. CASE Complete(r)
  <2>1. Deactivate(r) /\ threaded[r] # "RUNNING" /\ state[r] = "ACTIVE"
    BY <1>1 DEF MPIP_Test, Complete
  <2> QED
    BY <1>1, <2>1, DeactivateKeeps DEF Active
<1>2. CASE ~Complete(r)
  <2>1. UNCHANGED <<state, threaded, request, round, arrived>>
    BY <1>2 DEF MPIP_Test, reqvars
  <2> QED
    BY <1>2, <2>1 DEF Requests, RequestTypes, Behind, Active
<1> QED
  BY <1>1, <1>2

\* What a test adds to the requests the call has consumed.
LEMMA TestConsumes ==
    ASSUME Requests, Active \subseteq before, before \subseteq Index,
           NEW r \in Index, MPIP_Test(r), UNCHANGED before
    PROVE  /\ Active' \subseteq before'
           /\ Complete(r) => /\ r \notin CompletedByCall
                             /\ CompletedByCall' = CompletedByCall \union {r}
           /\ ~Complete(r) => CompletedByCall' = CompletedByCall
<1>1. state \in [Index -> {"INACTIVE", "ACTIVE"}]
      /\ state' \in [Index -> {"INACTIVE", "ACTIVE"}]
  BY TestKeeps DEF Requests, RequestTypes
<1>2. CompletedByCall = before \ Active /\ CompletedByCall' = before \ Active'
  BY <1>1 DEF CompletedByCall, Active
<1> QED
  BY <1>2, TestKeeps

\* The end of a negotiation and the arrival of a message.
LEMMA BackgroundKeeps ==
    ASSUME Requests, NEW r \in Index, threaded_sync_driver(r) \/ MPI_Arrive(r)
    PROVE  Requests' /\ UNCHANGED <<state, callvars>>
<1>1. CASE threaded_sync_driver(r)
  <2>1. RequestTypes'
    BY <1>1 DEF Requests, RequestTypes, threaded_sync_driver
  <2>2. Behind'
    BY <1>1 DEF Requests, RequestTypes, Behind, threaded_sync_driver
  <2> QED
    BY <1>1, <2>1, <2>2 DEF Requests, threaded_sync_driver
<1>2. CASE MPI_Arrive(r)
  <2>1. RequestTypes'
    BY <1>2 DEF Requests, RequestTypes, MPI_Arrive
  <2>2. Behind'
    BY <1>2 DEF Requests, RequestTypes, Behind, MPI_Arrive
  <2> QED
    BY <1>2, <2>1, <2>2 DEF Requests, MPI_Arrive
<1> QED
  BY <1>1, <1>2

\* What the invariant says of a call reads the states and the call only.
LEMMA CallingKept ==
    ASSUME Calling, UNCHANGED <<state, callvars>>
    PROVE  Calling'
BY DEF Calling, CallTypes, Begun, All, Any, Some, CompletedByCall, Active,
   callvars

-----------------------------------------------------------------------------
(* The turns of the loops.                                                 *)

\* The array is finite.
LEMMA Finite ==
    ASSUME NEW S \in SUBSET Index
    PROVE  IsFiniteSet(S) /\ Cardinality(S) \in Nat /\ Cardinality(S) <= Count
<1>1. IsFiniteSet(Index) /\ Cardinality(Index) = Count
  BY CompletionAssumption, FS_Interval DEF Index
<1> QED
  BY <1>1, FS_Subset, FS_CardinalityType

\* The values of a sequence that grows.
LEMMA AppendValues ==
    ASSUME NEW s \in Seq(Index), NEW r \in Index
    PROVE  /\ Append(s, r) \in Seq(Index) /\ Len(Append(s, r)) = Len(s) + 1
           /\ Values(Append(s, r)) = Values(s) \union {r}
<1>1. /\ Append(s, r) \in Seq(Index) /\ Len(Append(s, r)) = Len(s) + 1
      /\ \A k \in 1..Len(s) : Append(s, r)[k] = s[k]
      /\ Append(s, r)[Len(s) + 1] = r
  BY AppendProperties
<1>2. Len(s) \in Nat
  BY LenProperties
<1> DEFINE t == Append(s, r)
<1> HIDE DEF t
<1>3. \A k \in 1..Len(t) : t[k] \in Values(s) \union {r}
  BY <1>1, <1>2 DEF t, Values
<1>4. \A v \in Values(s) \union {r} : \E k \in 1..Len(t) : t[k] = v
  BY <1>1, <1>2 DEF t, Values
<1>5. Values(t) = Values(s) \union {r}
  BY <1>3, <1>4 DEF Values
<1> QED
  BY <1>1, <1>5 DEF t

\* A call begins with nothing consumed.
LEMMA CallBegins ==
    ASSUME Requests, Calling, NEW o \in Operations, Call(o)
    PROVE  Calling'
<1>1. /\ op' = o /\ i' = 0 /\ index' = <<>> /\ before' = Active
      /\ flag' = (o = "Testall") /\ UNCHANGED state
  BY DEF Call, reqvars
<1>2. Active' = Active /\ CompletedByCall' = {}
  BY <1>1 DEF Active, CompletedByCall
<1>3. CallTypes'
  BY <1>1, CompletionAssumption, EmptySeq DEF CallTypes, Active
<1>4. Begun' /\ All'
  BY <1>1, <1>2 DEF Begun, All
<1>5. Any'
  BY <1>1, <1>2 DEF Any
<1>6. Some'
  <2>1. Values(<<>>) = {} /\ Cardinality({}) = 0 /\ Len(<<>>) = 0
    BY FS_EmptySet, EmptySeq DEF Values
  <2> QED
    BY <1>1, <1>2, <2>1 DEF Some
<1> QED
  BY <1>3, <1>4, <1>5, <1>6 DEF Calling

\* After a call nothing is claimed of it.
LEMMA BetweenCalls ==
    ASSUME CallTypes', op' = "none"
    PROVE  Calling'
BY DEF Calling, Begun, All, Any, Some

\* MPIP_Startall: its turns start inactive requests.
LEMMA StartallKeeps ==
    ASSUME Requests, Calling, MPIP_Startall
    PROVE  Requests' /\ Calling'
<1>1. CASE Turn("Startall") /\ MPIP_Start(i) /\ UNCHANGED flag
  <2>1. i \in Index /\ i' \in 0..Count /\ UNCHANGED <<op, flag, index, before>>
        /\ op = "Startall"
    BY <1>1, CompletionAssumption DEF Turn, Calling, CallTypes, Index
  <2>2. Requests'
    BY <1>1, <2>1, StartKeeps
  <2>3. Calling'
    BY <2>1 DEF Calling, CallTypes, Begun, All, Any, Some
  <2> QED
    BY <2>2, <2>3
<1>2. CASE AtEnd("Startall") /\ Return
  <2>1. op' = "none" /\ UNCHANGED <<reqvars, i, flag, index, before>>
    BY <1>2 DEF Return
  <2>2. Requests'
    BY <2>1 DEF Requests, RequestTypes, Behind, reqvars
  <2> QED
    BY <2>1, <2>2, BetweenCalls DEF Calling, CallTypes
<1> QED
  BY <1>1, <1>2 DEF MPIP_Startall

\* The end of a loop, in either way.
LEMMA EndKeeps ==
    ASSUME Requests, Calling, Return
    PROVE  Requests' /\ Calling' /\ UNCHANGED <<state, flag, index>>
           /\ CompletedByCall' = CompletedByCall
<1>1. op' = "none" /\ UNCHANGED <<i, flag, index, before>>
      /\ UNCHANGED <<state, threaded, request, round, arrived>>
  BY DEF Return, reqvars
<1>2. Requests'
  BY <1>1 DEF Requests, RequestTypes, Behind
<1> QED
  BY <1>1, <1>2, BetweenCalls DEF Calling, CallTypes, CompletedByCall

\* Going round again loses nothing.
LEMMA AgainKeeps ==
    ASSUME Requests, Calling, Again, op \in {"Waitany", "Waitsome"}
    PROVE  Requests' /\ Calling'
<1>1. i' = 0 /\ UNCHANGED <<op, flag, index, before>>
      /\ UNCHANGED <<state, threaded, request, round, arrived>>
  BY DEF Again, reqvars
<1>2. Requests'
  BY <1>1 DEF Requests, RequestTypes, Behind
<1>3. CallTypes' /\ All'
  BY <1>1, CompletionAssumption DEF Calling, CallTypes, All
<1>4. Begun' /\ Any' /\ Some'
  BY <1>1 DEF Calling, Begun, Any, Some, CompletedByCall, Active
<1> QED
  BY <1>2, <1>3, <1>4 DEF Calling

\* MPIP_Waitall: the requests passed so far stay inactive.
LEMMA WaitallKeeps ==
    ASSUME Requests, Calling, MPIP_Waitall
    PROVE  Requests' /\ Calling'
<1>1. CASE Turn("Waitall") /\ MPIP_Wait(i) /\ UNCHANGED flag
  <2>1. i \in Index /\ i' = i + 1 /\ i' \in 0..Count /\ op = "Waitall"
        /\ UNCHANGED <<op, flag, index, before>>
    BY <1>1, CompletionAssumption DEF Turn, Calling, CallTypes, Index
  <2>2. threaded[i] # "RUNNING" /\ Deactivate(i)
    BY <1>1 DEF MPIP_Wait
  <2>3. Requests' /\ Active' = Active \ {i}
    BY <2>1, <2>2, DeactivateKeeps
  <2>4. state' = [state EXCEPT ![i] = "INACTIVE"]
    BY <2>2 DEF Deactivate
  <2>5. All'
    <3>1. \A r \in 0..(i' - 1) : state'[r] = "INACTIVE"
      BY <2>1, <2>4, CompletionAssumption
         DEF Calling, CallTypes, All, Requests, RequestTypes, Index
    <3> QED
      BY <2>1, <3>1 DEF All
  <2>6. CallTypes' /\ Begun' /\ Any' /\ Some'
    BY <2>1, <2>3 DEF Calling, CallTypes, Begun, Any, Some
  <2> QED
    BY <2>3, <2>5, <2>6 DEF Calling
<1>2. CASE AtEnd("Waitall") /\ Return
  BY <1>2, EndKeeps
<1> QED
  BY <1>1, <1>2 DEF MPIP_Waitall

\* MPIP_Testall: the flag says of the requests tested so far that this call
\* has found them complete.
LEMMA TestallKeeps ==
    ASSUME Requests, Calling, MPIP_Testall
    PROVE  Requests' /\ Calling'
<1>1. CASE Turn("Testall") /\ MPIP_Test(i) /\ flag' = (flag /\ Complete(i))
  <2>1. i \in Index /\ i' = i + 1 /\ i' \in 0..Count /\ op = "Testall"
        /\ UNCHANGED <<op, index, before>>
    BY <1>1, CompletionAssumption DEF Turn, Calling, CallTypes, Index
  <2>2. Requests'
    BY <1>1, <2>1, TestKeeps
  <2>3. Active \subseteq before /\ before \subseteq Index
    BY <2>1 DEF Calling, CallTypes, Begun
  <2>4. /\ Active' \subseteq before'
        /\ Complete(i) => CompletedByCall' = CompletedByCall \union {i}
    BY <1>1, <2>1, <2>3, TestConsumes
  <2>5. All'
    <3>1. ASSUME flag'
          PROVE  0..(i' - 1) \subseteq CompletedByCall'
      <4>1. flag /\ Complete(i)
        BY <1>1, <3>1
      <4>2. 0..(i - 1) \subseteq CompletedByCall
        BY <2>1, <4>1 DEF Calling, All
      <4>3. 0..(i' - 1) = 0..(i - 1) \union {i}
        BY <2>1, CompletionAssumption DEF Index
      <4> QED
        BY <2>4, <4>1, <4>2, <4>3
    <3> QED
      BY <2>1, <3>1 DEF All
  <2>6. CallTypes' /\ Begun' /\ Any' /\ Some'
    BY <1>1, <2>1, <2>4 DEF Calling, CallTypes, Begun, Any, Some, Complete
  <2> QED
    BY <2>2, <2>5, <2>6 DEF Calling
<1>2. CASE AtEnd("Testall") /\ Return
  BY <1>2, EndKeeps
<1> QED
  BY <1>1, <1>2 DEF MPIP_Testall

\* A turn of Waitany or Testany: the request found complete is the one stored,
\* and the call returns.
LEMMA UntilKeeps ==
    ASSUME Requests, Calling, NEW o \in {"Waitany", "Testany"}, TestUntil(o, TRUE)
    PROVE  /\ Requests' /\ Calling'
           /\ op' = "none" => CompletedByCall' = {i} /\ index' = <<i>>
<1>1. i \in Index /\ op = o /\ UNCHANGED before /\ MPIP_Test(i)
      /\ flag' = Complete(i)
  BY CompletionAssumption DEF TestUntil, Calling, CallTypes, Index
<1>2. Active \subseteq before /\ before \subseteq Index
      /\ CompletedByCall = {} /\ index = <<>>
  BY <1>1 DEF Calling, CallTypes, Begun, Any
<1>3. Requests' /\ Active' \subseteq before'
      /\ (Complete(i) => CompletedByCall' = {i})
      /\ (~Complete(i) => CompletedByCall' = {})
  BY <1>1, <1>2, TestKeeps, TestConsumes
<1>4. CASE Complete(i)
  <2>1. op' = "none" /\ index' = <<i>> /\ i' = i
    BY <1>4 DEF TestUntil
  <2>2. <<i>> \in Seq(Index) /\ Len(<<i>>) = 1
    BY <1>1
  <2>3. CallTypes'
    BY <1>1, <1>4, <2>1, <2>2, CompletionAssumption DEF Calling, CallTypes
  <2> QED
    BY <1>3, <1>4, <2>1, <2>3, BetweenCalls
<1>5. CASE ~Complete(i)
  <2>1. i' = i + 1 /\ UNCHANGED <<op, index>>
    BY <1>5 DEF TestUntil
  <2>2. CallTypes'
    BY <1>1, <1>5, <2>1, CompletionAssumption
       DEF Calling, CallTypes, Index, Complete
  <2>3. Begun' /\ All' /\ Any' /\ Some'
    BY <1>1, <1>2, <1>3, <1>5, <2>1 DEF Begun, All, Any, Some
  <2> QED
    BY <1>1, <1>3, <2>1, <2>2, <2>3 DEF Calling
<1> QED
  BY <1>4, <1>5

\* A turn of Waitsome or Testsome: the request found complete is stored behind
\* those found before.
LEMMA EachKeeps ==
    ASSUME Requests, Calling, NEW o \in {"Waitsome", "Testsome"},
           TestEach(o, Complete(i))
    PROVE  Requests' /\ Calling' /\ op' = op
<1>1. /\ i \in Index /\ i' = i + 1 /\ op = o /\ op' = o /\ UNCHANGED before
      /\ MPIP_Test(i) /\ flag' = Complete(i)
      /\ index' = IF Complete(i) THEN Append(index, i) ELSE index
  BY CompletionAssumption DEF TestEach, Calling, CallTypes, Index
<1>2. Active \subseteq before /\ before \subseteq Index /\ index \in Seq(Index)
      /\ CompletedByCall = Values(index)
      /\ Cardinality(CompletedByCall) = Len(index)
  BY <1>1 DEF Calling, CallTypes, Begun, Some
<1>3. /\ Requests' /\ Active' \subseteq before'
      /\ Complete(i) => /\ i \notin CompletedByCall
                        /\ CompletedByCall' = CompletedByCall \union {i}
      /\ ~Complete(i) => CompletedByCall' = CompletedByCall
  BY <1>1, <1>2, TestKeeps, TestConsumes
<1>4. CompletedByCall \in SUBSET Index /\ CompletedByCall' \in SUBSET Index
  BY <1>1, <1>2 DEF CompletedByCall
<1>5. index' \in Seq(Index) /\ CompletedByCall' = Values(index')
      /\ Cardinality(CompletedByCall') = Len(index')
  <2>1. CASE Complete(i)
    <3>1. /\ Append(index, i) \in Seq(Index)
          /\ Len(Append(index, i)) = Len(index) + 1
          /\ Values(Append(index, i)) = Values(index) \union {i}
      BY <1>1, <1>2, AppendValues
    <3>2. Cardinality(CompletedByCall \union {i}) = Cardinality(CompletedByCall) + 1
      BY <1>3, <1>4, <2>1, Finite, FS_AddElement
    <3> QED
      BY <1>1, <1>2, <1>3, <2>1, <3>1, <3>2
  <2>2. CASE ~Complete(i)
    BY <1>1, <1>2, <1>3, <2>2
  <2> QED
    BY <2>1, <2>2
<1>6. Len(index') <= Count
  BY <1>4, <1>5, Finite
<1>7. CallTypes'
  BY <1>1, <1>2, <1>5, <1>6, CompletionAssumption
     DEF Calling, CallTypes, Index, Complete
<1>8. Begun' /\ All' /\ Any' /\ Some'
  BY <1>1, <1>3, <1>5 DEF Begun, All, Any, Some
<1> QED
  BY <1>1, <1>3, <1>7, <1>8 DEF Calling

-----------------------------------------------------------------------------
(* The invariant holds.                                                    *)

\* Initially nothing is active and no call is made.
LEMMA InitIInv == Init => IInv
<1> SUFFICES ASSUME Init PROVE Requests /\ Calling
  BY Parts
<1>1. RequestTypes
  BY CompletionAssumption DEF Init, RequestTypes
<1>2. Behind
  BY DEF Init, Behind
<1>3. CallTypes
  <2>1. <<>> \in Seq(Index) /\ Len(<<>>) = 0
    BY EmptySeq
  <2>2. index = <<>> /\ op = "none" /\ i = 0 /\ flag = FALSE /\ before = {}
    BY DEF Init
  <2>3. flag \in BOOLEAN /\ index \in Seq(Index) /\ before \subseteq Index
    BY <2>1, <2>2, Zenon
  <2>4. Len(index) <= Count /\ i \in 0..Count
    BY <2>1, <2>2, CompletionAssumption
  <2> QED
    BY <2>2, <2>3, <2>4 DEF CallTypes
<1>4. Calling
  BY <1>3 DEF Init, Calling, Begun, All, Any, Some
<1> QED
  BY <1>1, <1>2, <1>4 DEF Requests

\* Every turn of every loop preserves the invariant.
LEMMA LoopKeeps ==
    ASSUME Requests, Calling, Loop
    PROVE  Requests' /\ Calling'
<1>1. CASE MPIP_Waitany
  BY <1>1, UntilKeeps, EndKeeps, AgainKeeps DEF MPIP_Waitany, AtEnd
<1>2. CASE MPIP_Testany
  BY <1>2, UntilKeeps, EndKeeps DEF MPIP_Testany
<1>3. CASE MPIP_Waitsome
  BY <1>3, EachKeeps, EndKeeps, AgainKeeps DEF MPIP_Waitsome, AtEnd
<1>4. CASE MPIP_Testsome
  BY <1>4, EachKeeps, EndKeeps DEF MPIP_Testsome
<1> QED
  BY <1>1, <1>2, <1>3, <1>4, StartallKeeps, WaitallKeeps, TestallKeeps DEF Loop

\* Every step preserves the invariant.
LEMMA NextIInv == IInv /\ [Next]_vars => IInv'
<1> SUFFICES ASSUME Requests, Calling, [Next]_vars
             PROVE  Requests' /\ Calling'
  <2>1. IInv' <=> Requests' /\ Calling'
    BY Parts, PTL
  <2> QED
    BY <2>1, Parts
<1>1. ASSUME NEW o \in Operations, Call(o)
      PROVE  Requests' /\ Calling'
  <2>1. UNCHANGED <<state, threaded, request, round, arrived>>
    BY <1>1 DEF Call, reqvars
  <2> QED
    BY <1>1, <2>1, CallBegins DEF Requests, RequestTypes, Behind
<1>2. ASSUME op = "none", NEW r \in Index, MPIP_Start(r), UNCHANGED callvars
      PROVE  Requests' /\ Calling'
  <2>1. CallTypes' /\ op' = "none"
    BY <1>2 DEF callvars, Calling, CallTypes
  <2> QED
    BY <1>2, <2>1, StartKeeps, BetweenCalls
<1>3. CASE Loop
  BY <1>3, LoopKeeps
<1>4. ASSUME NEW r \in Index, threaded_sync_driver(r) \/ MPI_Arrive(r)
      PROVE  Requests' /\ Calling'
  BY <1>4, BackgroundKeeps, CallingKept
<1>5. CASE UNCHANGED vars
  <2>1. UNCHANGED <<state, threaded, request, round, arrived>>
        /\ UNCHANGED callvars
    BY <1>5 DEF vars, reqvars
  <2> QED
    BY <2>1, CallingKept DEF Requests, RequestTypes, Behind
<1> QED
  BY <1>1, <1>2, <1>3, <1>4, <1>5 DEF Next

\* The invariant holds in every reachable state.
LEMMA Invariance == Spec => []IInv
BY InitIInv, NextIInv, PTL DEF Spec

-----------------------------------------------------------------------------
(* The theorems.                                                           *)

\* Type correctness: in particular the indices MPIP_Waitsome and MPIP_Testsome
\* store never outgrow the array the caller passed.
THEOREM TypeCorrect == Spec => []TypeOK
BY Invariance, PTL DEF IInv

\* The steps that change the state of a request.
LEMMA StateSteps ==
    ASSUME IInv, [Next]_vars, NEW r \in Index,
           state[r] = "ACTIVE", state'[r] = "INACTIVE"
    PROVE  threaded[r] # "RUNNING" /\ request[r] # "active"
<1>1. Requests /\ Calling /\ state \in [Index -> {"INACTIVE", "ACTIVE"}]
      /\ i \in 0..Count /\ Count \in Nat
  BY Parts, CompletionAssumption DEF Requests, RequestTypes, Calling, CallTypes
<1>2. ~UNCHANGED state
  OBVIOUS
<1>3. ASSUME NEW x \in Index, MPIP_Start(x)
      PROVE  FALSE
  BY <1>1, <1>3 DEF MPIP_Start
<1>4. ASSUME NEW x \in Index, threaded[x] # "RUNNING", request[x] # "active",
             Deactivate(x)
      PROVE  threaded[r] # "RUNNING" /\ request[r] # "active"
  BY <1>1, <1>4 DEF Deactivate
<1>5. ASSUME NEW x \in Index, MPIP_Test(x)
      PROVE  threaded[r] # "RUNNING" /\ request[r] # "active"
  BY <1>2, <1>4, <1>5 DEF MPIP_Test, Complete, reqvars
<1>6. CASE Loop
  <2>1. ~Return /\ ~Again
    BY <1>2 DEF Return, Again, reqvars
  <2>2. i < Count => i \in Index
    BY <1>1 DEF Index
  <2>3. ASSUME NEW o, NEW b, TestUntil(o, b) \/ TestEach(o, b)
        PROVE  threaded[r] # "RUNNING" /\ request[r] # "active"
    BY <1>5, <2>2, <2>3 DEF TestUntil, TestEach
  <2>4. CASE MPIP_Startall
    BY <1>3, <2>1, <2>2, <2>4 DEF MPIP_Startall, Turn
  <2>5. CASE MPIP_Waitall
    BY <1>4, <2>1, <2>2, <2>5 DEF MPIP_Waitall, MPIP_Wait, Turn
  <2>6. CASE MPIP_Testall
    BY <1>5, <2>1, <2>2, <2>6 DEF MPIP_Testall, Turn
  <2> QED
    BY <1>6, <2>1, <2>3, <2>4, <2>5, <2>6
       DEF Loop, MPIP_Waitany, MPIP_Testany, MPIP_Waitsome, MPIP_Testsome
<1> QED
  BY <1>2, <1>3, <1>6 DEF Next, Call, threaded_sync_driver, MPI_Arrive, vars,
     reqvars

\* Whichever operation makes a request inactive, its message of this activation
\* had arrived, although MPIP_Start may have left the receive to a thread.
THEOREM CompletionArrives == Spec => CompletionMeansArrived
<1>1. IInv /\ [Next]_vars =>
         [\A r \in Index :
            (state[r] = "ACTIVE" /\ state'[r] = "INACTIVE") => r \in arrived]_vars
  BY StateSteps DEF IInv, Behind
<1> QED
  BY <1>1, Invariance, PTL DEF Spec, CompletionMeansArrived

\* The steps in which a call returns.
LEMMA ReturnSteps ==
    ASSUME IInv, [Next]_vars, NEW o, Returns(o)
    PROVE  /\ o = "Waitall" => AtEnd(o) /\ Return
           /\ o = "Testall" => AtEnd(o) /\ Return
           /\ o = "Waitany" => TestUntil(o, TRUE) \/ (AtEnd(o) /\ flag)
           /\ o = "Testany" => TestUntil(o, TRUE) \/ (AtEnd(o) /\ Return)
           /\ o = "Waitsome" => Return /\ ~(Len(index) < 1)
           /\ o = "Testsome" => Return
<1>1. op = o /\ op' = "none"
  BY DEF Returns
<1>2. CASE o = "none"
  BY <1>2
<1>3. CASE o # "none"
  <2>1. op' # op
    BY <1>1, <1>3
  <2>2. Loop
    BY <2>1, <1>1, <1>3 DEF Next, Call, callvars, vars, threaded_sync_driver,
       MPI_Arrive
  <2> QED
    BY <1>1, <2>1, <2>2 DEF Loop, MPIP_Startall, MPIP_Waitall, MPIP_Testall,
       MPIP_Waitany, MPIP_Testany, MPIP_Waitsome, MPIP_Testsome, TestUntil,
       TestEach, Turn, AtEnd, Again
<1> QED
  BY <1>2, <1>3

\* When Waitall returns, or Testall returns 1, no request is left active.
THEOREM AllIsAll == Spec => AllMeansAll
<1>1. ASSUME IInv, [Next]_vars, Returns("Waitall")
      PROVE  Active' = {}
  <2>1. AtEnd("Waitall") /\ Return
    BY <1>1, ReturnSteps
  <2>2. i = Count /\ UNCHANGED state
    BY <2>1 DEF AtEnd, Return, reqvars
  <2>3. \A r \in 0..(i - 1) : state[r] = "INACTIVE"
    BY <1>1 DEF IInv, All, Returns
  <2> QED
    BY <2>2, <2>3 DEF Active, Index
<1>2. ASSUME IInv, [Next]_vars, Returns("Testall"), flag'
      PROVE  Active' = {}
  <2>1. AtEnd("Testall") /\ Return
    BY <1>2, ReturnSteps
  <2>2. i = Count /\ UNCHANGED <<state, before, flag>>
    BY <2>1 DEF AtEnd, Return, reqvars
  <2>3. Index \subseteq CompletedByCall
    BY <1>2, <2>2 DEF IInv, TypeOK, All, Returns, Index
  <2> QED
    BY <2>2, <2>3 DEF CompletedByCall, Active
<1>3. IInv /\ [Next]_vars =>
         [(Returns("Waitall") \/ (Returns("Testall") /\ flag')) => Active' = {}]_vars
  BY <1>1, <1>2
<1> QED
  BY <1>3, Invariance, PTL DEF Spec, AllMeansAll

\* Every request Waitany, Waitsome, Testany or Testsome makes inactive is
\* reported by the same call, once, and a call that waits reports one.
THEOREM NothingIsLost == Spec => NothingLost
<1> DEFINE Reported == /\ CompletedByCall' = {index'[k] : k \in 1..Len(index')}
                       /\ Cardinality(CompletedByCall') = Len(index')
<1>1. ASSUME IInv, [Next]_vars, NEW o \in {"Waitany", "Testany"}, Returns(o)
      PROVE  Reported /\ (o = "Waitany" => Len(index') = 1)
  <2>1. Requests /\ Calling
    BY <1>1, Parts
  <2>2. CASE TestUntil(o, TRUE)
    <3>1. CompletedByCall' = {i} /\ index' = <<i>>
      BY <1>1, <2>1, <2>2, UntilKeeps DEF Returns
    <3>2. Cardinality({i}) = 1 /\ Len(<<i>>) = 1 /\ {<<i>>[k] : k \in 1..1} = {i}
      BY FS_Singleton
    <3> QED
      BY <3>1, <3>2
  <2>3. CASE o = "Testany" /\ AtEnd(o) /\ Return
    <3>1. CompletedByCall' = CompletedByCall /\ index' = index
      BY <2>1, <2>3, EndKeeps
    <3>2. CompletedByCall = {} /\ index = <<>>
      BY <1>1 DEF IInv, Any, Returns
    <3>3. Cardinality({}) = 0 /\ Len(<<>>) = 0 /\ {<<>>[k] : k \in 1..0} = {}
      BY FS_EmptySet
    <3> QED
      BY <2>3, <3>1, <3>2, <3>3
  <2>4. ~(o = "Waitany" /\ AtEnd(o) /\ flag)
    BY <1>1 DEF IInv, Any, Returns
  <2> QED
    BY <1>1, <2>2, <2>3, <2>4, ReturnSteps
<1>2. ASSUME IInv, [Next]_vars, NEW o \in {"Waitsome", "Testsome"}, Returns(o)
      PROVE  Reported /\ (o = "Waitsome" => Len(index') >= 1)
  <2>1. Requests /\ Calling
    BY <1>2, Parts
  <2>2. Return /\ (o = "Waitsome" => ~(Len(index) < 1))
    BY <1>2, ReturnSteps
  <2>3. CompletedByCall' = CompletedByCall /\ index' = index
    BY <2>1, <2>2, EndKeeps
  <2>4. CompletedByCall = {index[k] : k \in 1..Len(index)}
        /\ Cardinality(CompletedByCall) = Len(index)
    BY <1>2 DEF IInv, Some, Returns, Values
  <2>5. Len(index) \in Nat
    BY <2>1, LenProperties DEF Calling, CallTypes
  <2>6. o = "Waitsome" => Len(index') >= 1
    BY <2>2, <2>3, <2>5
  <2>7. Reported
    BY <2>3, <2>4, Zenon
  <2> QED
    BY <2>6, <2>7
<1>3. IInv /\ [Next]_vars =>
         [/\ \A o \in {"Waitany", "Waitsome", "Testany", "Testsome"} :
                Returns(o) => Reported
          /\ Returns("Waitany") => Len(index') = 1
          /\ Returns("Waitsome") => Len(index') >= 1]_vars
  BY <1>1, <1>2
<1> QED
  BY <1>3, Invariance, PTL DEF Spec, NothingLost
=============================================================================
