---------------------------- MODULE Partitioned -----------------------------
(***************************************************************************)
(* What partitioned communication promises, whatever the messages behind   *)
(* it: in each activation elements of the buffer are declared ready, only  *)
(* then moved, only then reported to the receiver, and the activation is   *)
(* completed only when all of them have moved.  SendRequest and Channel    *)
(* are shown to implement this specification.                              *)
(***************************************************************************)
CONSTANT Elements   \* the elements of the buffer

VARIABLES
    active,    \* the request has been started and not completed
    ready,     \* elements the sender has declared ready
    moved,     \* elements that have left the sender's hands
    reported   \* elements the receiver has been told of

vars == <<active, ready, moved, reported>>

Init == active \in BOOLEAN /\ ready = {} /\ moved = {} /\ reported = {}

Start ==
    /\ ~active /\ active' = TRUE
    /\ ready' = {} /\ moved' = {} /\ reported' = {}

Ready ==
    /\ active /\ ready \subseteq ready' /\ ready' \subseteq Elements
    /\ UNCHANGED <<active, moved, reported>>

Move ==
    /\ active /\ moved \subseteq moved' /\ moved' \subseteq ready
    /\ UNCHANGED <<active, ready, reported>>

Report ==
    /\ active /\ reported \subseteq reported' /\ reported' \subseteq moved
    /\ UNCHANGED <<active, ready, moved>>

Complete ==
    /\ active /\ moved = Elements /\ active' = FALSE
    /\ UNCHANGED <<ready, moved, reported>>

Next == Start \/ Ready \/ Move \/ Report \/ Complete

Spec == Init /\ [][Next]_vars
=============================================================================
