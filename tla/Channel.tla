------------------------------ MODULE Channel -------------------------------
(***************************************************************************)
(* Both sides of a partitioned channel, from the MPI_Info object given to  *)
(* the init calls to the last MPIP_Parrived, over every small geometry.    *)
(* Each side has its own partitioning of the same buffer; the init calls   *)
(* choose the messages (sync_driver), MPIP_Pready and MPIP_Parrived map    *)
(* partitions to them.  One activation is modelled and every call is one   *)
(* step: the interleavings inside the calls are the subject of SendRequest *)
(* and RecvRequest.                                                        *)
(*                                                                         *)
(* Assumed of the callers, as the README asks: both sides pass the same    *)
(* info and describe buffers of the same length.                           *)
(***************************************************************************)
EXTENDS PartitionMap, Sequences

CONSTANTS
    MaxParts,    \* bound on the partitions of either side
    MaxElements, \* bound on the elements of the buffer
    Infos,       \* the info objects passed: see InfoAssumption
    StaleModes,  \* what the buffer mode[10] may hold when PMODE is not set
    StaleSets    \* what atoi may read from option[10] when SET is not set

Side == {"SENDER", "RECEIVER"}
Other(s) == IF s = "SENDER" THEN "RECEIVER" ELSE "SENDER"

\* An info object: null or not, the value of PMODE ("unset": no such key), and
\* the number atoi reads from SET (0 when it is not a number): a set of one, or
\* empty when there is no such key.
ASSUME InfoAssumption ==
    /\ MaxParts \in Nat \ {0} /\ MaxElements \in Nat \ {0}
    /\ \A o \in Infos : /\ o.null \in BOOLEAN /\ o.PMODE \in STRING
                        /\ o.SET \subseteq Int /\ \A m, n \in o.SET : m = n
    /\ StaleModes \subseteq STRING /\ StaleSets \subseteq Int

VARIABLES
    info,        \* the info object both sides pass
    local_parts, \* partitions of each side
    local_size,  \* elements in each of them
    stage,       \* of each side: not initialised, in the thread, set up
    parts,       \* messages, as each side sees them
    size,        \* elements in each message
    syncdata,    \* messages with tag 990 on their way to each side
    marked,      \* sender's partitions marked ready
    internal_status, \* sender's counter of each message
    sent,        \* messages started
    delivered,   \* messages received
    arrived      \* receiver's partitions MPIP_Parrived has reported

setupvars == <<local_parts, local_size, stage, parts, size, syncdata>>
datavars == <<marked, internal_status, sent, delivered, arrived>>
vars == <<info, setupvars, datavars>>

\* The messages whose counters are followed: on a Regular channel, all of them.
Index == 0..(MaxElements - 1)
User(s) == 0..(local_parts[s] - 1)

TypeOK ==
    /\ info \in Infos
    /\ local_parts \in [Side -> 1..MaxParts]
    /\ local_size \in [Side -> 1..MaxElements]
    /\ stage \in [Side -> {"none", "thread", "setup"}]
    /\ parts \in [Side -> Nat \ {0}] /\ size \in [Side -> Nat]
    /\ \A s \in Side : Len(syncdata[s]) <= 1
    /\ marked \subseteq User("SENDER") /\ arrived \subseteq User("RECEIVER")
    /\ internal_status \in [Index -> Nat]
    /\ sent \subseteq Index /\ delivered \subseteq sent

-----------------------------------------------------------------------------
(* Decoding the info object.                                               *)

\* What mode[] and option[] hold after MPI_Info_get: nothing is stored for a
\* missing key, so each side finds what its own stack held.
ModeRead == IF info.PMODE = "unset" THEN StaleModes ELSE {info.PMODE}
SetRead == IF info.SET = {} THEN StaleSets ELSE info.SET

\* A number of messages that is not positive becomes 1.
Positive(n) == IF n <= 0 THEN 1 ELSE n

Init ==
    /\ info \in Infos
    /\ local_parts \in [Side -> 1..MaxParts]
    /\ local_size \in [Side -> 1..MaxElements]
    /\ \A s \in Side : local_parts[s] * local_size[s] <= MaxElements
    /\ local_parts["SENDER"] * local_size["SENDER"]
          = local_parts["RECEIVER"] * local_size["RECEIVER"]
    /\ stage = [s \in Side |-> "none"]
    /\ parts = [s \in Side |-> 1]
    /\ size = [s \in Side |-> 0]
    /\ syncdata = [s \in Side |-> <<>>]
    /\ marked = {} /\ sent = {} /\ delivered = {} /\ arrived = {}
    /\ internal_status = [i \in Index |-> 0]

\* Side s has its numbers and calls internal_setup.
SetUp(s, np, sz) ==
    /\ stage' = [stage EXCEPT ![s] = "setup"]
    /\ parts' = [parts EXCEPT ![s] = np]
    /\ size' = [size EXCEPT ![s] = sz]
    /\ UNCHANGED <<info, local_parts, local_size, datavars>>

\* PMODE = HARD: n messages of sz elements.
Hard(s, n, sz) ==
    /\ stage[s] = "none" /\ ~info.null /\ "HARD" \in ModeRead
    /\ SetUp(s, n, sz)
    /\ UNCHANGED syncdata

\* Mutant: HARD mode without the check for a number that is not positive.
SyncHard_Unchecked(s) ==
    \E n \in SetRead :
        Hard(s, n, IF n = 0 THEN 0 ELSE sync_hard(n, local_parts[s], local_size[s]))

\* Mutant: the message size is left at the size of a partition.
SyncHard_KeepSize(s) ==
    \E n \in SetRead : Hard(s, Positive(n), local_size[s])

\* The number in SET, or 1.
SyncHard(s) ==
    \E n \in SetRead :
        Hard(s, Positive(n), sync_hard(Positive(n), local_parts[s], local_size[s]))

\* No info, or a mode that is none of the three: one message.
SyncDefault(s) ==
    /\ stage[s] = "none"
    /\ info.null \/ ModeRead \ (Side \union {"HARD"}) # {}
    /\ SetUp(s, 1, sync_hard(1, local_parts[s], local_size[s]))
    /\ UNCHANGED syncdata

\* PMODE names this side: it sends its numbers and uses them.
SyncSide(s) ==
    /\ stage[s] = "none" /\ ~info.null /\ s \in ModeRead
    /\ syncdata' = [syncdata EXCEPT ![Other(s)] =
                        Append(@, <<local_parts[s], local_size[s]>>)]
    /\ SetUp(s, local_parts[s], local_size[s])

\* PMODE names the other side: a thread is created ...
SyncSpawn(s) ==
    /\ stage[s] = "none" /\ ~info.null /\ Other(s) \in ModeRead
    /\ stage' = [stage EXCEPT ![s] = "thread"]
    /\ UNCHANGED <<info, local_parts, local_size, parts, size, syncdata,
                   datavars>>

\* ... which receives the driver's numbers and takes n of them as the messages
\* and the other as their size.
Receive(s, n, sz) ==
    /\ stage[s] = "thread" /\ syncdata[s] # <<>>
    /\ SetUp(s, Head(syncdata[s])[n], Head(syncdata[s])[sz])
    /\ syncdata' = [syncdata EXCEPT ![s] = Tail(@)]

\* Mutant: the thread stores the numbers in the wrong order.
threaded_sync_driver_Swapped(s) == Receive(s, 2, 1)

threaded_sync_driver(s) == Receive(s, 1, 2)

-----------------------------------------------------------------------------
(* Moving data.                                                            *)

\* The messages side s relates its partition p to; the code indexes its
\* arrays with them unchecked.
Messages(s, p) == MessagesOf(local_parts[s], parts[s], p)

\* The messages of partition p whose counter is n.
AtCount(p, n) ==
    {i \in Messages("SENDER", p) \intersect Index : internal_status[i] = n}

\* Partition p is marked, each of its messages counted, those in S started.
Mark(p, S) ==
    /\ stage["SENDER"] = "setup" /\ p \notin marked
    /\ marked' = marked \union {p}
    /\ internal_status' =
          [i \in Index |-> IF i \in Messages("SENDER", p)
                           THEN internal_status[i] + 1 ELSE internal_status[i]]
    /\ sent' = sent \union S
    /\ UNCHANGED <<info, setupvars, delivered, arrived>>

SendThreshold == Threshold(local_parts["SENDER"], parts["SENDER"])

\* Mutant: the threshold is compared with the counter before the increment.
MPIP_Pready_OldCount(p) == Mark(p, AtCount(p, SendThreshold))

\* Mutant: the first partition counted starts the message.
MPIP_Pready_First(p) == Mark(p, AtCount(p, 0))

\* MPIP_Pready and general_send: every message of the partition is counted,
\* the ones that reach the threshold are started.
MPIP_Pready(p) == Mark(p, AtCount(p, SendThreshold - 1))

\* Message i (tag + i) matches the receive with the same tag (external).
MPI_Deliver(i) ==
    /\ stage["RECEIVER"] = "setup"
    /\ i \in sent \ delivered /\ i < parts["RECEIVER"]
    /\ delivered' = delivered \union {i}
    /\ UNCHANGED <<info, setupvars, marked, internal_status, sent, arrived>>

\* MPIP_Parrived reports partition q when enough of its messages have arrived.
Arrived(q, enough) ==
    /\ stage["RECEIVER"] = "setup" /\ q \notin arrived /\ enough
    /\ arrived' = arrived \union {q}
    /\ UNCHANGED <<info, setupvars, marked, internal_status, sent, delivered>>

\* Mutant: one message is enough.
MPIP_Parrived_Any(q) ==
    Arrived(q, Messages("RECEIVER", q) \intersect delivered # {})

\* MPIP_Parrived that reports the partition: all its messages are complete.
MPIP_Parrived(q) == Arrived(q, Messages("RECEIVER", q) \subseteq delivered)

Setup(s) == \/ SyncHard(s) \/ SyncDefault(s) \/ SyncSide(s) \/ SyncSpawn(s)
            \/ threaded_sync_driver(s)

\* Everything has been reported; the channel rests.
Done == arrived = User("RECEIVER") /\ UNCHANGED vars

Next ==
    \/ \E s \in Side : Setup(s)
    \/ \E p \in User("SENDER") : MPIP_Pready(p)
    \/ \E i \in sent : MPI_Deliver(i)
    \/ \E q \in User("RECEIVER") : MPIP_Parrived(q)
    \/ Done

\* Both sides make their init call, MPI delivers, the receiver keeps polling;
\* nothing obliges the sender to mark a partition.
Fairness ==
    /\ \A s \in Side : WF_vars(Setup(s))
    /\ \A i \in Index : WF_vars(MPI_Deliver(i))
    /\ \A q \in 0..(MaxParts - 1) :
          WF_vars(q \in User("RECEIVER") /\ MPIP_Parrived(q))

Spec == Init /\ [][Next]_vars /\ Fairness

-----------------------------------------------------------------------------
(* Properties.                                                             *)

BothSetUp == \A s \in Side : stage[s] = "setup"

\* No key that the init call goes on to read is missing.
KeysGiven(o) ==
    o.null \/ (o.PMODE # "unset" /\ (o.PMODE = "HARD" => o.SET # {}))

\* README: "the same key-value pair should be supplied to both sides of the
\* communication".  Supplied with the keys, the sides agree on the messages,
\* whoever drives and whichever side sets up first, on every geometry.
Agreement ==
    (BothSetUp /\ KeysGiven(info)) => /\ parts["SENDER"] = parts["RECEIVER"]
                                     /\ size["SENDER"] = size["RECEIVER"]

\* internal_setup places message i at offset i * size of the user's buffer.
\* Whatever the geometry, whatever the stack held for a missing key and
\* whosever numbers a side took, no message reaches past the buffer's end.
MessagesInBuffer ==
    \A s \in Side : stage[s] = "setup" =>
        parts[s] * size[s] <= local_parts[s] * local_size[s]

\* The code indexes internal_status[] and request[] with the messages of a
\* partition and checks no bound.  Whatever the geometry and the keys, every
\* index is one of the messages the side has set up, unless the side has more
\* partitions than messages and their numbers leave a remainder.
IndexInRange ==
    \A s \in Side :
        (/\ stage[s] = "setup"
         /\ local_parts[s] <= parts[s] \/ local_parts[s] % parts[s] = 0)
        => \A p \in User(s) : Messages(s, p) \subseteq 0..(parts[s] - 1)

-----------------------------------------------------------------------------
(* What moves.  The code checks nothing of the geometry; what it moves is  *)
(* right where its int divisions are exact.                                *)

\* The numbers of messages a side may choose under mode m.
Choices(m) ==
    CASE m \in Side -> {local_parts[m]}
      [] m = "HARD" -> {Positive(n) : n \in SetRead}
      [] OTHER      -> {1}

\* No key is missing and both sides' partitions relate exactly to the messages.
Regular ==
    /\ KeysGiven(info)
    /\ \A m \in (IF info.null THEN {"NULL"} ELSE ModeRead) :
          \A n \in Choices(m) : \A s \in Side :
              Exact(local_parts[s], local_size[s], n,
                    sync_hard(n, local_parts[s], local_size[s]))

\* Element e is in a message that has been received.
ElementDelivered(e) ==
    \E i \in delivered : i * size["RECEIVER"] <= e
                         /\ e < (i + 1) * size["RECEIVER"]

\* mpipcl.h on MPIP_Parrived: "1 if the partition has arrived and is ready to
\* be used".  Every element of a reported partition was received and comes
\* from a sender's partition that was marked ready.
EndToEnd ==
    LET ls == local_size["RECEIVER"]
    IN  \A q \in arrived : \A e \in (q * ls)..((q + 1) * ls - 1) :
            ElementDelivered(e) /\ (e \div local_size["SENDER"]) \in marked

\* What holds of it: EndToEnd on every Regular channel.
EndToEndRegular == Regular => EndToEnd

\* Nothing is promised for a channel that is not Regular.
IfRegular(S) == IF Regular THEN S ELSE {}

Promised ==
    INSTANCE Partitioned
    WITH Elements <- 0..(local_parts["SENDER"] * local_size["SENDER"] - 1),
         active   <- TRUE,
         ready    <- IfRegular(Blocks(marked, local_size["SENDER"])),
         moved    <- IfRegular(Blocks(delivered, size["RECEIVER"])),
         reported <- IfRegular(Blocks(arrived, local_size["RECEIVER"]))

\* The two sides of a Regular channel together implement Partitioned: nothing is
\* received that was not marked ready, nothing is reported that was not received,
\* although each side relates its partitions to the messages by an arithmetic of
\* its own.
ImplementsPartitioned == Promised!Spec

\* Once the sender of a Regular channel has marked everything, everything is
\* reported to the receiver.
EverythingArrives ==
    (Regular /\ marked = User("SENDER")) ~> (arrived = User("RECEIVER"))
=============================================================================
