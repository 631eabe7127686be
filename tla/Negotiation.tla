---------------------------- MODULE Negotiation -----------------------------
(***************************************************************************)
(* Several channels between two ranks on one communicator.  Every rank     *)
(* makes its init calls in the order of its program; each channel has a    *)
(* side PMODE names, which sends its numbers inside the init call with a   *)
(* blocking MPI_Send, while the other side leaves the receive to a         *)
(* background thread.  All negotiations use tag 990, and message n of a    *)
(* channel uses the channel's tag plus n: what a receive gets is decided   *)
(* by MPI's matching alone.  One activation of each channel follows.       *)
(*                                                                         *)
(* What a request does with its numbers is the subject of SendRequest,     *)
(* RecvRequest and Channel.                                                *)
(***************************************************************************)
EXTENDS Integers, Sequences, SequencesExt

CONSTANTS
    Channels,  \* the partitioned channels between the two ranks
    Order,     \* the channels in the order of each rank's init calls
    Driver,    \* the rank whose side drives the negotiation of a channel
    Sender,    \* the rank that sends the channel's data
    Numbers,   \* the driver's local_parts and local_size, of each channel
    Tag        \* the user's tag of each channel

Rank == {"A", "B"}
Peer(k) == IF k = "A" THEN "B" ELSE "A"
None == <<>>

ASSUME NegotiationAssumption ==
    /\ Driver \in [Channels -> Rank] /\ Sender \in [Channels -> Rank]
    /\ Numbers \in [Channels -> (Nat \ {0}) \X (Nat \ {0})]
    /\ Tag \in [Channels -> Nat]
    /\ \A k \in Rank :
          /\ Order[k] \in Seq(Channels) /\ ToSet(Order[k]) = Channels
          /\ \A i, j \in DOMAIN Order[k] : Order[k][i] = Order[k][j] => i = j

VARIABLES
    at,       \* number of init calls each rank has returned from
    sending,  \* ranks inside the MPI_Send of an init call
    threads,  \* background threads of each rank that have yet to call MPI_Recv
    numbers,  \* parts and size of each rank's request of a channel, or None
    source,   \* history: <<c, d>>, the rank's request of c got the numbers of d
    wire,     \* messages on their way to each rank, in the order they were sent
    posted,   \* receives each rank has posted, in order
    sent,     \* messages of each channel the sender has started
    started,  \* channels whose receives are posted
    got       \* what each channel's receives got: [part, from]

vars == <<at, sending, threads, numbers, source, wire, posted, sent, started, got>>
datavars == <<sent, started, got>>

\* Negotiation messages and receives have this in place of a message number.
Sync == -1

TypeOK ==
    /\ \A k \in Rank : at[k] \in 0..Len(Order[k])
    /\ sending \subseteq Rank
    /\ threads \in [Rank -> SUBSET Channels]
    /\ numbers \in [Rank -> [Channels -> {None} \union {Numbers[c] : c \in Channels}]]
    /\ source \in [Rank -> SUBSET (Channels \X Channels)]
    /\ \A k \in Rank : \A m \in ToSet(wire[k]) \union ToSet(posted[k]) :
          m.chan \in Channels /\ m.part \in Int
    /\ started \subseteq Channels

Init ==
    /\ at = [k \in Rank |-> 0] /\ sending = {}
    /\ threads = [k \in Rank |-> {}]
    /\ numbers = [k \in Rank |-> [c \in Channels |-> None]]
    /\ source = [k \in Rank |-> {}]
    /\ wire = [k \in Rank |-> <<>>] /\ posted = [k \in Rank |-> <<>>]
    /\ sent = [c \in Channels |-> {}] /\ started = {}
    /\ got = [c \in Channels |-> {}]

-----------------------------------------------------------------------------
(* Tags.                                                                   *)

\* Mutant: the negotiation uses a tag from the range of the user's.
SyncTag_Zero == 0

SyncTag == 990

\* Mutant: all messages of a channel use its tag.
InternalTag_Same(c, n) == Tag[c]

InternalTag(c, n) == Tag[c] + n

-----------------------------------------------------------------------------
(* The init calls: sync_driver.                                            *)

\* The channel of rank k's next init call.
Current(k) == Order[k][at[k] + 1]
MayInit(k) == at[k] < Len(Order[k]) /\ k \notin sending

\* Mutant: the numbers are received inside the init call.
InitSpawn_Inline(k) ==
    /\ MayInit(k) /\ Driver[Current(k)] # k
    /\ IF numbers[k][Current(k)] # None
       THEN at' = [at EXCEPT ![k] = @ + 1] /\ UNCHANGED posted
       ELSE /\ \A m \in ToSet(posted[k]) : m.chan # Current(k)
            /\ posted' = [posted EXCEPT ![k] =
                  Append(@, [tag |-> SyncTag, chan |-> Current(k), part |-> Sync])]
            /\ UNCHANGED at
    /\ UNCHANGED <<sending, threads, numbers, source, wire, datavars>>

\* The other side drives: a thread is created and the call returns.
InitSpawn(k) ==
    /\ MayInit(k) /\ Driver[Current(k)] # k
    /\ threads' = [threads EXCEPT ![k] = @ \union {Current(k)}]
    /\ at' = [at EXCEPT ![k] = @ + 1]
    /\ UNCHANGED <<sending, numbers, source, wire, posted, datavars>>

\* This side drives: MPI_Send of its numbers ...
InitSend(k) ==
    /\ MayInit(k) /\ Driver[Current(k)] = k
    /\ wire' = [wire EXCEPT ![Peer(k)] =
          Append(@, [tag |-> SyncTag, chan |-> Current(k), part |-> Sync,
                     data |-> Numbers[Current(k)]])]
    /\ sending' = sending \union {k}
    /\ UNCHANGED <<at, threads, numbers, source, posted, datavars>>

\* ... which returns, at once if MPI buffers the message.  The numbers are
\* stored and the request is set up.
InitReturn(k) ==
    /\ k \in sending /\ sending' = sending \ {k}
    /\ numbers' = [numbers EXCEPT ![k][Current(k)] = Numbers[Current(k)]]
    /\ source' = [source EXCEPT ![k] = @ \union {<<Current(k), Current(k)>>}]
    /\ at' = [at EXCEPT ![k] = @ + 1]
    /\ UNCHANGED <<threads, wire, posted, datavars>>

\* MPI may also wait until the message has been matched (external).
Matched(k) ==
    /\ k \in sending
    /\ \A m \in ToSet(wire[Peer(k)]) : m.chan # Current(k) \/ m.part # Sync

\* A background thread calls MPI_Recv.  The threads of a rank get there in
\* any order.
threaded_sync_driver(k, c) ==
    /\ c \in threads[k]
    /\ threads' = [threads EXCEPT ![k] = @ \ {c}]
    /\ posted' = [posted EXCEPT ![k] =
          Append(@, [tag |-> SyncTag, chan |-> c, part |-> Sync])]
    /\ UNCHANGED <<at, sending, numbers, source, wire, datavars>>

-----------------------------------------------------------------------------
(* One activation of each channel.                                         *)

\* The messages of channel c as rank k sees them.
Messages(k, c) == 0..(numbers[k][c][1] - 1)

\* The sender starts message n.
StartSend(c, n) ==
    LET k == Sender[c]
    IN  /\ numbers[k][c] # None /\ n \in Messages(k, c) \ sent[c]
        /\ sent' = [sent EXCEPT ![c] = @ \union {n}]
        /\ wire' = [wire EXCEPT ![Peer(k)] =
              Append(@, [tag |-> InternalTag(c, n), chan |-> c, part |-> n,
                         data |-> <<0, n>>])]
        /\ UNCHANGED <<at, sending, threads, numbers, source, posted, started,
                       got>>

\* The receiver posts all its receives: MPI_Startall.
StartRecv(c) ==
    LET k == Peer(Sender[c])
    IN  /\ numbers[k][c] # None /\ c \notin started
        /\ started' = started \union {c}
        /\ posted' = [posted EXCEPT ![k] = @ \o
              [j \in 1..numbers[k][c][1] |->
                  [tag |-> InternalTag(c, j - 1), chan |-> c, part |-> j - 1]]]
        /\ UNCHANGED <<at, sending, threads, numbers, source, wire, sent, got>>

\* Entry j of s is the first with its tag.
FirstOfTag(s, j) == \A h \in 1..(j - 1) : s[h].tag # s[j].tag

\* MPI: the first message with a tag goes to the first receive posted with it
\* (external).  A thread that gets its message stores it as its numbers.
Match(k, j, h) ==
    /\ FirstOfTag(wire[k], j) /\ FirstOfTag(posted[k], h)
    /\ wire[k][j].tag = posted[k][h].tag
    /\ wire' = [wire EXCEPT ![k] = RemoveAt(@, j)]
    /\ posted' = [posted EXCEPT ![k] = RemoveAt(@, h)]
    /\ LET m == wire[k][j]
           r == posted[k][h]
       IN  IF r.part = Sync
           THEN /\ numbers' = [numbers EXCEPT ![k][r.chan] = m.data]
                /\ source' = [source EXCEPT ![k] = @ \union {<<r.chan, m.chan>>}]
                /\ UNCHANGED got
           ELSE /\ got' = [got EXCEPT ![r.chan] = @ \union
                              {[part |-> r.part, from |-> <<m.chan, m.part>>]}]
                /\ UNCHANGED <<numbers, source>>
    /\ UNCHANGED <<at, sending, threads, sent, started>>

Progress(k) ==
    \E j \in DOMAIN wire[k], h \in DOMAIN posted[k] : Match(k, j, h)

InitCall(k) == InitSpawn(k) \/ InitSend(k)

\* Everything has been received and the ranks may stop.
AllReceived ==
    \A c \in Channels : {g.part : g \in got[c]} = 0..(Numbers[c][1] - 1)
Done == AllReceived /\ UNCHANGED vars

\* The message numbers a channel can have, by whichever numbers it got.
AnyMessage == UNION {0..(Numbers[c][1] - 1) : c \in Channels}

Next ==
    \/ \E k \in Rank : InitCall(k) \/ InitReturn(k) \/ Progress(k)
    \/ \E k \in Rank, c \in Channels : threaded_sync_driver(k, c)
    \/ \E c \in Channels : StartRecv(c) \/ \E n \in AnyMessage : StartSend(c, n)
    \/ Done

\* The programs make their calls and start their requests, threads run, MPI
\* matches what it can.  MPI_Send need not return before it is matched.
Fairness ==
    /\ \A k \in Rank : /\ WF_vars(InitCall(k))
                       /\ WF_vars(Matched(k) /\ InitReturn(k))
                       /\ WF_vars(Progress(k))
    /\ \A k \in Rank, c \in Channels : WF_vars(threaded_sync_driver(k, c))
    /\ \A c \in Channels : /\ WF_vars(StartRecv(c))
                           /\ \A n \in AnyMessage : WF_vars(StartSend(c, n))

Spec == Init /\ [][Next]_vars /\ Fairness

-----------------------------------------------------------------------------
(* Properties.                                                             *)

\* Every request that has its numbers has those of its own channel.  The code
\* does not see to it: all negotiations share the tag 990.
Agreement ==
    \A k \in Rank, c \in Channels : numbers[k][c] \in {None, Numbers[c]}

\* What the code does see to: in whatever order the threads of several requests
\* reach MPI_Recv, each request takes the numbers of one channel with the same
\* driver as its own, no two requests of a rank those of the same channel, and
\* data is never taken for numbers.
OnePerNegotiation ==
    \A k \in Rank : \A p, q \in source[k] :
        /\ p[1] = q[1] <=> p[2] = q[2]
        /\ Driver[p[1]] = Driver[p[2]] /\ numbers[k][p[1]] = Numbers[p[2]]

\* mpipcl.h: "the total number of bytes described by both" the external and
\* the internal partitions "will be equal".
BytesEqual ==
    \A k \in Rank, c \in Channels : numbers[k][c] # None =>
        numbers[k][c][1] * numbers[k][c][2] = Numbers[c][1] * Numbers[c][2]

\* Whatever the order of starts and posts, a receive gets the message of its
\* own channel and number, never a message of another channel or negotiation.
DataMatches == \A c \in Channels : \A g \in got[c] : g.from = <<c, g.part>>

\* All init calls have returned.
InitsDone == \A k \in Rank : at[k] = Len(Order[k])

\* Rank k makes its call for channel c before its call for channel d.
Before(k, c, d) ==
    \E i, j \in DOMAIN Order[k] : i < j /\ Order[k][i] = c /\ Order[k][j] = d

\* No two channels are such that each rank calls first for the one it drives.
\* The orders may be crossed otherwise.
Compatible ==
    \A c, d \in Channels :
        (Driver[c] = "A" /\ Driver[d] = "B")
        => ~(Before("A", c, d) /\ Before("B", d, c))

\* mpipcl.h: the thread enables the "non-blocking behavior of the MPIP_init
\* functions".  Only the side with the thread is non-blocking: MPI_Send in the
\* other side's call may block until it is matched, and two ranks inside it may
\* wait for each other.  What the threads do give: in Compatible orders every
\* init call returns and every request gets numbers; and if no numbers were
\* swapped, all data arrives.
ChannelsComplete ==
    Compatible =>
        /\ <>(InitsDone /\ \A k \in Rank, c \in Channels : numbers[k][c] # None)
        /\ []Agreement => <>AllReceived
=============================================================================
