------------------------- MODULE NegotiationProofs --------------------------
(***************************************************************************)
(* Proofs about several channels on one communicator: any number of them,  *)
(* the ranks' init calls in any order, negotiations and data interleaved   *)
(* in every way.                                                           *)
(***************************************************************************)
EXTENDS Negotiation, SequenceTheorems, TLAPS

\* The message numbers channel c can have: the tag 990 tells a thread which
\* rank drives and no more, so it may get the numbers of another such channel.
Reach(c) == {n \in Nat : \E d \in Channels : Driver[d] = Driver[c] /\ n < Numbers[d][1]}

\* No message uses the tag of the negotiations, and the channels of one sender
\* use different tags.
TagsApart ==
    /\ \A c \in Channels : \A n \in Reach(c) : InternalTag(c, n) # SyncTag
    /\ \A c, d \in Channels : \A n \in Reach(c), m \in Reach(d) :
          (Sender[c] = Sender[d] /\ InternalTag(c, n) = InternalTag(d, m)) => c = d

-----------------------------------------------------------------------------
(* The inductive invariant.                                                *)

\* The messages that may be on their way to rank k: the numbers of a channel
\* the peer drives, and the data of a channel the peer sends.
Arriving(k) ==
    {m \in [tag : Int, chan : Channels, part : Int, data : Nat \X Nat] :
        \/ /\ m.part = Sync /\ m.tag = SyncTag
           /\ Driver[m.chan] = Peer(k) /\ m.data = Numbers[m.chan]
        \/ /\ m.part \in Reach(m.chan) /\ m.tag = InternalTag(m.chan, m.part)
           /\ Sender[m.chan] = Peer(k)}

\* The receives rank k may post.
Awaited(k) ==
    {m \in [tag : Int, chan : Channels, part : Int] :
        \/ /\ m.part = Sync /\ m.tag = SyncTag /\ Driver[m.chan] = Peer(k)
        \/ /\ m.part \in Reach(m.chan) /\ m.tag = InternalTag(m.chan, m.part)
           /\ Sender[m.chan] = Peer(k)}

\* The init calls: a rank inside MPI_Send is at one of its channels, a thread
\* belongs to a channel the peer drives.
Calls ==
    /\ at \in [Rank -> Nat] /\ sending \subseteq Rank
    /\ \A k \in Rank : at[k] <= Len(Order[k])
    /\ \A k \in sending : at[k] < Len(Order[k]) /\ Driver[Current(k)] = k
    /\ threads \in [Rank -> SUBSET Channels]
    /\ \A k \in Rank : \A c \in threads[k] : Driver[c] = Peer(k)

\* What MPI holds.
Queues ==
    /\ wire = [k \in Rank |-> wire[k]] /\ posted = [k \in Rank |-> posted[k]]
    /\ \A k \in Rank : wire[k] \in Seq(Arriving(k)) /\ posted[k] \in Seq(Awaited(k))

\* What the requests have learnt and received.
Results ==
    /\ numbers \in [Rank -> [Channels -> {None} \union {Numbers[c] : c \in Channels}]]
    /\ \A k \in Rank, c \in Channels : numbers[k][c] # None =>
          \E d \in Channels : Driver[d] = Driver[c] /\ numbers[k][c] = Numbers[d]
    /\ started \subseteq Channels
    /\ got \in [Channels -> SUBSET [part : Int, from : Channels \X Int]]
    /\ DataMatches

\* The channels whose init call rank k has returned from, and those whose
\* numbers it may have sent.
Begun(k) == {Order[k][i] : i \in 1..at[k]}
Offered(k) == Begun(k) \union (IF k \in sending THEN {Current(k)} ELSE {})

\* The channels of the negotiations in a queue; each is there once.
Negotiated(s) == {s[i].chan : i \in {i \in DOMAIN s : s[i].part = Sync}}
Distinct(s) ==
    \A i, j \in DOMAIN s :
        (s[i].part = Sync /\ s[j].part = Sync /\ s[i].chan = s[j].chan) => i = j

\* A request that has numbers waits for none, and nobody else waits for these.
Settled(k, p) ==
    /\ p \in Channels \X Channels /\ Driver[p[1]] = Driver[p[2]]
    /\ numbers[k][p[1]] = Numbers[p[2]]
    /\ p[1] \in Begun(k) \ (threads[k] \union Negotiated(posted[k]))
    /\ p[2] \notin Negotiated(wire[k])
    /\ IF Driver[p[1]] = k THEN p[1] = p[2] ELSE p[2] \in Offered(Peer(k))

\* Every negotiation is sent once and every thread receives once.
Once(k) ==
    /\ Distinct(wire[k]) /\ Distinct(posted[k])
    /\ Negotiated(wire[k]) \subseteq Offered(Peer(k))
    /\ threads[k] \union Negotiated(posted[k]) \subseteq Begun(k)
    /\ threads[k] \intersect Negotiated(posted[k]) = {}
    /\ \A p \in source[k] : Settled(k, p)
    /\ \A p, q \in source[k] : p[1] = q[1] <=> p[2] = q[2]

Ledger == source = [k \in Rank |-> source[k]] /\ \A k \in Rank : Once(k)

NInv == Calls /\ Queues /\ Results /\ Ledger

-----------------------------------------------------------------------------
(* Sequences and ranks.                                                    *)

\* Removing an entry leaves the other entries, in their order.
LEMMA RemoveEntry ==
    ASSUME NEW S, NEW s \in Seq(S), NEW j \in 1..Len(s)
    PROVE  /\ RemoveAt(s, j) \in Seq(S) /\ DOMAIN RemoveAt(s, j) = 1..(Len(s) - 1)
           /\ \A i \in 1..(Len(s) - 1) :
                 RemoveAt(s, j)[i] = IF i < j THEN s[i] ELSE s[i + 1]
<1> DEFINE a == SubSeq(s, 1, j - 1)
           b == SubSeq(s, j + 1, Len(s))
<1>1. Len(s) \in Nat /\ DOMAIN s = 1..Len(s) /\ \A i \in 1..Len(s) : s[i] \in S
  BY LenProperties, ElementOfSeq
<1>2. /\ a \in Seq(S) /\ Len(a) = j - 1
      /\ \A i \in 1..(j - 1) : a[i] = s[i]
  <2>1. \A i \in 1..(j - 1) : s[i] \in S
    BY <1>1
  <2>2. /\ a \in Seq(S) /\ Len(a) = IF 1 <= j - 1 THEN (j - 1) - 1 + 1 ELSE 0
        /\ \A i \in 1..((j - 1) - 1 + 1) : a[i] = s[1 + i - 1]
    BY <1>1, <2>1, SubSeqProperties
  <2> HIDE DEF a
  <2> QED
    BY <1>1, <2>2
<1>3. /\ b \in Seq(S) /\ Len(b) = Len(s) - j
      /\ \A i \in 1..(Len(s) - j) : b[i] = s[j + i]
  <2>1. \A i \in (j + 1)..Len(s) : s[i] \in S
    BY <1>1
  <2>2. /\ b \in Seq(S)
        /\ Len(b) = IF j + 1 <= Len(s) THEN Len(s) - (j + 1) + 1 ELSE 0
        /\ \A i \in 1..(Len(s) - (j + 1) + 1) : b[i] = s[(j + 1) + i - 1]
    BY <1>1, <2>1, SubSeqProperties
  <2> HIDE DEF b
  <2>3. Len(b) = Len(s) - j
    <3>1. Len(s) \in Nat /\ j \in Nat /\ j <= Len(s)
      BY <1>1
    <3>2. Len(b) = IF j + 1 <= Len(s) THEN Len(s) - (j + 1) + 1 ELSE 0
      BY <2>2
    <3> QED
      BY <3>1, <3>2
  <2>4. ASSUME NEW i \in 1..(Len(s) - j)
        PROVE  b[i] = s[j + i]
    <3>1. i \in 1..(Len(s) - (j + 1) + 1) /\ (j + 1) + i - 1 = j + i
      BY <1>1
    <3> QED
      BY <2>2, <3>1
  <2> QED
    BY <2>2, <2>3, <2>4
<1>4. RemoveAt(s, j) = a \o b
  BY DEF RemoveAt
<1> HIDE DEF a, b
<1>5. /\ a \o b \in Seq(S) /\ Len(a \o b) = Len(s) - 1
      /\ \A i \in 1..(Len(s) - 1) : (a \o b)[i] = IF i <= j - 1 THEN a[i] ELSE b[i - (j - 1)]
  <2>1. /\ a \o b \in Seq(S) /\ Len(a \o b) = Len(a) + Len(b)
        /\ \A i \in 1..(Len(a) + Len(b)) :
              (a \o b)[i] = IF i <= Len(a) THEN a[i] ELSE b[i - Len(a)]
    BY <1>2, <1>3, ConcatProperties
  <2> QED
    BY <1>1, <1>2, <1>3, <2>1
<1>6. ASSUME NEW i \in 1..(Len(s) - 1)
      PROVE  (a \o b)[i] = IF i < j THEN s[i] ELSE s[i + 1]
  BY <1>1, <1>2, <1>3, <1>5
<1>7. DOMAIN (a \o b) = 1..(Len(s) - 1)
  BY <1>5, LenProperties
<1> QED
  BY <1>4, <1>5, <1>6, <1>7

\* The negotiations of a queue after an entry is removed.
LEMMA RemoveNegotiated ==
    ASSUME NEW S, NEW s \in Seq(S), NEW j \in 1..Len(s), Distinct(s)
    PROVE  /\ Distinct(RemoveAt(s, j))
           /\ Negotiated(RemoveAt(s, j)) \subseteq Negotiated(s)
           /\ s[j].part = Sync => s[j].chan \in Negotiated(s)
           /\ s[j].part = Sync => s[j].chan \notin Negotiated(RemoveAt(s, j))
<1> DEFINE t == RemoveAt(s, j)
           from(i) == IF i < j THEN i ELSE i + 1
<1>1. Len(s) \in Nat /\ DOMAIN s = 1..Len(s)
  BY LenProperties
<1>2. DOMAIN t = 1..(Len(s) - 1) /\ \A i \in DOMAIN t : t[i] = s[from(i)]
  BY RemoveEntry
<1>3. /\ \A i \in DOMAIN t : from(i) \in DOMAIN s /\ from(i) # j
      /\ \A i, h \in DOMAIN t : from(i) = from(h) => i = h
  BY <1>1, <1>2
<1> HIDE DEF t, from
<1>4. Distinct(t)
  <2> SUFFICES ASSUME NEW i \in DOMAIN t, NEW h \in DOMAIN t, t[i].part = Sync,
                      t[h].part = Sync, t[i].chan = t[h].chan
               PROVE  i = h
    BY DEF Distinct
  <2>1. from(i) = from(h)
    BY <1>2, <1>3 DEF Distinct
  <2> QED
    BY <1>3, <2>1
<1>5. Negotiated(t) \subseteq Negotiated(s)
  BY <1>2, <1>3 DEF Negotiated
<1>6. s[j].part = Sync => s[j].chan \in Negotiated(s)
  BY <1>1 DEF Negotiated
<1>7. s[j].part = Sync => s[j].chan \notin Negotiated(t)
  BY <1>1, <1>2, <1>3 DEF Negotiated, Distinct
<1> QED
  BY <1>4, <1>5, <1>6, <1>7 DEF t

\* The negotiations of a queue after an entry is appended.
LEMMA AppendNegotiated ==
    ASSUME NEW S, NEW s \in Seq(S), NEW m \in S, Distinct(s)
    PROVE  /\ m.part # Sync =>
                 Distinct(Append(s, m)) /\ Negotiated(Append(s, m)) = Negotiated(s)
           /\ (m.part = Sync /\ m.chan \notin Negotiated(s)) =>
                 /\ Distinct(Append(s, m))
                 /\ Negotiated(Append(s, m)) = Negotiated(s) \union {m.chan}
<1> DEFINE t == Append(s, m)
<1>1. Len(s) \in Nat /\ DOMAIN s = 1..Len(s)
  BY LenProperties
<1>2. /\ DOMAIN t = 1..(Len(s) + 1) /\ t[Len(s) + 1] = m
      /\ \A i \in 1..Len(s) : t[i] = s[i]
  BY AppendProperties, LenProperties
<1>3. DOMAIN t = DOMAIN s \union {Len(s) + 1} /\ Len(s) + 1 \notin DOMAIN s
  BY <1>1, <1>2
<1> HIDE DEF t
<1>4. CASE m.part # Sync
  BY <1>1, <1>2, <1>3, <1>4 DEF Distinct, Negotiated, t
<1>5. CASE m.part = Sync /\ m.chan \notin Negotiated(s)
  <2>1. Negotiated(t) = Negotiated(s) \union {m.chan}
    BY <1>1, <1>2, <1>3, <1>5 DEF Negotiated
  <2>2. Distinct(t)
    BY <1>1, <1>2, <1>3, <1>5 DEF Negotiated, Distinct
  <2> QED
    BY <1>5, <2>1, <2>2 DEF t
<1> QED
  BY <1>4, <1>5

\* The negotiations of a queue after data receives are appended.
LEMMA ConcatNegotiated ==
    ASSUME NEW S, NEW s \in Seq(S), NEW u \in Seq(S), Distinct(s),
           \A i \in DOMAIN u : u[i].part # Sync
    PROVE  Distinct(s \o u) /\ Negotiated(s \o u) = Negotiated(s)
<1> DEFINE t == s \o u
<1>1. /\ Len(s) \in Nat /\ DOMAIN s = 1..Len(s)
      /\ Len(u) \in Nat /\ DOMAIN u = 1..Len(u)
  BY LenProperties
<1>2. /\ t \in Seq(S) /\ Len(t) = Len(s) + Len(u)
      /\ \A i \in 1..(Len(s) + Len(u)) :
            t[i] = IF i <= Len(s) THEN s[i] ELSE u[i - Len(s)]
  BY ConcatProperties
<1>3. DOMAIN t = 1..(Len(s) + Len(u))
  BY <1>2, LenProperties
<1> HIDE DEF t
<1>4. ASSUME NEW i \in DOMAIN t, t[i].part = Sync
      PROVE  i \in DOMAIN s /\ t[i] = s[i]
  <2>1. i \in 1..(Len(s) + Len(u))
    BY <1>3
  <2>2. CASE i <= Len(s)
    BY <1>1, <1>2, <2>1, <2>2
  <2>3. CASE ~(i <= Len(s))
    <3>1. i - Len(s) \in DOMAIN u /\ t[i] = u[i - Len(s)]
      BY <1>1, <1>2, <2>1, <2>3
    <3> QED
      BY <1>4, <3>1
  <2> QED
    BY <2>2, <2>3
<1>5. \A i \in DOMAIN s : i \in DOMAIN t /\ t[i] = s[i]
  BY <1>1, <1>2, <1>3
<1>6. Distinct(t) /\ Negotiated(t) = Negotiated(s)
  BY <1>4, <1>5 DEF Distinct, Negotiated
<1> QED
  BY <1>6 DEF t

\* The negotiations under way with rank k are those its peer drives.
LEMMA PeerDrives ==
    ASSUME NInv, NEW k \in Rank
    PROVE  /\ Negotiated(wire[k]) \union Negotiated(posted[k]) \subseteq Channels
           /\ \A c \in Negotiated(wire[k]) \union Negotiated(posted[k]) :
                 Driver[c] = Peer(k)
<1>1. wire[k] \in Seq(Arriving(k)) /\ posted[k] \in Seq(Awaited(k))
  BY DEF NInv, Queues
<1>2. /\ \A i \in DOMAIN wire[k] : wire[k][i] \in Arriving(k)
      /\ \A i \in DOMAIN posted[k] : posted[k][i] \in Awaited(k)
  BY <1>1, LenProperties, ElementOfSeq
<1>3. Sync \notin Nat /\ \A c \in Channels : Reach(c) \subseteq Nat
  BY DEF Sync, Reach
<1> QED
  BY <1>2, <1>3 DEF Negotiated, Arriving, Awaited

\* There are two ranks.
LEMMA Peers ==
    \A k \in Rank : /\ Peer(k) \in Rank /\ Peer(Peer(k)) = k
                    /\ \A l \in Rank : l # k => l = Peer(k)
BY DEF Rank, Peer

\* The channel of an init call, while there are calls to make.
LEMMA CurrentChannel ==
    ASSUME Calls, NEW k \in Rank, at[k] < Len(Order[k])
    PROVE  Current(k) \in Channels
<1>1. Order[k] \in Seq(Channels) /\ at[k] \in Nat
  BY NegotiationAssumption DEF Calls
<1>2. Len(Order[k]) \in Nat
  BY <1>1, LenProperties
<1>3. at[k] + 1 \in 1..Len(Order[k])
  BY <1>1, <1>2
<1> QED
  BY <1>1, <1>3, ElementOfSeq DEF Current

\* Numbers of messages are positive.
LEMMA ChannelTypes ==
    ASSUME NEW c \in Channels
    PROVE  Numbers[c] \in Nat \X Nat /\ Numbers[c][1] \in Nat \ {0}
           /\ Driver[c] \in Rank /\ Sender[c] \in Rank /\ Tag[c] \in Nat
BY NegotiationAssumption

\* An init call is for a channel the rank has not called for before, and is
\* remembered when it returns.
LEMMA Advance ==
    ASSUME Calls, NEW k \in Rank, at[k] < Len(Order[k])
    PROVE  /\ Current(k) \notin Begun(k)
           /\ at' = [at EXCEPT ![k] = @ + 1] =>
                 \A l \in Rank : Begun(l)' = Begun(l) \union
                                             (IF l = k THEN {Current(k)} ELSE {})
<1>1. /\ Order[k] \in Seq(Channels) /\ at \in [Rank -> Nat]
      /\ \A i, j \in DOMAIN Order[k] : Order[k][i] = Order[k][j] => i = j
  BY NegotiationAssumption DEF Calls
<1>2. Len(Order[k]) \in Nat /\ DOMAIN Order[k] = 1..Len(Order[k])
  BY <1>1, LenProperties
<1>3. Current(k) \notin Begun(k)
  <2> SUFFICES ASSUME NEW i \in 1..at[k], Order[k][i] = Order[k][at[k] + 1]
               PROVE  FALSE
    BY DEF Current, Begun
  <2>1. i \in DOMAIN Order[k] /\ at[k] + 1 \in DOMAIN Order[k] /\ i # at[k] + 1
    BY <1>1, <1>2
  <2> QED
    BY <1>1, <2>1
<1>4. ASSUME at' = [at EXCEPT ![k] = @ + 1], NEW l \in Rank
      PROVE  Begun(l)' = Begun(l) \union (IF l = k THEN {Current(k)} ELSE {})
  <2>1. CASE l # k
    BY <1>1, <1>4, <2>1 DEF Begun
  <2>2. CASE l = k
    <3>1. 1..at'[k] = (1..at[k]) \union {at[k] + 1}
      BY <1>1, <1>4
    <3> QED
      BY <2>2, <3>1 DEF Begun, Current
  <2> QED
    BY <2>1, <2>2
<1> QED
  BY <1>3, <1>4

\* A message joins those on their way to k.
LEMMA WireGrows ==
    ASSUME Queues, NEW k \in Rank, NEW m \in Arriving(k),
           wire' = [wire EXCEPT ![k] = Append(@, m)], UNCHANGED posted
    PROVE  Queues'
<1>1. Append(wire[k], m) \in Seq(Arriving(k))
  BY AppendProperties DEF Queues
<1>2. wire' = [l \in Rank |-> IF l = k THEN Append(wire[k], m) ELSE wire[l]]
  BY DEF Queues
<1> QED
  BY <1>1, <1>2 DEF Queues

\* Rank k posts receives.
LEMMA PostedGrow ==
    ASSUME Queues, NEW k \in Rank, NEW s \in Seq(Awaited(k)),
           posted' = [posted EXCEPT ![k] = s], UNCHANGED wire
    PROVE  Queues'
<1>1. posted' = [l \in Rank |-> IF l = k THEN s ELSE posted[l]]
  BY DEF Queues
<1> QED
  BY <1>1 DEF Queues

-----------------------------------------------------------------------------
(* The steps.                                                              *)

\* An init call of a side that does not drive.
LEMMA SpawnKeeps ==
    ASSUME NInv, NEW k \in Rank, InitSpawn(k)
    PROVE  NInv'
<1>1. at[k] < Len(Order[k]) /\ k \notin sending /\ Driver[Current(k)] # k
  BY DEF InitSpawn, MayInit
<1>2. Current(k) \in Channels /\ Driver[Current(k)] = Peer(k)
  BY <1>1, CurrentChannel, ChannelTypes, Peers DEF NInv
<1>3. Len(Order[k]) \in Nat
  BY NegotiationAssumption, LenProperties
<1>4. Calls'
  <2>1. /\ at' = [at EXCEPT ![k] = @ + 1] /\ UNCHANGED sending
        /\ threads' = [threads EXCEPT ![k] = @ \union {Current(k)}]
    BY DEF InitSpawn
  <2>2. at' \in [Rank -> Nat] /\ \A l \in Rank : at'[l] <= Len(Order[l])
    BY <1>1, <1>3, <2>1 DEF NInv, Calls
  <2>3. \A l \in sending' : at'[l] < Len(Order[l]) /\ (Driver[Current(l)] = l)'
    BY <1>1, <2>1 DEF NInv, Calls, Current
  <2>4. threads' \in [Rank -> SUBSET Channels]
        /\ \A l \in Rank : \A c \in threads'[l] : Driver[c] = Peer(l)
    BY <1>2, <2>1 DEF NInv, Calls
  <2> QED
    BY <2>1, <2>2, <2>3, <2>4 DEF NInv, Calls
<1>5. Queues' /\ Results'
  BY DEF NInv, InitSpawn, datavars, Queues, Results, DataMatches
<1>6. Ledger'
  <2>1. /\ at' = [at EXCEPT ![k] = @ + 1]
        /\ threads' = [threads EXCEPT ![k] = @ \union {Current(k)}]
        /\ UNCHANGED <<sending, numbers, source, wire, posted>>
    BY DEF InitSpawn
  <2>2. /\ Current(k) \notin Begun(k)
        /\ \A l \in Rank : Begun(l)' = Begun(l) \union
                                       (IF l = k THEN {Current(k)} ELSE {})
    BY <1>1, <2>1, Advance DEF NInv
  <2>3. \A l \in Rank : Offered(l) \subseteq Offered(l)'
    BY <1>1, <2>1, <2>2 DEF Offered, Current, NInv, Calls
  <2>4. threads \in [Rank -> SUBSET Channels]
    BY DEF NInv, Calls
  <2>5. ASSUME NEW l \in Rank
        PROVE  Once(l)'
    <3>1. Peer(l) \in Rank /\ Once(l)
      BY Peers DEF NInv, Ledger
    <3>2. threads'[l] = threads[l] \union (IF l = k THEN {Current(k)} ELSE {})
      BY <2>1, <2>4
    <3>3. \A p \in source[l] : Settled(l, p)'
      <4> SUFFICES ASSUME NEW p \in source[l] PROVE Settled(l, p)'
        OBVIOUS
      <4>1. Settled(l, p)
        BY <3>1 DEF Once
      <4> QED
        BY <2>1, <2>2, <2>3, <3>1, <3>2, <4>1 DEF Settled
    <3> QED
      BY <2>1, <2>2, <2>3, <3>1, <3>2, <3>3 DEF Once
  <2> QED
    BY <2>1, <2>5 DEF NInv, Ledger
<1> QED
  BY <1>4, <1>5, <1>6 DEF NInv

\* The MPI_Send of an init call.
LEMMA SendKeeps ==
    ASSUME NInv, NEW k \in Rank, InitSend(k)
    PROVE  NInv'
<1> DEFINE m == [tag |-> SyncTag, chan |-> Current(k), part |-> Sync,
                 data |-> Numbers[Current(k)]]
<1>1. at[k] < Len(Order[k]) /\ Driver[Current(k)] = k
      /\ k \notin sending
      /\ UNCHANGED <<at, threads, numbers, source, posted, sent, started, got>>
      /\ sending' = sending \union {k}
      /\ wire' = [wire EXCEPT ![Peer(k)] = Append(@, m)]
  BY DEF InitSend, MayInit, datavars
<1>2. Current(k) \in Channels
  BY <1>1, CurrentChannel DEF NInv
<1>3. m \in Arriving(Peer(k)) /\ Peer(k) \in Rank
  BY <1>1, <1>2, ChannelTypes, Peers DEF Arriving, Sync, SyncTag
<1>4. Queues'
  BY <1>1, <1>3, WireGrows DEF NInv
<1>5. Calls' /\ Results'
  BY <1>1 DEF NInv, Calls, Results, DataMatches, Current
<1>6. Ledger'
  <2>1. Current(k) \notin Begun(k) /\ Current(k) \notin Offered(k)
    BY <1>1, Advance DEF NInv, Offered
  <2>2. \A l \in Rank : /\ Begun(l)' = Begun(l)
                        /\ Offered(l)' = Offered(l) \union
                                         (IF l = k THEN {Current(k)} ELSE {})
    BY <1>1 DEF Begun, Offered, Current
  <2>3. wire[Peer(k)] \in Seq(Arriving(Peer(k))) /\ Once(Peer(k)) /\ Peer(Peer(k)) = k
    BY <1>3, Peers DEF NInv, Queues, Ledger
  <2>4. /\ Distinct(Append(wire[Peer(k)], m))
        /\ Negotiated(Append(wire[Peer(k)], m)) =
              Negotiated(wire[Peer(k)]) \union {Current(k)}
    <3>1. Distinct(wire[Peer(k)]) /\ m.chan \notin Negotiated(wire[Peer(k)])
      BY <2>1, <2>3 DEF Once
    <3> QED
      BY <1>3, <2>3, <3>1, AppendNegotiated
  <2>5. \A l \in Rank : wire'[l] = IF l = Peer(k) THEN Append(wire[l], m) ELSE wire[l]
    BY <1>1 DEF NInv, Queues
  <2> HIDE DEF m
  <2>6. ASSUME NEW l \in Rank
        PROVE  Once(l)'
    <3>1. Once(l) /\ Peer(l) \in Rank
      BY Peers DEF NInv, Ledger
    <3>2. /\ Distinct(wire'[l])
          /\ Negotiated(wire'[l]) = Negotiated(wire[l]) \union
                                    (IF l = Peer(k) THEN {Current(k)} ELSE {})
      BY <2>4, <2>5, <3>1 DEF Once
    <3>3. \A p \in source[l] : Settled(l, p)'
      <4> SUFFICES ASSUME NEW p \in source[l] PROVE Settled(l, p)'
        OBVIOUS
      <4>1. Settled(l, p)
        BY <3>1 DEF Once
      <4>2. p[2] \notin Negotiated(wire'[l])
        <5>1. CASE l # Peer(k)
          BY <3>2, <4>1, <5>1 DEF Settled
        <5>2. CASE l = Peer(k) /\ Driver[p[1]] # l
          BY <2>1, <2>3, <3>2, <4>1, <5>2 DEF Settled
        <5>3. CASE l = Peer(k) /\ Driver[p[1]] = l
          BY <1>1, <1>3, <2>3, <3>2, <4>1, <5>3, Peers DEF Settled, Peer, Rank
        <5> QED
          BY <5>1, <5>2, <5>3
      <4> QED
        BY <1>1, <2>2, <3>1, <4>1, <4>2 DEF Settled
    <3>4. Negotiated(wire'[l]) \subseteq Offered(Peer(l))'
      BY <2>2, <2>3, <3>1, <3>2 DEF Once
    <3> QED
      BY <1>1, <2>2, <3>1, <3>2, <3>3, <3>4 DEF Once
  <2> QED
    BY <1>1, <2>6 DEF NInv, Ledger
<1> QED
  BY <1>4, <1>5, <1>6 DEF NInv

\* The end of an init call that has sent its numbers.
LEMMA ReturnKeeps ==
    ASSUME NInv, NEW k \in Rank, InitReturn(k)
    PROVE  NInv'
<1>1. k \in sending /\ sending' = sending \ {k}
      /\ numbers' = [numbers EXCEPT ![k][Current(k)] = Numbers[Current(k)]]
      /\ source' = [source EXCEPT ![k] = @ \union {<<Current(k), Current(k)>>}]
      /\ at' = [at EXCEPT ![k] = @ + 1]
      /\ UNCHANGED <<threads, wire, posted, sent, started, got>>
  BY DEF InitReturn, datavars
<1>2. at[k] < Len(Order[k]) /\ Current(k) \in Channels /\ Driver[Current(k)] = k
  BY <1>1, CurrentChannel DEF NInv, Calls
<1>3. Len(Order[k]) \in Nat
  BY NegotiationAssumption, LenProperties
<1>4. Calls'
  BY <1>1, <1>2, <1>3 DEF NInv, Calls, Current
<1>5. Results'
  BY <1>1, <1>2 DEF NInv, Results, DataMatches
<1>6. Queues'
  BY <1>1 DEF NInv, Queues
<1>7. Ledger'
  <2>0. PICK c \in Channels : c = Current(k)
    BY <1>2
  <2>1. /\ c \notin Begun(k)
        /\ \A l \in Rank : Begun(l)' = Begun(l) \union (IF l = k THEN {c} ELSE {})
    BY <1>1, <1>2, <2>0, Advance DEF NInv
  <2>2. \A l \in Rank : Offered(l) \subseteq Offered(l)'
    BY <1>1, <1>2, <2>0, <2>1 DEF Offered, Current, NInv, Calls
  <2>3. /\ \A l \in Rank : source'[l] = source[l] \union
                                        (IF l = k THEN {<<c, c>>} ELSE {})
        /\ source' = [l \in Rank |-> source'[l]]
    BY <1>1, <2>0 DEF NInv, Ledger
  <2>4. \A l \in Rank, d \in Channels :
           (l # k \/ d # c) => numbers'[l][d] = numbers[l][d]
    BY <1>1, <2>0 DEF NInv, Results
  <2>5. numbers'[k][c] = Numbers[c]
    BY <1>1, <2>0 DEF NInv, Results
  <2>6. ASSUME NEW l \in Rank, NEW p \in source[l]
        PROVE  Settled(l, p)' /\ (l = k => p[1] # c /\ p[2] # c)
    <3>1. Settled(l, p) /\ Peer(l) \in Rank
      BY Peers DEF NInv, Ledger, Once
    <3>2. p[1] \in Begun(l) /\ p[1] \in Channels
      BY <3>1 DEF Settled
    <3>3. l = k => p[1] # c
      BY <2>1, <3>2
    <3>4. l = k => p[2] # c
      BY <1>2, <2>0, <3>1, <3>3 DEF Settled
    <3>5. numbers'[l][p[1]] = Numbers[p[2]]
      BY <2>4, <3>1, <3>2, <3>3 DEF Settled
    <3> QED
      BY <1>1, <2>1, <2>2, <3>1, <3>3, <3>4, <3>5 DEF Settled
  <2>7. Settled(k, <<c, c>>)'
    <3>1. /\ c \notin threads[k] /\ c \notin Negotiated(posted[k])
          /\ c \notin Negotiated(wire[k])
      BY <1>2, <2>0, PeerDrives DEF NInv, Calls, Peer, Rank
    <3>2. c \in Begun(k)' /\ Driver[c] = k
      BY <1>2, <2>0, <2>1
    <3> QED
      BY <1>1, <2>5, <3>1, <3>2 DEF Settled
  <2>8. ASSUME NEW l \in Rank
        PROVE  Once(l)'
    <3>1. Once(l) /\ Peer(l) \in Rank
      BY Peers DEF NInv, Ledger
    <3>2. \A p \in source'[l] : Settled(l, p)'
      BY <2>3, <2>6, <2>7
    <3>3. \A p, q \in source'[l] : p[1] = q[1] <=> p[2] = q[2]
      BY <2>3, <2>6, <3>1 DEF Once
    <3> QED
      BY <1>1, <2>1, <2>2, <3>1, <3>2, <3>3 DEF Once
  <2> QED
    BY <2>3, <2>8 DEF Ledger
<1> QED
  BY <1>4, <1>5, <1>6, <1>7 DEF NInv

\* A thread's MPI_Recv.
LEMMA ThreadKeeps ==
    ASSUME NInv, NEW k \in Rank, NEW c \in Channels, threaded_sync_driver(k, c)
    PROVE  NInv'
<1> DEFINE r == [tag |-> SyncTag, chan |-> c, part |-> Sync]
<1>1. c \in threads[k] /\ threads' = [threads EXCEPT ![k] = @ \ {c}]
      /\ posted' = [posted EXCEPT ![k] = Append(@, r)]
      /\ UNCHANGED <<at, sending, numbers, source, wire, sent, started, got>>
  BY DEF threaded_sync_driver, datavars
<1>2. r \in Awaited(k)
  BY <1>1 DEF NInv, Calls, Awaited, Sync, SyncTag
<1>3. Append(posted[k], r) \in Seq(Awaited(k))
  BY <1>2, AppendProperties DEF NInv, Queues
<1>4. posted' = [posted EXCEPT ![k] = Append(posted[k], r)]
  BY <1>1
<1>5. Queues'
  BY <1>1, <1>3, <1>4, PostedGrow DEF NInv
<1>6. Calls'
  BY <1>1 DEF NInv, Calls, Current
<1>7. Results'
  BY <1>1 DEF NInv, Results, DataMatches
<1>8. Ledger'
  <2>1. Once(k) /\ posted[k] \in Seq(Awaited(k))
    BY DEF NInv, Ledger, Queues
  <2>2. /\ Distinct(Append(posted[k], r))
        /\ Negotiated(Append(posted[k], r)) = Negotiated(posted[k]) \union {c}
    <3>1. Distinct(posted[k]) /\ r.chan \notin Negotiated(posted[k])
      BY <1>1, <2>1 DEF Once
    <3> QED
      BY <1>2, <2>1, <3>1, AppendNegotiated
  <2>3. \A l \in Rank : posted'[l] = IF l = k THEN Append(posted[l], r) ELSE posted[l]
    BY <1>1 DEF NInv, Queues
  <2>4. \A l \in Rank : threads'[l] = threads[l] \ (IF l = k THEN {c} ELSE {})
    BY <1>1 DEF NInv, Calls
  <2> HIDE DEF r
  <2>5. \A l \in Rank : Begun(l)' = Begun(l) /\ Offered(l)' = Offered(l)
    BY <1>1 DEF Begun, Offered, Current
  <2>6. ASSUME NEW l \in Rank
        PROVE  Once(l)'
    <3>1. Once(l) /\ Peer(l) \in Rank
      BY Peers DEF NInv, Ledger
    <3>2. /\ Distinct(posted'[l])
          /\ Negotiated(posted'[l]) = Negotiated(posted[l]) \union
                                      (IF l = k THEN {c} ELSE {})
      BY <2>2, <2>3, <3>1 DEF Once
    <3>3. \A p \in source[l] : Settled(l, p)'
      <4> SUFFICES ASSUME NEW p \in source[l] PROVE Settled(l, p)'
        OBVIOUS
      <4>1. Settled(l, p)
        BY <3>1 DEF Once
      <4> QED
        BY <1>1, <2>4, <2>5, <3>1, <3>2, <4>1 DEF Settled
    <3> QED
      BY <1>1, <2>4, <2>5, <3>1, <3>2, <3>3 DEF Once
  <2> QED
    BY <1>1, <2>6 DEF NInv, Ledger
<1> QED
  BY <1>5, <1>6, <1>7, <1>8 DEF NInv

\* Steps that leave the negotiations of all queues alone, or take some away,
\* keep the ledger.
LEMMA DataLedger ==
    ASSUME NInv, UNCHANGED <<at, sending, threads, numbers, source>>,
           \A l \in Rank :
              /\ Distinct(wire'[l]) /\ Distinct(posted'[l])
              /\ Negotiated(wire'[l]) \subseteq Negotiated(wire[l])
              /\ Negotiated(posted'[l]) \subseteq Negotiated(posted[l])
    PROVE  Ledger'
<1>1. \A l \in Rank : Begun(l)' = Begun(l) /\ Offered(l)' = Offered(l)
  BY DEF Begun, Offered, Current
<1>2. ASSUME NEW l \in Rank
      PROVE  Once(l)'
  <2>1. Once(l) /\ Peer(l) \in Rank
    BY Peers DEF NInv, Ledger
  <2>2. \A p \in source[l] : Settled(l, p)'
    <3> SUFFICES ASSUME NEW p \in source[l] PROVE Settled(l, p)'
      OBVIOUS
    <3>1. Settled(l, p)
      BY <2>1 DEF Once
    <3> QED
      BY <1>1, <2>1, <3>1 DEF Settled
  <2> QED
    BY <1>1, <2>1, <2>2 DEF Once
<1> QED
  BY <1>2 DEF NInv, Ledger

\* The sender starts a message.
LEMMA StartSendKeeps ==
    ASSUME NInv, NEW c \in Channels, NEW n \in AnyMessage, StartSend(c, n)
    PROVE  NInv'
<1> DEFINE k == Sender[c]
           m == [tag |-> InternalTag(c, n), chan |-> c, part |-> n,
                 data |-> <<0, n>>]
<1>1. /\ numbers[k][c] # None /\ n \in Messages(k, c)
      /\ wire' = [wire EXCEPT ![Peer(k)] = Append(@, m)]
      /\ UNCHANGED <<at, sending, threads, numbers, source, posted, started, got>>
  BY DEF StartSend
<1>2. k \in Rank /\ Peer(k) \in Rank /\ Peer(Peer(k)) = k
  BY ChannelTypes, Peers
<1>3. PICK d \in Channels : Driver[d] = Driver[c] /\ numbers[k][c] = Numbers[d]
  BY <1>1, <1>2 DEF NInv, Results
<1>4. n \in Reach(c) /\ n \in Nat
  BY <1>1, <1>3, ChannelTypes DEF Messages, Reach
<1>5. m \in Arriving(Peer(k))
  <2>1. <<0, n>> \in Nat \X Nat /\ InternalTag(c, n) \in Int
    BY <1>4, ChannelTypes DEF InternalTag
  <2> QED
    BY <1>2, <1>4, <2>1 DEF Arriving
<1>6. Queues'
  BY <1>1, <1>2, <1>5, WireGrows DEF NInv
<1>7. Calls' /\ Results'
  BY <1>1 DEF NInv, Calls, Results, DataMatches, Current
<1>8. Ledger'
  <2>1. \A l \in Rank : wire'[l] = IF l = Peer(k) THEN Append(wire[l], m) ELSE wire[l]
    BY <1>1 DEF NInv, Queues
  <2>2. m.part # Sync
    BY <1>4 DEF Sync
  <2> HIDE DEF m, k
  <2>3. ASSUME NEW l \in Rank
        PROVE  Distinct(wire'[l]) /\ Negotiated(wire'[l]) = Negotiated(wire[l])
    <3>1. Distinct(wire[l]) /\ wire[l] \in Seq(Arriving(l))
      BY DEF NInv, Ledger, Once, Queues
    <3> QED
      BY <1>5, <2>1, <2>2, <3>1, AppendNegotiated
  <2> QED
    BY <1>1, <2>3, DataLedger DEF NInv, Ledger, Once
<1> QED
  BY <1>6, <1>7, <1>8 DEF NInv

\* The receiver posts its receives.
LEMMA StartRecvKeeps ==
    ASSUME NInv, NEW c \in Channels, StartRecv(c)
    PROVE  NInv'
<1> DEFINE k == Peer(Sender[c])
           w == numbers[k][c][1]
           s == [j \in 1..w |->
                    [tag |-> InternalTag(c, j - 1), chan |-> c, part |-> j - 1]]
<1>1. /\ numbers[k][c] # None /\ started' = started \union {c}
      /\ posted' = [posted EXCEPT ![k] = @ \o s]
      /\ UNCHANGED <<at, sending, threads, numbers, source, wire, sent, got>>
  BY DEF StartRecv
<1>2. k \in Rank /\ Peer(k) = Sender[c]
  BY ChannelTypes, Peers
<1>3. /\ w \in Nat
      /\ \E d \in Channels : Driver[d] = Driver[c] /\ w = Numbers[d][1]
  BY <1>1, <1>2, ChannelTypes DEF NInv, Results
<1>4. s \in Seq(Awaited(k))
  <2>1. ASSUME NEW j \in 1..w
        PROVE  [tag |-> InternalTag(c, j - 1), chan |-> c, part |-> j - 1]
                  \in Awaited(k)
    <3>1. j - 1 \in Reach(c) /\ j - 1 \in Int /\ InternalTag(c, j - 1) \in Int
      BY <1>3, ChannelTypes DEF Reach, InternalTag
    <3> QED
      BY <1>2, <3>1 DEF Awaited
  <2>2. s \in [1..w -> Awaited(k)]
    BY <2>1
  <2> HIDE DEF s, w
  <2> QED
    BY <1>3, <2>2, SeqDef
<1>5. posted[k] \o s \in Seq(Awaited(k))
  BY <1>2, <1>4, ConcatProperties DEF NInv, Queues
<1>6. posted' = [posted EXCEPT ![k] = posted[k] \o s]
  BY <1>1
<1>7. Queues'
  BY <1>1, <1>2, <1>5, <1>6, PostedGrow DEF NInv
<1>8. Calls' /\ Results'
  BY <1>1 DEF NInv, Calls, Results, DataMatches, Current
<1>9. Ledger'
  <2>1. \A l \in Rank : posted'[l] = IF l = k THEN posted[l] \o s ELSE posted[l]
    BY <1>1 DEF NInv, Queues
  <2>2. \A j \in DOMAIN s : s[j].part # Sync
    BY <1>3 DEF Sync
  <2> HIDE DEF s, k
  <2>3. ASSUME NEW l \in Rank
        PROVE  Distinct(posted'[l]) /\ Negotiated(posted'[l]) = Negotiated(posted[l])
    <3>1. Distinct(posted[l]) /\ posted[l] \in Seq(Awaited(l))
      BY DEF NInv, Ledger, Once, Queues
    <3> QED
      BY <1>4, <2>1, <2>2, <3>1, ConcatNegotiated
  <2> QED
    BY <1>1, <2>3, DataLedger DEF NInv, Ledger, Once
<1> QED
  BY <1>7, <1>8, <1>9 DEF NInv

\* MPI matches a message with a receive of its tag: the tag decides whether it
\* is a negotiation and, if it is not, which message of which channel.
LEMMA MatchKeeps ==
    ASSUME TagsApart, NInv, NEW k \in Rank,
           NEW j \in DOMAIN wire[k], NEW h \in DOMAIN posted[k], Match(k, j, h)
    PROVE  NInv'
<1> DEFINE m == wire[k][j]
           r == posted[k][h]
<1>1. wire[k] \in Seq(Arriving(k)) /\ posted[k] \in Seq(Awaited(k))
  BY DEF NInv, Queues
<1>2. j \in 1..Len(wire[k]) /\ h \in 1..Len(posted[k])
  BY <1>1, LenProperties
<1>3. m \in Arriving(k) /\ r \in Awaited(k) /\ m.tag = r.tag
  BY <1>1, <1>2, ElementOfSeq DEF Match
<1>4. Queues'
  <2>1. RemoveAt(wire[k], j) \in Seq(Arriving(k))
        /\ RemoveAt(posted[k], h) \in Seq(Awaited(k))
    BY <1>1, <1>2, RemoveEntry
  <2>2. /\ wire' = [l \in Rank |-> IF l = k THEN RemoveAt(wire[k], j) ELSE wire[l]]
        /\ posted' = [l \in Rank |-> IF l = k THEN RemoveAt(posted[k], h)
                                              ELSE posted[l]]
    BY DEF Match, NInv, Queues
  <2> QED
    BY <2>1, <2>2 DEF NInv, Queues
<1>5. Calls'
  BY DEF Match, NInv, Calls, Current
<1>6. m.chan \in Channels /\ m.part \in Int /\ r.chan \in Channels /\ r.part \in Int
  BY <1>3 DEF Arriving, Awaited
<1>7. /\ Distinct(wire'[k]) /\ Distinct(posted'[k])
      /\ Negotiated(wire'[k]) \subseteq Negotiated(wire[k])
      /\ Negotiated(posted'[k]) \subseteq Negotiated(posted[k])
      /\ m.part = Sync => m.chan \in Negotiated(wire[k]) \ Negotiated(wire'[k])
      /\ r.part = Sync => r.chan \in Negotiated(posted[k]) \ Negotiated(posted'[k])
      /\ \A l \in Rank \ {k} : wire'[l] = wire[l] /\ posted'[l] = posted[l]
  <2>1. Distinct(wire[k]) /\ Distinct(posted[k])
    BY DEF NInv, Ledger, Once
  <2>2. /\ wire'[k] = RemoveAt(wire[k], j) /\ posted'[k] = RemoveAt(posted[k], h)
        /\ \A l \in Rank \ {k} : wire'[l] = wire[l] /\ posted'[l] = posted[l]
    BY DEF Match, NInv, Queues
  <2> QED
    BY <1>1, <1>2, <2>1, <2>2, RemoveNegotiated
<1>8. CASE r.part = Sync
  <2>1. r.tag = SyncTag /\ Driver[r.chan] = Peer(k)
    BY <1>3, <1>6, <1>8, ChannelTypes DEF Awaited, Reach, Sync
  <2>2. m.part = Sync /\ m.data = Numbers[m.chan] /\ Driver[m.chan] = Peer(k)
    BY <1>3, <1>6, <2>1 DEF Arriving, TagsApart
  <2>3. /\ numbers' = [numbers EXCEPT ![k][r.chan] = Numbers[m.chan]]
        /\ source' = [source EXCEPT ![k] = @ \union {<<r.chan, m.chan>>}]
        /\ UNCHANGED <<at, sending, threads, got, started>>
    BY <1>8, <2>2 DEF Match
  <2> HIDE DEF m, r
  <2>4. Results'
    BY <1>6, <2>1, <2>2, <2>3 DEF NInv, Results, DataMatches
  <2>5. Ledger'
    <3>0. PICK c \in Channels, d \in Channels : c = r.chan /\ d = m.chan
      BY <1>6
    <3>1. /\ \A l \in Rank : source'[l] = source[l] \union
                                (IF l = k THEN {<<c, d>>} ELSE {})
          /\ source' = [l \in Rank |-> source'[l]]
      BY <2>3, <3>0 DEF NInv, Ledger
    <3>2. /\ \A l \in Rank, e \in Channels :
                (l # k \/ e # c) => numbers'[l][e] = numbers[l][e]
          /\ numbers'[k][c] = Numbers[d]
      BY <2>3, <3>0 DEF NInv, Results
    <3>3. \A l \in Rank : Begun(l)' = Begun(l) /\ Offered(l)' = Offered(l)
      BY <2>3 DEF Begun, Offered, Current
    <3>4. \A l \in Rank : /\ Distinct(wire'[l]) /\ Distinct(posted'[l])
                          /\ Negotiated(wire'[l]) \subseteq Negotiated(wire[l])
                          /\ Negotiated(posted'[l]) \subseteq Negotiated(posted[l])
      BY <1>7 DEF NInv, Ledger, Once
    <3>5. c \in Negotiated(posted[k]) /\ d \in Negotiated(wire[k])
      BY <1>7, <1>8, <2>2, <3>0
    <3>6. ASSUME NEW l \in Rank, NEW p \in source[l]
          PROVE  Settled(l, p)' /\ (l = k => p[1] # c /\ p[2] # d)
      <4>1. Settled(l, p) /\ Peer(l) \in Rank
        BY Peers DEF NInv, Ledger, Once
      <4>2. l = k => p[1] # c /\ p[2] # d
        BY <3>5, <4>1 DEF Settled
      <4>3. numbers'[l][p[1]] = Numbers[p[2]]
        BY <3>2, <4>1, <4>2 DEF Settled
      <4> QED
        BY <2>3, <3>3, <3>4, <4>1, <4>2, <4>3 DEF Settled
    <3>7. Settled(k, <<c, d>>)'
      <4>1. Once(k) /\ Peer(k) \in Rank /\ Peer(k) # k
        BY Peers DEF NInv, Ledger, Peer, Rank
      <4>2. c \in Begun(k) /\ c \notin threads[k] /\ d \in Offered(Peer(k))
        BY <3>5, <4>1 DEF Once
      <4>3. c \notin Negotiated(posted'[k]) /\ d \notin Negotiated(wire'[k])
        BY <1>7, <1>8, <2>2, <3>0
      <4> QED
        BY <2>1, <2>2, <2>3, <3>0, <3>2, <3>3, <4>1, <4>2, <4>3 DEF Settled
    <3>8. ASSUME NEW l \in Rank
          PROVE  Once(l)'
      <4>1. Once(l) /\ Peer(l) \in Rank
        BY Peers DEF NInv, Ledger
      <4>2. \A p \in source'[l] : Settled(l, p)'
        BY <3>1, <3>6, <3>7
      <4>3. \A p, q \in source'[l] : p[1] = q[1] <=> p[2] = q[2]
        BY <3>1, <3>6, <4>1 DEF Once
      <4> QED
        BY <2>3, <3>3, <3>4, <4>1, <4>2, <4>3 DEF Once
    <3> QED
      BY <3>1, <3>8 DEF Ledger
  <2> QED
    BY <1>4, <1>5, <2>4, <2>5 DEF NInv
<1>9. CASE r.part # Sync
  <2>1. r.part \in Reach(r.chan) /\ r.tag = InternalTag(r.chan, r.part)
        /\ Sender[r.chan] = Peer(k)
    BY <1>3, <1>9 DEF Awaited
  <2>2. m.part \in Reach(m.chan) /\ m.tag = InternalTag(m.chan, m.part)
        /\ Sender[m.chan] = Peer(k)
    BY <1>3, <1>6, <2>1 DEF Arriving, TagsApart
  <2>3. m.chan = r.chan
    BY <1>3, <1>6, <2>1, <2>2 DEF TagsApart
  <2>4. m.part = r.part
    BY <1>3, <1>6, <2>1, <2>2, <2>3, ChannelTypes DEF InternalTag
  <2>5. /\ got' = [got EXCEPT ![r.chan] = @ \union
                      {[part |-> r.part, from |-> <<m.chan, m.part>>]}]
        /\ UNCHANGED <<at, sending, threads, numbers, source, started>>
    BY <1>9 DEF Match
  <2>6. Results'
    BY <1>6, <2>3, <2>4, <2>5 DEF NInv, Results, DataMatches
  <2>7. Ledger'
    BY <1>7, <2>5, DataLedger DEF NInv, Ledger, Once
  <2> QED
    BY <1>4, <1>5, <2>6, <2>7 DEF NInv
<1> QED
  BY <1>8, <1>9

-----------------------------------------------------------------------------
(* The invariant holds.                                                    *)

\* Initially nothing is on its way.
LEMMA InitNInv == Init => NInv
<1> SUFFICES ASSUME Init PROVE NInv
  OBVIOUS
<1>1. Calls
  BY NegotiationAssumption, LenProperties DEF Init, Calls
<1>2. Queues
  <2>1. \A k \in Rank : <<>> \in Seq(Arriving(k)) /\ <<>> \in Seq(Awaited(k))
    BY EmptySeq
  <2>2. wire = [k \in Rank |-> <<>>] /\ posted = [k \in Rank |-> <<>>]
    BY DEF Init
  <2> QED
    BY <2>1, <2>2 DEF Queues
<1>3. Results
  BY DEF Init, Results, DataMatches
<1>4. Ledger
  <2>1. \A k \in Rank : wire[k] = <<>> /\ posted[k] = <<>> /\ threads[k] = {}
                        /\ source[k] = {}
    BY DEF Init
  <2>2. Distinct(<<>>) /\ Negotiated(<<>>) = {}
    BY DEF Distinct, Negotiated
  <2>3. source = [k \in Rank |-> source[k]]
    BY DEF Init
  <2> QED
    BY <2>1, <2>2, <2>3 DEF Ledger, Once
<1> QED
  BY <1>1, <1>2, <1>3, <1>4 DEF NInv

\* Every step preserves the invariant.
LEMMA NextNInv ==
    ASSUME TagsApart, NInv, [Next]_vars
    PROVE  NInv'
<1>1. ASSUME NEW k \in Rank, InitCall(k) \/ InitReturn(k)
      PROVE  NInv'
  BY <1>1, SpawnKeeps, SendKeeps, ReturnKeeps DEF InitCall
<1>2. ASSUME NEW k \in Rank, Progress(k)
      PROVE  NInv'
  BY <1>2, MatchKeeps DEF Progress
<1>3. CASE UNCHANGED vars
  <2>1. Calls' /\ Queues' /\ Results'
    BY <1>3 DEF vars, NInv, Calls, Queues, Results, DataMatches, Current
  <2>2. Ledger'
    BY <1>3, DataLedger DEF vars, NInv, Ledger, Once
  <2> QED
    BY <2>1, <2>2 DEF NInv
<1> QED
  BY <1>1, <1>2, <1>3, ThreadKeeps, StartSendKeeps, StartRecvKeeps DEF Next, Done

\* The invariant holds in every reachable state.
LEMMA Invariance ==
    ASSUME TagsApart
    PROVE  Spec => []NInv
<1>1. Init => NInv
  BY InitNInv
<1>2. NInv /\ [Next]_vars => NInv'
  BY NextNInv
<1> QED
  BY <1>1, <1>2, PTL DEF Spec

-----------------------------------------------------------------------------
(* The theorems.                                                           *)

\* Type correctness: in particular a receive is only posted, and a message only
\* sent, for a channel of the two ranks.
THEOREM TypeCorrect ==
    ASSUME TagsApart
    PROVE  Spec => []TypeOK
<1>1. NInv => TypeOK
  <2> SUFFICES ASSUME NInv PROVE TypeOK
    OBVIOUS
  <2>1. ASSUME NEW k \in Rank
        PROVE  at[k] \in 0..Len(Order[k])
    <3>1. Len(Order[k]) \in Nat
      BY NegotiationAssumption, LenProperties
    <3> QED
      BY <3>1 DEF NInv, Calls
  <2>2. ASSUME NEW k \in Rank, NEW m \in ToSet(wire[k]) \union ToSet(posted[k])
        PROVE  m.chan \in Channels /\ m.part \in Int
    <3>1. CASE m \in ToSet(wire[k])
      <4>1. wire[k] \in Seq(Arriving(k))
        BY DEF NInv, Queues
      <4>2. m \in Arriving(k)
        BY <3>1, <4>1, LenProperties, ElementOfSeq DEF ToSet
      <4> QED
        BY <4>2 DEF Arriving
    <3>2. CASE m \in ToSet(posted[k])
      <4>1. posted[k] \in Seq(Awaited(k))
        BY DEF NInv, Queues
      <4>2. m \in Awaited(k)
        BY <3>2, <4>1, LenProperties, ElementOfSeq DEF ToSet
      <4> QED
        BY <4>2 DEF Awaited
    <3> QED
      BY <3>1, <3>2
  <2>3. source \in [Rank -> SUBSET (Channels \X Channels)]
    BY DEF NInv, Ledger, Once, Settled
  <2> QED
    BY <2>1, <2>2, <2>3 DEF NInv, Calls, Results, TypeOK
<1> QED
  BY <1>1, Invariance, PTL

\* If the tags of the data do not meet, then in whatever order the init calls
\* send and the threads reach MPI_Recv, each request takes the numbers of one
\* channel with the same driver, and no two requests of a rank take the same.
THEOREM NumbersOnce ==
    ASSUME TagsApart
    PROVE  Spec => []OnePerNegotiation
<1>1. NInv => OnePerNegotiation
  BY DEF NInv, Ledger, Once, Settled, OnePerNegotiation
<1> QED
  BY <1>1, Invariance, PTL

\* ... and every receive gets the message of its own channel and number, even
\* when its request has the numbers of another channel.
THEOREM DataIsMatched ==
    ASSUME TagsApart
    PROVE  Spec => []DataMatches
BY Invariance, PTL DEF NInv, Results
=============================================================================
