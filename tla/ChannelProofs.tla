--------------------------- MODULE ChannelProofs ----------------------------
(***************************************************************************)
(* Proofs about both sides of a channel, for every info object and without *)
(* a bound on the geometry.  What the init calls decide needs no more than *)
(* the shape of their results; what the partition map moves is invariant   *)
(* on the Regular channels.                                                *)
(***************************************************************************)
EXTENDS Channel, PartitionMapProofs

-----------------------------------------------------------------------------
(* The inductive invariants.                                               *)

\* The elements of the buffer.
Total == local_parts["SENDER"] * local_size["SENDER"]

\* The arguments of the init calls, and the types of what they compute.
Shape ==
    /\ info \in Infos
    /\ local_parts \in [Side -> 1..MaxParts]
    /\ local_size \in [Side -> 1..MaxElements]
    /\ \A s \in Side : local_parts[s] * local_size[s] = Total
    /\ stage \in [Side -> {"none", "thread", "setup"}]
    /\ parts \in [Side -> Nat \ {0}] /\ size \in [Side -> Nat]

\* A message with tag 990 holds the partitions of the side that sent it, and
\* no side's messages reach past the buffer.
Offered ==
    /\ syncdata \in [Side -> {<<>>} \union
                               {<<<<local_parts[s], local_size[s]>>>> : s \in Side}]
    /\ \A s \in Side :
          /\ stage[s] = "none" => syncdata[Other(s)] = <<>>
          /\ stage[s] = "setup" => parts[s] * size[s] <= Total

\* The mode both sides decode when no key is missing, the messages it asks for
\* and the elements of each.
Mode == IF info.null \/ info.PMODE \notin Side \union {"HARD"}
        THEN "DEFAULT" ELSE info.PMODE
Msgs == CASE Mode \in Side -> local_parts[Mode]
          [] Mode = "HARD" -> Positive(CHOOSE n \in info.SET : TRUE)
          [] OTHER         -> 1
MsgSize == Total \div Msgs

\* A side that is set up has the messages of the mode; a message with tag 990
\* is on its way only from the side the mode names to the other one's thread.
Decided ==
    /\ syncdata \in [Side -> {<<>>, <<<<Msgs, MsgSize>>>>}]
    /\ \A s \in Side :
          /\ stage[s] = "setup" => parts[s] = Msgs /\ size[s] = MsgSize
          /\ stage[s] # "setup" => parts[s] = 1 /\ size[s] = 0
          /\ stage[s] = "thread" => Mode = Other(s)
          /\ stage[s] = "none" => syncdata[Other(s)] = <<>>

\* The messages relate exactly to the partitions of both sides.
Geometry ==
    /\ Msgs \in 1..MaxElements /\ MsgSize \in 1..MaxElements
    /\ \A s \in Side : Exact(local_parts[s], local_size[s], Msgs, MsgSize)

\* The sender's partitions in message i.
CarriedBy(i) ==
    Carried(local_parts["SENDER"], local_size["SENDER"], MsgSize, i)

\* A counter is the number of marked partitions in its message; what was sent
\* carries marked partitions only, what was reported was received.
Moved ==
    /\ stage["SENDER"] # "setup" => marked = {}
    /\ stage["RECEIVER"] # "setup" => delivered = {} /\ arrived = {}
    /\ sent \subseteq 0..(Msgs - 1)
    /\ \A i \in 0..(Msgs - 1) :
          internal_status[i] = Cardinality(marked \intersect CarriedBy(i))
    /\ \A i \in sent : CarriedBy(i) \subseteq marked
    /\ \A q \in arrived : Messages("RECEIVER", q) \subseteq delivered

CInv == TypeOK /\ Shape /\ Geometry /\ Decided /\ Moved

-----------------------------------------------------------------------------
(* The geometry.                                                           *)

\* Factors of a positive product are positive and at most the product.
LEMMA Factors ==
    ASSUME NEW a \in Nat, NEW b \in Nat, NEW c \in Nat \ {0}, a * b = c
    PROVE  a \in 1..c /\ b \in 1..c
<1>1. a # 0 /\ b # 0
  OBVIOUS
<1>2. 1 * b <= a * b /\ 1 * a <= b * a
  BY <1>1, MulLeq
<1>3. a * b = b * a /\ 1 * b = b /\ 1 * a = a
  OBVIOUS
<1> QED
  BY <1>1, <1>2, <1>3

\* On exact geometries the indices stay in range.
LEMMA ExactInRange ==
    ASSUME NEW lp \in Nat \ {0}, NEW ls \in Nat \ {0},
           NEW np \in Nat \ {0}, NEW sz \in Nat, Exact(lp, ls, np, sz)
    PROVE  lp <= np \/ lp % np = 0
<1>1. CASE np % lp = 0
  <2>1. np \div lp \in Nat /\ np = (np \div lp) * lp
    BY <1>1, DivBounds
  <2> DEFINE q == np \div lp
  <2> HIDE DEF q
  <2>2. q \in Nat /\ q * lp = np
    BY <2>1 DEF q
  <2> QED
    BY <2>2, Factors
<1> QED
  BY <1>1 DEF Exact

\* One message is exact for everybody.
LEMMA OneIsExact ==
    ASSUME NEW lp \in Nat \ {0}, NEW ls \in Nat \ {0}
    PROVE  Exact(lp, ls, 1, sync_hard(1, lp, ls))
<1>1. lp * ls \in Nat /\ (lp * ls) \div 1 = lp * ls /\ lp % 1 = 0
  BY SMT
<1> QED
  BY <1>1 DEF Exact, sync_hard

\* The quotient of a product by a factor is the other factor.
LEMMA DivExact ==
    ASSUME NEW a \in Nat \ {0}, NEW b \in Nat
    PROVE  (a * b) \div a = b
<1> DEFINE q == (a * b) \div a
<1>1. a * b \in Nat /\ a * b = b * a
  OBVIOUS
<1>2. q \in Nat /\ q * a <= b * a /\ b * a < (q + 1) * a
  BY <1>1, DivBounds
<1> HIDE DEF q
<1>3. ~(b < q) /\ b < q + 1
  BY <1>2, MulLess
<1>4. q = b
  BY <1>2, <1>3
<1> QED
  BY <1>4 DEF q

\* What the init calls' arguments amount to.
LEMMA Arguments ==
    ASSUME Shape
    PROVE  /\ \A s \in Side : /\ local_parts[s] \in Nat \ {0}
                              /\ local_size[s] \in Nat \ {0}
           /\ Total \in Nat \ {0}
<1>1. \A s \in Side : local_parts[s] \in Nat \ {0} /\ local_size[s] \in Nat \ {0}
  BY InfoAssumption DEF Shape
<1>2. local_parts["SENDER"] \in Nat \ {0} /\ local_size["SENDER"] \in Nat \ {0}
  BY <1>1 DEF Side
<1> QED
  BY <1>1, <1>2 DEF Total

\* With the keys given, mode and number of messages are determined.
LEMMA KeysDecoded ==
    ASSUME Shape, KeysGiven(info), NEW s \in Side
    PROVE  /\ ~info.null /\ "HARD" \in ModeRead => Mode = "HARD"
           /\ ~info.null /\ s \in ModeRead => Mode = s
           /\ info.null \/ ModeRead \ (Side \union {"HARD"}) # {}
                 => Mode = "DEFAULT"
           /\ Mode = "HARD" => \A n \in SetRead : Positive(n) = Msgs
           /\ Mode = "HARD" => \E n \in SetRead : TRUE
           /\ Msgs \in Nat \ {0}
<1>1. /\ ~info.null /\ "HARD" \in ModeRead => Mode = "HARD"
      /\ ~info.null /\ s \in ModeRead => Mode = s
      /\ info.null \/ ModeRead \ (Side \union {"HARD"}) # {} => Mode = "DEFAULT"
  BY DEF KeysGiven, ModeRead, Mode, Side
<1>2. ASSUME Mode = "HARD"
      PROVE  /\ \A n \in SetRead : Positive(n) = Msgs
             /\ \E n \in SetRead : TRUE
             /\ Msgs \in Nat \ {0}
  <2> DEFINE k == CHOOSE n \in info.SET : TRUE
  <2>1. ~info.null /\ info.PMODE = "HARD"
    BY <1>2 DEF Mode
  <2>2. info.SET # {} /\ SetRead = info.SET
    BY <2>1 DEF KeysGiven, SetRead
  <2>3. info.SET \subseteq Int /\ \A m, n \in info.SET : m = n
    BY InfoAssumption DEF Shape
  <2>4. k \in info.SET
    BY <2>2
  <2>5. Msgs = Positive(k)
    BY <1>2 DEF Msgs, Side
  <2> HIDE DEF k
  <2>6. \A n \in SetRead : n = k
    BY <2>2, <2>3, <2>4
  <2>7. Positive(k) \in Nat \ {0}
    <3>1. k \in Int
      BY <2>3, <2>4
    <3> QED
      BY <3>1 DEF Positive
  <2> QED
    BY <2>2, <2>4, <2>5, <2>6, <2>7
<1>3. ASSUME Mode # "HARD" PROVE Msgs \in Nat \ {0}
  BY <1>3, Arguments DEF Msgs
<1> QED
  BY <1>1, <1>2, <1>3

\* ... and every side computes the same size.
LEMMA Sizes ==
    ASSUME Shape, KeysGiven(info)
    PROVE  /\ Msgs \in Nat \ {0} /\ MsgSize \in Nat
           /\ \A s \in Side : sync_hard(Msgs, local_parts[s], local_size[s]) = MsgSize
           /\ Mode \in Side => local_parts[Mode] = Msgs /\ local_size[Mode] = MsgSize
<1>1. Msgs \in Nat \ {0} /\ Total \in Nat
  <2>1. "SENDER" \in Side
    BY DEF Side
  <2> QED
    BY <2>1, KeysDecoded, Arguments
<1>2. MsgSize \in Nat
  BY <1>1, DivBounds DEF MsgSize
<1>3. \A s \in Side : sync_hard(Msgs, local_parts[s], local_size[s]) = MsgSize
  BY DEF Shape, sync_hard, MsgSize
<1>4. ASSUME Mode \in Side
      PROVE  local_parts[Mode] = Msgs /\ local_size[Mode] = MsgSize
  <2>1. local_parts[Mode] = Msgs
    BY <1>4 DEF Msgs, Side
  <2>2. local_parts[Mode] \in Nat \ {0} /\ local_size[Mode] \in Nat
        /\ local_parts[Mode] * local_size[Mode] = Total
    BY <1>4, Arguments DEF Shape
  <2>3. (local_parts[Mode] * local_size[Mode]) \div local_parts[Mode]
           = local_size[Mode]
    BY <2>2, DivExact
  <2> QED
    BY <2>1, <2>2, <2>3 DEF MsgSize
<1> QED
  BY <1>1, <1>2, <1>3, <1>4

\* No call changes the arguments of the init calls.
LEMMA Fixed == [Next]_vars => UNCHANGED <<info, local_parts, local_size>>
BY DEF Next, Setup, SyncHard, Hard, SyncDefault, SyncSide, SyncSpawn,
   threaded_sync_driver, Receive, SetUp, MPIP_Pready, Mark, MPI_Deliver,
   MPIP_Parrived, Arrived, Done, setupvars, vars

\* ... and so the numbers stay what they were.
LEMMA NumbersKept ==
    ASSUME UNCHANGED <<info, local_parts, local_size>>
    PROVE  /\ Mode' = Mode /\ Msgs' = Msgs /\ MsgSize' = MsgSize
           /\ Total' = Total /\ (Geometry => Geometry')
<1>1. Mode' = Mode /\ Total' = Total
  BY DEF Mode, Total
<1>2. Msgs' = Msgs
  BY <1>1 DEF Msgs, Positive
<1>3. MsgSize' = MsgSize
  BY <1>1, <1>2 DEF MsgSize
<1>4. Geometry => Geometry'
  BY <1>2, <1>3 DEF Geometry
<1> QED
  BY <1>1, <1>2, <1>3, <1>4

\* Facts about the numbers, typed for the provers.
LEMMA Numbers ==
    ASSUME TypeOK, Geometry
    PROVE  /\ Msgs \in Nat \ {0} /\ MsgSize \in Nat \ {0}
           /\ Msgs \in 1..MaxElements /\ 0..(Msgs - 1) \subseteq Index
           /\ \A s \in Side : /\ local_parts[s] \in Nat \ {0}
                              /\ local_size[s] \in Nat \ {0}
                              /\ Exact(local_parts[s], local_size[s], Msgs, MsgSize)
BY InfoAssumption DEF TypeOK, Geometry, Index

-----------------------------------------------------------------------------
(* The init calls, on any geometry and whatever the stack holds.           *)

\* Nobody has called yet.
LEMMA InitShape == Init => Shape /\ Offered /\ Decided
<1> SUFFICES ASSUME Init PROVE Shape /\ Offered /\ Decided
  OBVIOUS
<1>1. Shape
  <2>1. \A s \in Side : local_parts[s] * local_size[s] = Total
    BY DEF Init, Side, Total
  <2> QED
    BY <2>1 DEF Init, Shape
<1>2. Offered
  BY DEF Init, Offered, Other, Side
<1>3. Decided
  BY DEF Init, Decided, Other, Side
<1> QED
  BY <1>1, <1>2, <1>3

\* Side s, not set up before, takes np messages of sz elements.
SetUpWith(s, np, sz) ==
    /\ stage[s] # "setup"
    /\ stage' = [stage EXCEPT ![s] = "setup"]
    /\ parts' = [parts EXCEPT ![s] = np]
    /\ size' = [size EXCEPT ![s] = sz]
    /\ UNCHANGED <<info, local_parts, local_size, datavars>>

\* Whatever a side does in its init call, it takes numbers that fit its buffer.
LEMMA SetupFits ==
    ASSUME Shape, Offered, NEW s \in Side, Setup(s)
    PROVE  \/ \E np \in Nat \ {0}, sz \in Nat :
                 /\ SetUpWith(s, np, sz) /\ np * sz <= Total
                 /\ \/ UNCHANGED syncdata
                    \/ syncdata' = [syncdata EXCEPT ![s] = <<>>]
                    \/ /\ stage[s] = "none"
                       /\ syncdata' = [syncdata EXCEPT ![Other(s)] =
                                         <<<<local_parts[s], local_size[s]>>>>]
           \/ SyncSpawn(s)
<1>t. /\ local_parts[s] \in Nat \ {0} /\ local_size[s] \in Nat \ {0}
      /\ local_parts[s] * local_size[s] = Total /\ Total \in Nat \ {0}
  BY Arguments DEF Shape
<1>h. ASSUME NEW n \in Nat \ {0}
      PROVE  /\ sync_hard(n, local_parts[s], local_size[s]) \in Nat
             /\ n * sync_hard(n, local_parts[s], local_size[s]) <= Total
  <2> DEFINE z == Total \div n
  <2>1. z \in Nat /\ z * n <= Total
    BY <1>t, DivBounds
  <2>2. sync_hard(n, local_parts[s], local_size[s]) = z
    BY <1>t DEF sync_hard
  <2> HIDE DEF z
  <2>3. n * z = z * n
    BY <2>1
  <2> QED
    BY <2>1, <2>2, <2>3
<1>1. CASE SyncHard(s)
  <2>1. PICK n \in SetRead :
               Hard(s, Positive(n), sync_hard(Positive(n), local_parts[s], local_size[s]))
    BY <1>1 DEF SyncHard
  <2>2. n \in Int
    BY InfoAssumption DEF Shape, SetRead
  <2>3. Positive(n) \in Nat \ {0}
    BY <2>2 DEF Positive
  <2> QED
    BY <2>1, <2>3, <1>h DEF Hard, SetUp, SetUpWith
<1>2. CASE SyncDefault(s)
  <2>1. /\ 1 \in Nat \ {0} /\ sync_hard(1, local_parts[s], local_size[s]) \in Nat
        /\ 1 * sync_hard(1, local_parts[s], local_size[s]) <= Total
    BY <1>h
  <2>2. SetUpWith(s, 1, sync_hard(1, local_parts[s], local_size[s]))
        /\ UNCHANGED syncdata
    BY <1>2 DEF SyncDefault, SetUp, SetUpWith
  <2> QED
    BY <2>1, <2>2
<1>3. CASE SyncSide(s)
  <2>1. stage[s] = "none" /\ syncdata[Other(s)] = <<>>
    BY <1>3 DEF SyncSide, Offered
  <2>2. syncdata' = [syncdata EXCEPT ![Other(s)] =
                        <<<<local_parts[s], local_size[s]>>>>]
    BY <1>3, <2>1 DEF SyncSide
  <2>3. SetUpWith(s, local_parts[s], local_size[s])
    BY <1>3, <2>1 DEF SyncSide, SetUp, SetUpWith
  <2> QED
    BY <1>t, <2>1, <2>2, <2>3
<1>4. CASE threaded_sync_driver(s)
  <2>1. stage[s] = "thread" /\ syncdata[s] # <<>>
    BY <1>4 DEF threaded_sync_driver, Receive
  <2>2. PICK r \in Side : syncdata[s] = <<<<local_parts[r], local_size[r]>>>>
    BY <2>1 DEF Offered
  <2>3. /\ Head(syncdata[s])[1] = local_parts[r]
        /\ Head(syncdata[s])[2] = local_size[r]
        /\ Tail(syncdata[s]) = <<>>
    BY <2>2
  <2>4. SetUpWith(s, local_parts[r], local_size[r])
        /\ syncdata' = [syncdata EXCEPT ![s] = <<>>]
    BY <1>4, <2>1, <2>3 DEF threaded_sync_driver, Receive, SetUp, SetUpWith
  <2>5. local_parts[r] \in Nat \ {0} /\ local_size[r] \in Nat
        /\ local_parts[r] * local_size[r] <= Total
    BY <1>t, Arguments DEF Shape
  <2> QED
    BY <2>4, <2>5
<1> QED
  BY <1>1, <1>2, <1>3, <1>4 DEF Setup

\* Every step keeps the messages of both sides inside the buffer.
LEMMA ShapeKept ==
    ASSUME Shape, Offered, [Next]_vars
    PROVE  Shape' /\ Offered'
<1>f. UNCHANGED <<info, local_parts, local_size>> /\ Total' = Total
  BY Fixed, NumbersKept
<1>o. \A r, s \in Side : Other(r) \in Side /\ Other(r) # r
                        /\ (r = s \/ r = Other(s)) /\ Other(Other(r)) = r
  BY DEF Other, Side
<1>1. CASE UNCHANGED <<stage, parts, size, syncdata>>
  BY <1>f, <1>1 DEF Shape, Offered
<1>2. ASSUME NEW s \in Side, SyncSpawn(s)
      PROVE  Shape' /\ Offered'
  BY <1>f, <1>o, <1>2 DEF SyncSpawn, Shape, Offered
<1>3. ASSUME NEW s \in Side, NEW np \in Nat \ {0}, NEW sz \in Nat,
             SetUpWith(s, np, sz), np * sz <= Total,
             \/ UNCHANGED syncdata
             \/ syncdata' = [syncdata EXCEPT ![s] = <<>>]
             \/ /\ stage[s] = "none"
                /\ syncdata' = [syncdata EXCEPT ![Other(s)] =
                                  <<<<local_parts[s], local_size[s]>>>>]
      PROVE  Shape' /\ Offered'
  <2>1. Shape'
    BY <1>f, <1>3 DEF SetUpWith, Shape
  <2>2. syncdata' \in [Side -> {<<>>} \union
                          {<<<<local_parts[r], local_size[r]>>>> : r \in Side}]
    BY <1>o, <1>3 DEF Offered
  <2>3. ASSUME NEW r \in Side
        PROVE  /\ stage'[r] = "none" => syncdata'[Other(r)] = <<>>
               /\ stage'[r] = "setup" => parts'[r] * size'[r] <= Total
    <3>1. CASE r = s
      <4>1. stage'[r] = "setup" /\ parts'[r] = np /\ size'[r] = sz
        BY <1>3, <3>1 DEF SetUpWith, Shape
      <4> QED
        BY <1>3, <4>1
    <3>2. CASE r # s
      <4>1. stage'[r] = stage[r] /\ parts'[r] = parts[r] /\ size'[r] = size[r]
        BY <1>3, <3>2 DEF SetUpWith, Shape
      <4>2. Other(r) = s
        BY <1>o, <3>2
      <4>3. syncdata[s] = <<>> => syncdata'[s] = <<>>
        BY <1>o, <1>3 DEF Offered
      <4> QED
        BY <4>1, <4>2, <4>3 DEF Offered
    <3> QED
      BY <3>1, <3>2
  <2> QED
    BY <1>f, <2>1, <2>2, <2>3 DEF Offered
<1>4. ASSUME NEW s \in Side, Setup(s) PROVE Shape' /\ Offered'
  BY <1>2, <1>3, <1>4, SetupFits
<1>5. CASE UNCHANGED vars \/ Done
  BY <1>1, <1>5 DEF Done, vars, setupvars
<1>6. CASE \/ \E p \in User("SENDER") : MPIP_Pready(p)
           \/ \E i \in sent : MPI_Deliver(i)
           \/ \E q \in User("RECEIVER") : MPIP_Parrived(q)
  BY <1>1, <1>6 DEF MPIP_Pready, Mark, MPI_Deliver, MPIP_Parrived, Arrived,
     setupvars
<1> QED
  BY <1>4, <1>5, <1>6 DEF Next

LEMMA ShapeInvariance == Spec => [](Shape /\ Offered)
<1>1. Init => Shape /\ Offered
  BY InitShape
<1>2. Shape /\ Offered /\ [Next]_vars => Shape' /\ Offered'
  BY ShapeKept
<1> QED
  BY <1>1, <1>2, PTL DEF Spec

\* Whatever the geometry, the info object, the stack and the order of the init
\* calls, no message of a side reaches past the end of its buffer.
THEOREM MessagesStayInside == Spec => []MessagesInBuffer
<1>1. Shape /\ Offered => MessagesInBuffer
  BY DEF Shape, Offered, MessagesInBuffer
<1> QED
  BY <1>1, ShapeInvariance, PTL

\* Whatever the geometry and the keys, the partition map stays inside the
\* arrays of its side, unless the partitions leave a remainder.
THEOREM IndicesInRange == Spec => []IndexInRange
<1>1. Shape => IndexInRange
  <2> SUFFICES ASSUME Shape, NEW s \in Side,
                      local_parts[s] <= parts[s] \/ local_parts[s] % parts[s] = 0,
                      NEW p \in User(s)
               PROVE  Messages(s, p) \subseteq 0..(parts[s] - 1)
    BY DEF IndexInRange
  <2>1. local_parts[s] \in Nat \ {0} /\ parts[s] \in Nat \ {0}
    BY Arguments DEF Shape
  <2>2. p \in 0..(local_parts[s] - 1)
    BY DEF User
  <2>3. /\ start_part(local_parts[s], parts[s], p) \in 0..(parts[s] - 1)
        /\ end_part(local_parts[s], parts[s], p) \in Nat
        /\ end_part(local_parts[s], parts[s], p) <= parts[s]
    BY <2>1, <2>2, MapInRange
  <2> QED
    BY <2>1, <2>3 DEF Messages, MessagesOf
<1> QED
  BY <1>1, ShapeInvariance, PTL

\* What the calls that move data keep of the types, on any geometry.
LEMMA TypeKept ==
    ASSUME TypeOK, Shape', Offered', [Next]_vars
    PROVE  TypeOK'
<1>f. UNCHANGED <<info, local_parts, local_size>>
  BY Fixed
<1>1. /\ (info \in Infos)' /\ (local_parts \in [Side -> 1..MaxParts])'
      /\ (local_size \in [Side -> 1..MaxElements])'
      /\ (stage \in [Side -> {"none", "thread", "setup"}])'
      /\ (parts \in [Side -> Nat \ {0}])' /\ (size \in [Side -> Nat])'
  BY DEF Shape
<1>2. \A s \in Side : Len(syncdata'[s]) <= 1
  BY DEF Offered
<1>3. /\ marked' \subseteq User("SENDER") /\ arrived' \subseteq User("RECEIVER")
      /\ internal_status' \in [Index -> Nat]
      /\ sent' \subseteq Index /\ delivered' \subseteq sent'
  <2>1. CASE UNCHANGED datavars
    BY <2>1 DEF TypeOK, datavars
  <2>2. CASE UNCHANGED vars \/ Done
    BY <2>1, <2>2 DEF Done, vars
  <2>3. ASSUME NEW s \in Side, Setup(s) PROVE UNCHANGED datavars
    BY <2>3 DEF Setup, SyncHard, Hard, SyncDefault, SyncSide, SyncSpawn,
       threaded_sync_driver, Receive, SetUp
  <2>4. ASSUME NEW p \in User("SENDER"), MPIP_Pready(p)
        PROVE  /\ marked' \subseteq User("SENDER") /\ UNCHANGED <<delivered, arrived>>
               /\ internal_status' \in [Index -> Nat]
               /\ sent \subseteq sent' /\ sent' \subseteq Index
    BY <2>4 DEF MPIP_Pready, Mark, AtCount, TypeOK
  <2>5. CASE \/ \E i \in sent : MPI_Deliver(i)
             \/ \E q \in User("RECEIVER") : MPIP_Parrived(q)
    BY <2>5 DEF MPI_Deliver, MPIP_Parrived, Arrived, TypeOK
  <2> QED
    BY <2>1, <2>2, <2>3, <2>4, <2>5 DEF Next, TypeOK
<1>4. User("SENDER")' = User("SENDER") /\ User("RECEIVER")' = User("RECEIVER")
  BY <1>f DEF User
<1> QED
  BY <1>1, <1>2, <1>3, <1>4 DEF TypeOK

\* Type correctness, whatever the geometry and the keys: in particular a SET of
\* zero or less never becomes a number of messages, and no message is received
\* that was not started.
THEOREM TypeCorrect == Spec => []TypeOK
<1>1. Init => TypeOK
  BY InfoAssumption DEF Init, TypeOK, User, Index
<1>2. TypeOK /\ (Shape /\ Offered)' /\ [Next]_vars => TypeOK'
  BY TypeKept
<1> QED
  BY <1>1, <1>2, ShapeInvariance, PTL DEF Spec

-----------------------------------------------------------------------------
(* The init calls with the keys given: both sides arrive at one result.    *)

\* Side s has set up with the messages of the mode.
SetUpAs(s) == SetUpWith(s, Msgs, MsgSize)

\* Whichever way side s takes through sync_driver, it arrives at the messages
\* of the mode.
LEMMA SetupShape ==
    ASSUME Shape, Decided, KeysGiven(info), NEW s \in Side, Setup(s)
    PROVE  \/ SetUpAs(s) /\ Mode \notin Side /\ UNCHANGED syncdata
           \/ SetUpAs(s) /\ Mode = s /\ stage[s] = "none"
                 /\ syncdata' = [syncdata EXCEPT ![Other(s)] = <<<<Msgs, MsgSize>>>>]
           \/ SyncSpawn(s) /\ Mode = Other(s)
           \/ SetUpAs(s) /\ Mode = Other(s)
                 /\ syncdata' = [syncdata EXCEPT ![s] = <<>>]
<1> USE DEF SetUpWith
<1>t. Other(s) \in Side
  BY DEF Other, Side
<1>1. CASE SyncHard(s)
  <2>1. PICK n \in SetRead :
               Hard(s, Positive(n), sync_hard(Positive(n), local_parts[s], local_size[s]))
    BY <1>1 DEF SyncHard
  <2>2. Mode = "HARD" /\ Positive(n) = Msgs
    BY <2>1, KeysDecoded DEF Hard
  <2>3. sync_hard(Msgs, local_parts[s], local_size[s]) = MsgSize
    BY Sizes
  <2> QED
    BY <2>1, <2>2, <2>3 DEF Hard, SetUp, SetUpAs, Side
<1>2. CASE SyncDefault(s)
  <2>1. Mode = "DEFAULT"
    BY <1>2, KeysDecoded DEF SyncDefault
  <2>2. Msgs = 1
    BY <2>1 DEF Msgs, Side
  <2>3. sync_hard(1, local_parts[s], local_size[s]) = MsgSize
    BY <2>2, Sizes
  <2> QED
    BY <1>2, <2>1, <2>2, <2>3 DEF SyncDefault, SetUp, SetUpAs, Side
<1>3. CASE SyncSide(s)
  <2>1. Mode = s
    BY <1>3, KeysDecoded DEF SyncSide
  <2>2. local_parts[s] = Msgs /\ local_size[s] = MsgSize
    BY <2>1, Sizes
  <2>3. stage[s] = "none" /\ syncdata[Other(s)] = <<>>
    BY <1>3 DEF SyncSide, Decided
  <2>4. Append(syncdata[Other(s)], <<local_parts[s], local_size[s]>>)
           = <<<<Msgs, MsgSize>>>>
    BY <2>2, <2>3
  <2> QED
    BY <1>3, <2>1, <2>2, <2>3, <2>4 DEF SyncSide, SetUp, SetUpAs
<1>4. CASE SyncSpawn(s)
  BY <1>4, <1>t, KeysDecoded DEF SyncSpawn
<1>5. CASE threaded_sync_driver(s)
  <2>1. stage[s] = "thread" /\ syncdata[s] = <<<<Msgs, MsgSize>>>>
    BY <1>5 DEF threaded_sync_driver, Receive, Decided
  <2>2. /\ Head(syncdata[s])[1] = Msgs /\ Head(syncdata[s])[2] = MsgSize
        /\ Tail(syncdata[s]) = <<>>
    BY <2>1
  <2> QED
    BY <1>5, <2>1, <2>2 DEF threaded_sync_driver, Receive, SetUp, SetUpAs,
       Decided
<1> QED
  BY <1>1, <1>2, <1>3, <1>4, <1>5 DEF Setup

\* Every step keeps the two sides together.
LEMMA DecidedKept ==
    ASSUME Shape, Decided, KeysGiven(info), [Next]_vars
    PROVE  Decided'
<1>g. UNCHANGED <<info, local_parts, local_size>>
      /\ Mode' = Mode /\ Msgs' = Msgs /\ MsgSize' = MsgSize
  BY Fixed, NumbersKept
<1>1. CASE UNCHANGED <<stage, parts, size, syncdata>>
  BY <1>g, <1>1 DEF Decided
<1>2. ASSUME NEW s \in Side, Setup(s) PROVE Decided'
  <2>s. \/ SetUpAs(s) /\ Mode \notin Side /\ UNCHANGED syncdata
        \/ SetUpAs(s) /\ Mode = s /\ stage[s] = "none"
              /\ syncdata' = [syncdata EXCEPT ![Other(s)] = <<<<Msgs, MsgSize>>>>]
        \/ SyncSpawn(s) /\ Mode = Other(s)
        \/ SetUpAs(s) /\ Mode = Other(s)
              /\ syncdata' = [syncdata EXCEPT ![s] = <<>>]
    BY <1>2, SetupShape
  <2>o. \A r \in Side : r = s \/ r = Other(s)
    BY DEF Other, Side
  <2>t. Other(s) \in Side /\ Other(Other(s)) = s /\ Other(s) # s
    BY DEF Other, Side
  <2>d. /\ stage \in [Side -> {"none", "thread", "setup"}]
        /\ parts \in [Side -> Nat \ {0}] /\ size \in [Side -> Nat]
    BY DEF Shape
  <2>1. syncdata' \in [Side -> {<<>>, <<<<Msgs, MsgSize>>>>}]
    BY <2>s, <2>t DEF Decided, SyncSpawn
  <2>2. ASSUME NEW r \in Side
        PROVE  /\ stage'[r] = "setup" => parts'[r] = Msgs /\ size'[r] = MsgSize
               /\ stage'[r] # "setup" => parts'[r] = 1 /\ size'[r] = 0
               /\ stage'[r] = "thread" => Mode = Other(r)
    BY <2>s, <2>d DEF Decided, SetUpAs, SetUpWith, SyncSpawn
  <2>3. ASSUME NEW r \in Side, stage'[r] = "none"
        PROVE  syncdata'[Other(r)] = <<>>
    <3>1. r = Other(s) /\ stage[r] = "none"
      BY <2>s, <2>o, <2>t, <2>d, <2>3 DEF SetUpAs, SetUpWith, SyncSpawn
    <3>2. syncdata[s] = <<>>
      BY <2>t, <3>1 DEF Decided
    <3> QED
      BY <2>s, <2>t, <3>1, <3>2 DEF Decided, SyncSpawn
  <2> QED
    BY <1>g, <2>1, <2>2, <2>3 DEF Decided
<1>3. CASE UNCHANGED vars \/ Done
  BY <1>1, <1>3 DEF Done, vars, setupvars
<1>4. CASE \/ \E p \in User("SENDER") : MPIP_Pready(p)
           \/ \E i \in sent : MPI_Deliver(i)
           \/ \E q \in User("RECEIVER") : MPIP_Parrived(q)
  BY <1>1, <1>4 DEF MPIP_Pready, Mark, MPI_Deliver, MPIP_Parrived, Arrived,
     setupvars
<1> QED
  BY <1>2, <1>3, <1>4 DEF Next

LEMMA DecidedInvariance == Spec => [](KeysGiven(info) => Decided)
<1>1. Init => (KeysGiven(info) => Decided)
  BY InitShape
<1>2. Shape /\ (KeysGiven(info) => Decided) /\ [Next]_vars
         => (KeysGiven(info) => Decided)'
  <2> SUFFICES ASSUME Shape, KeysGiven(info) => Decided, [Next]_vars,
                      KeysGiven(info)'
               PROVE  Decided'
    OBVIOUS
  <2>1. KeysGiven(info)
    BY Fixed DEF KeysGiven
  <2> QED
    BY <2>1, DecidedKept
<1> QED
  BY <1>1, <1>2, ShapeInvariance, PTL DEF Spec

\* Supplied with the keys, both sides arrive at the same messages, whoever
\* drives, in whatever order the init calls and the thread run, on every
\* geometry.
THEOREM SidesAgree == Spec => []Agreement
<1>1. (KeysGiven(info) => Decided) => Agreement
  BY DEF Decided, Agreement, BothSetUp, Side
<1> QED
  BY <1>1, DecidedInvariance, PTL

-----------------------------------------------------------------------------
(* Regular channels.                                                       *)

\* A channel is Regular from its first init call or never.
LEMMA RegularKept == [Next]_vars => (Regular <=> Regular')
<1> SUFFICES ASSUME [Next]_vars PROVE Regular <=> Regular'
  OBVIOUS
<1>1. UNCHANGED <<info, local_parts, local_size>>
  BY Fixed
<1>2. ModeRead' = ModeRead /\ SetRead' = SetRead
  BY <1>1 DEF ModeRead, SetRead
<1>3. \A m : Choices(m)' = Choices(m)
  BY <1>1, <1>2 DEF Choices, Positive
<1> QED
  BY <1>1, <1>2, <1>3 DEF Regular, KeysGiven

\* What Regular says of the messages of the mode.
LEMMA InitGeometry ==
    ASSUME Regular, Init
    PROVE  Geometry
<1>s. Shape
  BY InitShape
<1>k. KeysGiven(info)
  BY DEF Regular
<1>1. \A s \in Side : /\ local_parts[s] \in Nat \ {0} /\ local_size[s] \in Nat \ {0}
                      /\ local_parts[s] * local_size[s] = Total
  BY <1>s, Arguments DEF Shape
<1>2. Total \in 1..MaxElements
  <2>1. "SENDER" \in Side
    BY DEF Side
  <2>2. Total <= MaxElements
    BY <2>1 DEF Total, Init
  <2>3. Total \in Nat \ {0}
    BY <1>s, Arguments
  <2> QED
    BY <2>2, <2>3, InfoAssumption
<1>3. /\ Msgs \in Nat \ {0} /\ MsgSize \in Nat
      /\ \A s \in Side : sync_hard(Msgs, local_parts[s], local_size[s]) = MsgSize
  BY <1>s, <1>k, Sizes
<1>4. ASSUME NEW s \in Side
      PROVE  Exact(local_parts[s], local_size[s], Msgs, MsgSize)
  <2>1. CASE Mode = "DEFAULT"
    <3>1. Msgs = 1
      BY <2>1 DEF Msgs, Side
    <3> QED
      BY <1>1, <1>3, <3>1, OneIsExact
  <2>2. CASE Mode # "DEFAULT"
    <3>1. ~info.null /\ info.PMODE = Mode /\ Mode \in Side \union {"HARD"}
      BY <2>2 DEF Mode
    <3>2. Mode \in ModeRead
      BY <3>1 DEF ModeRead, Side
    <3>3. Msgs \in Choices(Mode)
      <4>1. CASE Mode \in Side
        BY <4>1 DEF Choices, Msgs, Side
      <4>2. CASE Mode = "HARD"
        <5>1. PICK n \in SetRead : Positive(n) = Msgs
          BY <1>s, <1>k, <4>2, KeysDecoded
        <5> QED
          BY <4>2, <5>1 DEF Choices, Side
      <4> QED
        BY <3>1, <4>1, <4>2
    <3>4. Exact(local_parts[s], local_size[s], Msgs,
                sync_hard(Msgs, local_parts[s], local_size[s]))
      BY <3>1, <3>2, <3>3 DEF Regular
    <3> QED
      BY <1>3, <3>4
  <2> QED
    BY <2>1, <2>2
<1>5. Msgs * MsgSize = Total
  <2>1. "SENDER" \in Side
    BY DEF Side
  <2> QED
    BY <1>4, <2>1 DEF Exact, Total
<1>6. Msgs \in 1..MaxElements /\ MsgSize \in 1..MaxElements
  <2>t. Total \in Nat \ {0} /\ Msgs \in Nat
    BY <1>2, <1>3
  <2>1. Msgs \in 1..Total /\ MsgSize \in 1..Total
    BY <1>3, <1>5, <2>t, Factors
  <2> QED
    BY <1>2, <2>1, InfoAssumption
<1> QED
  BY <1>4, <1>6 DEF Geometry

\* Nothing has been decided or moved yet.
LEMMA InitCInv == ASSUME Regular, Init PROVE CInv
<1>1. TypeOK
  BY InfoAssumption DEF Init, TypeOK, User, Index
<1>2. Geometry
  BY InitGeometry
<1>3. Moved
  <2>1. Cardinality({}) = 0
    BY FS_EmptySet
  <2>2. \A i \in 0..(Msgs - 1) : marked \intersect CarriedBy(i) = {}
    BY DEF Init
  <2>3. 0..(Msgs - 1) \subseteq Index
    BY <1>1, <1>2, Numbers
  <2> QED
    BY <2>1, <2>2, <2>3 DEF Init, Moved, Side
<1> QED
  BY <1>1, <1>2, <1>3, InitShape DEF CInv

\* The init calls and the background thread leave what was moved alone.
LEMMA SetupKeeps ==
    ASSUME CInv, KeysGiven(info), TypeOK', Shape', Decided', NEW s \in Side, Setup(s)
    PROVE  CInv'
<1> USE DEF CInv
<1>s. SetUpAs(s) \/ SyncSpawn(s)
  BY SetupShape
<1>u. UNCHANGED <<info, local_parts, local_size, datavars>> /\ stage[s] # "setup"
  BY <1>s DEF SetUpAs, SetUpWith, SyncSpawn
<1>g. /\ Geometry' /\ Msgs' = Msgs /\ MsgSize' = MsgSize
  BY <1>u, NumbersKept
<1>d. /\ stage \in [Side -> {"none", "thread", "setup"}]
      /\ parts \in [Side -> Nat \ {0}] /\ size \in [Side -> Nat]
  BY DEF TypeOK
<1>1. Moved'
  <2>1. \A r \in Side : r # s => stage'[r] = stage[r] /\ parts'[r] = parts[r]
    BY <1>s, <1>d DEF SetUpAs, SetUpWith, SyncSpawn
  <2>2. \A i : CarriedBy(i)' = CarriedBy(i)
    BY <1>u, <1>g DEF CarriedBy
  <2>3. \A q \in arrived : Messages("RECEIVER", q)' = Messages("RECEIVER", q)
    BY <1>u, <2>1 DEF Moved, Messages, Side
  <2>4. /\ stage'["SENDER"] # "setup" => marked = {}
        /\ stage'["RECEIVER"] # "setup" => delivered = {} /\ arrived = {}
    BY <1>u, <2>1 DEF Moved, Side
  <2> QED
    BY <1>u, <1>g, <2>2, <2>3, <2>4 DEF Moved, datavars
<1> QED
  BY <1>1, <1>g

-----------------------------------------------------------------------------
(* Moving data.                                                            *)

\* Each side's arithmetic names the messages that hold the partition.
LEMMA MessagesExact ==
    ASSUME CInv, NEW s \in Side, stage[s] = "setup", NEW p \in User(s)
    PROVE  /\ Messages(s, p) \subseteq 0..(Msgs - 1)
           /\ Messages(s, p) = MessagesOf(local_parts[s], Msgs, p)
           /\ \A i \in 0..(Msgs - 1) :
                 i \in Messages(s, p) <=> Overlap(p, local_size[s], i, MsgSize)
<1>1. /\ local_parts[s] \in Nat \ {0} /\ local_size[s] \in Nat \ {0}
      /\ Msgs \in Nat \ {0} /\ MsgSize \in Nat
      /\ Exact(local_parts[s], local_size[s], Msgs, MsgSize)
  BY Numbers DEF CInv
<1>2. p \in 0..(local_parts[s] - 1)
  BY DEF User
<1>3. Messages(s, p) = MessagesOf(local_parts[s], Msgs, p)
  BY DEF CInv, Decided, Messages
<1>4. local_parts[s] <= Msgs \/ local_parts[s] % Msgs = 0
  BY <1>1, ExactInRange
<1>5. /\ start_part(local_parts[s], Msgs, p) \in 0..(Msgs - 1)
      /\ end_part(local_parts[s], Msgs, p) \in Nat
      /\ end_part(local_parts[s], Msgs, p) <= Msgs
  BY <1>1, <1>2, <1>4, MapInRange
<1>6. Messages(s, p) \subseteq 0..(Msgs - 1)
  BY <1>1, <1>3, <1>5 DEF MessagesOf
<1>7. \A i \in 0..(Msgs - 1) :
         i \in Messages(s, p) <=> Overlap(p, local_size[s], i, MsgSize)
  BY <1>1, <1>2, <1>3, MapIsExact
<1> QED
  BY <1>3, <1>6, <1>7

\* MPIP_Pready counts the partition for the messages that carry it, and starts
\* a message when the last of its partitions is marked.
LEMMA PreadyKeeps ==
    ASSUME CInv, TypeOK', Shape', Decided', NEW p \in User("SENDER"), MPIP_Pready(p)
    PROVE  CInv'
<1> USE DEF CInv, MPIP_Pready, Mark
<1>s. "SENDER" \in Side /\ stage["SENDER"] = "setup" /\ p \notin marked
  BY DEF Side
<1>u. UNCHANGED <<info, local_parts, local_size, stage, parts, size, syncdata,
                  delivered, arrived>>
  BY DEF setupvars
<1>g. Geometry' /\ Mode' = Mode /\ Msgs' = Msgs /\ MsgSize' = MsgSize
  BY <1>u, NumbersKept
<1>n. /\ local_parts["SENDER"] \in Nat \ {0} /\ local_size["SENDER"] \in Nat \ {0}
      /\ Msgs \in Nat \ {0} /\ MsgSize \in Nat /\ 0..(Msgs - 1) \subseteq Index
      /\ Exact(local_parts["SENDER"], local_size["SENDER"], Msgs, MsgSize)
  BY <1>s, Numbers
<1>m. \A i \in 0..(Msgs - 1) : i \in Messages("SENDER", p) <=> p \in CarriedBy(i)
  BY <1>s, MessagesExact DEF CarriedBy, Carried, User
<1> DEFINE T == Threshold(local_parts["SENDER"], Msgs)
<1>f. ASSUME NEW i \in 0..(Msgs - 1)
      PROVE  /\ IsFiniteSet(CarriedBy(i)) /\ Cardinality(CarriedBy(i)) = T
             /\ IsFiniteSet(marked \intersect CarriedBy(i))
             /\ Cardinality(marked \intersect CarriedBy(i)) \in Nat
  <2>1. IsFiniteSet(CarriedBy(i)) /\ Cardinality(CarriedBy(i)) = T
    BY <1>n, ThresholdIsExact DEF CarriedBy
  <2>2. IsFiniteSet(marked \intersect CarriedBy(i))
    BY <2>1, FS_Subset
  <2> QED
    BY <2>1, <2>2, FS_CardinalityType
<1>c. SendThreshold = T
  BY <1>s DEF SendThreshold, Decided
<1> HIDE DEF T
<1>1. ASSUME NEW i \in 0..(Msgs - 1)
      PROVE  internal_status'[i] = Cardinality(marked' \intersect CarriedBy(i))
  <2>1. CASE p \in CarriedBy(i)
    <3>1. marked' \intersect CarriedBy(i)
             = (marked \intersect CarriedBy(i)) \union {p}
      BY <2>1
    <3>2. Cardinality((marked \intersect CarriedBy(i)) \union {p})
             = Cardinality(marked \intersect CarriedBy(i)) + 1
      BY <1>f, <1>s, FS_AddElement
    <3> QED
      BY <1>m, <1>n, <2>1, <3>1, <3>2 DEF Moved
  <2>2. CASE p \notin CarriedBy(i)
    <3>1. marked' \intersect CarriedBy(i) = marked \intersect CarriedBy(i)
      BY <2>2
    <3> QED
      BY <1>m, <1>n, <2>2, <3>1 DEF Moved
  <2> QED
    BY <2>1, <2>2
<1>2. ASSUME NEW i \in AtCount(p, SendThreshold - 1)
      PROVE  i \in 0..(Msgs - 1) /\ CarriedBy(i) \subseteq marked'
  <2>1. i \in 0..(Msgs - 1) /\ p \in CarriedBy(i) /\ internal_status[i] = T - 1
    BY <1>s, <1>m, <1>c, MessagesExact DEF AtCount
  <2>2. internal_status'[i] = T
    <3>1. internal_status[i] \in Nat /\ i \in Index
      BY <1>n, <2>1 DEF TypeOK
    <3>2. internal_status'[i] = internal_status[i] + 1
      BY <1>m, <2>1, <3>1
    <3>3. T \in Nat
      <4>1. IsFiniteSet(CarriedBy(i)) /\ Cardinality(CarriedBy(i)) = T
        BY <1>f, <2>1
      <4>2. Cardinality(CarriedBy(i)) \in Nat
        BY <4>1, FS_CardinalityType
      <4> QED
        BY <4>1, <4>2
    <3> QED
      BY <2>1, <3>1, <3>2, <3>3
  <2>3. Cardinality(marked' \intersect CarriedBy(i)) = Cardinality(CarriedBy(i))
    BY <1>1, <1>f, <2>1, <2>2
  <2>4. marked' \intersect CarriedBy(i) = CarriedBy(i)
    BY <1>f, <2>1, <2>3, FS_Subset
  <2> QED
    BY <2>1, <2>4
<1>3. Moved'
  <2>1. \A i : CarriedBy(i)' = CarriedBy(i)
    BY <1>u, <1>g DEF CarriedBy
  <2>2. \A q : Messages("RECEIVER", q)' = Messages("RECEIVER", q)
    BY <1>u DEF Messages
  <2>3. sent' \subseteq 0..(Msgs - 1)
    BY <1>2 DEF Moved
  <2>4. \A i \in sent' : CarriedBy(i) \subseteq marked'
    BY <1>2 DEF Moved
  <2> QED
    BY <1>s, <1>u, <1>g, <1>1, <2>1, <2>2, <2>3, <2>4 DEF Moved
<1> QED
  BY <1>3, <1>g

\* MPI delivers a message, MPIP_Parrived reports a partition.
LEMMA ReceiveKeeps ==
    ASSUME CInv, TypeOK', Shape', Decided',
           \/ \E i \in sent : MPI_Deliver(i)
           \/ \E q \in User("RECEIVER") : MPIP_Parrived(q)
    PROVE  CInv'
<1> USE DEF CInv, MPI_Deliver, MPIP_Parrived, Arrived
<1>u. UNCHANGED <<info, local_parts, local_size, stage, parts, size, syncdata,
                  marked, internal_status, sent>>
      /\ stage["RECEIVER"] = "setup"
  BY DEF setupvars
<1>g. Geometry' /\ Mode' = Mode /\ Msgs' = Msgs /\ MsgSize' = MsgSize
  BY <1>u, NumbersKept
<1>1. Moved'
  <2>1. \A i : CarriedBy(i)' = CarriedBy(i)
    BY <1>u, <1>g DEF CarriedBy
  <2>2. \A q : Messages("RECEIVER", q)' = Messages("RECEIVER", q)
    BY <1>u DEF Messages
  <2>3. delivered \subseteq delivered'
        /\ \A q \in arrived' : Messages("RECEIVER", q) \subseteq delivered'
    BY DEF Moved
  <2> QED
    BY <1>u, <1>g, <2>1, <2>2, <2>3 DEF Moved
<1> QED
  BY <1>1, <1>g

\* Every step preserves the invariant.
LEMMA NextCInv ==
    ASSUME KeysGiven(info), CInv, TypeOK', Shape', [Next]_vars
    PROVE  CInv'
<1>d. Decided'
  BY DecidedKept DEF CInv
<1>1. CASE UNCHANGED vars
  <2>1. /\ UNCHANGED <<info, setupvars, datavars>>
        /\ UNCHANGED <<info, local_parts, local_size, stage, parts, size, syncdata,
                       marked, internal_status, sent, delivered, arrived>>
    BY <1>1 DEF vars, setupvars, datavars
  <2>2. Geometry' /\ Mode' = Mode /\ Msgs' = Msgs /\ MsgSize' = MsgSize
    BY <2>1, NumbersKept DEF CInv
  <2>3. Moved'
    BY <2>1, <2>2 DEF CInv, Moved, CarriedBy, Messages
  <2> QED
    BY <1>d, <2>2, <2>3 DEF CInv
<1> QED
  BY <1>d, <1>1, SetupKeeps, PreadyKeeps, ReceiveKeeps DEF Next, Done

\* The invariant holds in every reachable state of a Regular channel.
LEMMA Invariance == Spec => [](Regular => CInv)
<1>1. Init => (Regular => CInv)
  BY InitCInv
<1>2. (Regular => CInv) /\ TypeOK' /\ Shape' /\ [Next]_vars => (Regular => CInv)'
  <2> SUFFICES ASSUME Regular => CInv, TypeOK', Shape', [Next]_vars, Regular'
               PROVE  CInv'
    OBVIOUS
  <2>1. Regular
    BY RegularKept
  <2>2. KeysGiven(info)
    BY <2>1 DEF Regular
  <2> QED
    BY <2>1, <2>2, NextCInv
<1> QED
  BY <1>1, <1>2, TypeCorrect, ShapeInvariance, PTL DEF Spec

-----------------------------------------------------------------------------
(* What a Regular channel delivers.                                        *)

\* A partition the receiver is told of has been received to its last element,
\* and each element was marked ready by the sender, although the two sides
\* divide the buffer differently.
THEOREM DeliversEndToEnd == Spec => []EndToEndRegular
<1>1. CInv => EndToEnd
  <2> SUFFICES ASSUME CInv, NEW q \in arrived,
                      NEW e \in (q * local_size["RECEIVER"])
                                ..((q + 1) * local_size["RECEIVER"] - 1)
               PROVE  /\ ElementDelivered(e)
                      /\ (e \div local_size["SENDER"]) \in marked
    BY DEF EndToEnd
  <2>1. "SENDER" \in Side /\ "RECEIVER" \in Side
    BY DEF Side
  <2>2. /\ local_parts["SENDER"] \in Nat \ {0} /\ local_size["SENDER"] \in Nat \ {0}
        /\ local_parts["RECEIVER"] \in Nat \ {0}
        /\ local_size["RECEIVER"] \in Nat \ {0}
        /\ Msgs \in Nat \ {0} /\ MsgSize \in Nat
        /\ Exact(local_parts["SENDER"], local_size["SENDER"], Msgs, MsgSize)
        /\ Exact(local_parts["RECEIVER"], local_size["RECEIVER"], Msgs, MsgSize)
    BY <2>1, Numbers DEF CInv
  <2>3. stage["RECEIVER"] = "setup" /\ size["RECEIVER"] = MsgSize
        /\ q \in User("RECEIVER")
    BY <2>1 DEF CInv, TypeOK, Decided, Moved
  <2>4. MessagesOf(local_parts["RECEIVER"], Msgs, q) \subseteq delivered
    BY <2>1, <2>3, MessagesExact DEF CInv, Moved
  <2>5. q \in 0..(local_parts["RECEIVER"] - 1)
    BY <2>3 DEF User
  <2>6. PICK i \in MessagesOf(local_parts["RECEIVER"], Msgs, q) :
               i \in 0..(Msgs - 1) /\ i * MsgSize <= e /\ e < (i + 1) * MsgSize
    BY <2>2, <2>5, MessagesCover
  <2>7. CarriedBy(i) \subseteq marked
    BY <2>4, <2>6 DEF CInv, TypeOK, Moved
  <2>8. e \in (i * MsgSize)..((i + 1) * MsgSize - 1)
    <3>1. e \in Int /\ i * MsgSize \in Int /\ (i + 1) * MsgSize \in Int
      BY <2>2, <2>5, <2>6
    <3> QED
      BY <2>6, <3>1
  <2>9. e \div local_size["SENDER"] \in CarriedBy(i)
    BY <2>2, <2>6, <2>8, CarriedOf DEF CarriedBy
  <2> QED
    BY <2>3, <2>4, <2>6, <2>7, <2>9 DEF ElementDelivered
<1>2. (Regular => CInv) => EndToEndRegular
  BY <1>1 DEF EndToEndRegular
<1> QED
  BY <1>2, Invariance, PTL

-----------------------------------------------------------------------------
(* The refinement.                                                         *)

\* The elements of the mapping.
ReadyElements == Blocks(marked, local_size["SENDER"])
MovedElements == Blocks(delivered, size["RECEIVER"])
ReportedElements == Blocks(arrived, local_size["RECEIVER"])

\* What the invariant says of the elements.
LEMMA Ordered ==
    CInv => /\ ReadyElements \subseteq 0..(Total - 1)
            /\ MovedElements \subseteq ReadyElements
            /\ ReportedElements \subseteq MovedElements
<1> SUFFICES ASSUME CInv
             PROVE  /\ ReadyElements \subseteq 0..(Total - 1)
                    /\ MovedElements \subseteq ReadyElements
                    /\ ReportedElements \subseteq MovedElements
  OBVIOUS
<1>1. "SENDER" \in Side /\ "RECEIVER" \in Side
  BY DEF Side
<1>2. /\ local_parts["SENDER"] \in Nat \ {0} /\ local_size["SENDER"] \in Nat \ {0}
      /\ local_parts["RECEIVER"] \in Nat \ {0}
      /\ local_size["RECEIVER"] \in Nat \ {0}
      /\ Msgs \in Nat \ {0} /\ MsgSize \in Nat
      /\ Exact(local_parts["SENDER"], local_size["SENDER"], Msgs, MsgSize)
      /\ Exact(local_parts["RECEIVER"], local_size["RECEIVER"], Msgs, MsgSize)
  BY <1>1, Numbers DEF CInv
<1>3. ReadyElements \subseteq 0..(Total - 1)
  <2>1. marked \in SUBSET (0..(local_parts["SENDER"] - 1))
    BY DEF CInv, TypeOK, User
  <2> QED
    BY <1>2, <2>1, BlocksInside DEF ReadyElements, Total
<1>4. CASE stage["RECEIVER"] = "setup"
  <2>1. size["RECEIVER"] = MsgSize
    BY <1>1, <1>4 DEF CInv, Decided
  <2>2. delivered \in SUBSET (0..(Msgs - 1)) /\ delivered \in SUBSET Nat
        /\ \A i \in delivered : CarriedBy(i) \subseteq marked
    BY <1>2 DEF CInv, TypeOK, Moved
  <2>3. MovedElements \subseteq ReadyElements
    BY <1>2, <2>1, <2>2, MovedInReady
       DEF MovedElements, ReadyElements, CarriedBy
  <2>4. arrived \in SUBSET (0..(local_parts["RECEIVER"] - 1))
    BY DEF CInv, TypeOK, User
  <2>5. \A q \in arrived :
           MessagesOf(local_parts["RECEIVER"], Msgs, q) \subseteq delivered
    BY <1>1, <1>4, MessagesExact DEF CInv, TypeOK, Moved
  <2>6. ReportedElements \subseteq MovedElements
    BY <1>2, <2>1, <2>2, <2>4, <2>5, ReportedInMoved
       DEF ReportedElements, MovedElements
  <2> QED
    BY <1>3, <2>3, <2>6
<1>5. CASE stage["RECEIVER"] # "setup"
  <2>1. delivered = {} /\ arrived = {}
    BY <1>5 DEF CInv, Moved
  <2>2. MovedElements = {} /\ ReportedElements = {}
    BY <2>1, Zenon DEF MovedElements, ReportedElements, Blocks
  <2> QED
    BY <1>3, <2>2
<1> QED
  BY <1>4, <1>5

\* A channel begins with nothing ready.
LEMMA InitRefines == Init => Promised!Init
<1> SUFFICES ASSUME Init PROVE Promised!Init
  OBVIOUS
<1>1. marked = {} /\ delivered = {} /\ arrived = {}
  BY DEF Init
<1>2. /\ Blocks(marked, local_size["SENDER"]) = {}
      /\ Blocks(delivered, size["RECEIVER"]) = {}
      /\ Blocks(arrived, local_size["RECEIVER"]) = {}
  BY <1>1, Zenon DEF Blocks
<1> QED
  BY <1>2, Zenon DEF Promised!Init, IfRegular

\* What a step leaves alone of what the mapping reads: an init call changes the
\* size of a message only while nothing has been delivered.
LEMMA SetupIsQuiet ==
    ASSUME CInv, KeysGiven(info), NEW s \in Side, Setup(s)
    PROVE  UNCHANGED <<ReadyElements, MovedElements, ReportedElements>>
<1>1. UNCHANGED <<local_size, datavars>>
      /\ (stage["RECEIVER"] = "setup" => UNCHANGED (size["RECEIVER"]))
  <2>1. CASE SetUpAs(s)
    BY <2>1 DEF SetUpAs, SetUpWith, CInv, TypeOK, Side
  <2>2. CASE SyncSpawn(s)
    BY <2>2 DEF SyncSpawn
  <2> QED
    BY <2>1, <2>2, SetupShape DEF CInv
<1>2. UNCHANGED <<marked, delivered, arrived>>
  BY <1>1 DEF datavars
<1>3. UNCHANGED <<ReadyElements, ReportedElements>>
  BY <1>1, <1>2 DEF ReadyElements, ReportedElements
<1>4. CASE stage["RECEIVER"] = "setup"
  BY <1>1, <1>2, <1>3, <1>4 DEF MovedElements
<1>5. CASE stage["RECEIVER"] # "setup"
  <2>1. delivered = {} /\ delivered' = {}
    BY <1>2, <1>5 DEF CInv, Moved
  <2>2. MovedElements = {} /\ MovedElements' = {}
    BY <2>1, Zenon DEF MovedElements, Blocks
  <2> QED
    BY <1>3, <2>2
<1> QED
  BY <1>4, <1>5

\* Every step is one of the promised steps, or changes nothing they speak of.
LEMMA NextRefines ==
    ASSUME Regular, CInv, CInv', [Next]_vars
    PROVE  [Promised!Next]_(Promised!vars)
<1>r. Regular'
  BY RegularKept
<1>1. /\ ReadyElements' \subseteq 0..(Total - 1)
      /\ MovedElements' \subseteq ReadyElements'
      /\ ReportedElements' \subseteq MovedElements'
  <2>1. Total' = Total
    BY Fixed, NumbersKept
  <2>2. (/\ ReadyElements \subseteq 0..(Total - 1)
         /\ MovedElements \subseteq ReadyElements
         /\ ReportedElements \subseteq MovedElements)'
    BY Ordered, PTL
  <2> QED
    BY <2>1, <2>2
<1>2. CASE UNCHANGED <<ReadyElements, MovedElements, ReportedElements>>
  BY <1>r, <1>2, Zenon DEF ReadyElements, MovedElements, ReportedElements,
     IfRegular, Promised!vars
<1>3. ASSUME NEW p \in User("SENDER"), MPIP_Pready(p)
      PROVE  Promised!Next
  <2>1. marked \subseteq marked' /\ UNCHANGED <<local_size, size, delivered, arrived>>
    BY <1>3 DEF MPIP_Pready, Mark, setupvars
  <2>2. ReadyElements \subseteq ReadyElements'
        /\ UNCHANGED <<MovedElements, ReportedElements>>
    BY <2>1, Zenon DEF ReadyElements, MovedElements, ReportedElements, Blocks
  <2> QED
    BY <1>r, <1>1, <2>2, Zenon DEF ReadyElements, MovedElements, ReportedElements,
       Total, IfRegular, Promised!Next, Promised!Ready
<1>4. ASSUME NEW i \in sent, MPI_Deliver(i)
      PROVE  Promised!Next
  <2>1. delivered \subseteq delivered' /\ UNCHANGED <<local_size, size, marked, arrived>>
    BY <1>4 DEF MPI_Deliver, setupvars
  <2>2. MovedElements \subseteq MovedElements'
        /\ UNCHANGED <<ReadyElements, ReportedElements>>
    BY <2>1, Zenon DEF ReadyElements, MovedElements, ReportedElements, Blocks
  <2>3. MovedElements' \subseteq ReadyElements
    BY <1>1, <2>2
  <2> QED
    BY <1>r, <2>2, <2>3, Zenon DEF ReadyElements, MovedElements, ReportedElements,
       IfRegular, Promised!Next, Promised!Move
<1>5. ASSUME NEW q \in User("RECEIVER"), MPIP_Parrived(q)
      PROVE  Promised!Next
  <2>1. arrived \subseteq arrived' /\ UNCHANGED <<local_size, size, marked, delivered>>
    BY <1>5 DEF MPIP_Parrived, Arrived, setupvars
  <2>2. ReportedElements \subseteq ReportedElements'
        /\ UNCHANGED <<ReadyElements, MovedElements>>
    BY <2>1, Zenon DEF ReadyElements, MovedElements, ReportedElements, Blocks
  <2>3. ReportedElements' \subseteq MovedElements
    BY <1>1, <2>2
  <2> QED
    BY <1>r, <2>2, <2>3, Zenon DEF ReadyElements, MovedElements, ReportedElements,
       IfRegular, Promised!Next, Promised!Report
<1>6. CASE UNCHANGED vars
  <2>1. UNCHANGED <<local_size, size, marked, delivered, arrived>>
    BY <1>6 DEF vars, setupvars, datavars
  <2> QED
    BY <1>2, <2>1 DEF ReadyElements, MovedElements, ReportedElements
<1>7. CASE \E s \in Side : Setup(s)
  <2>1. KeysGiven(info)
    BY DEF Regular
  <2> QED
    BY <1>2, <1>7, <2>1, SetupIsQuiet
<1> QED
  BY <1>3, <1>4, <1>5, <1>6, <1>7 DEF Next, Done

\* ... and a channel that is not Regular promises nothing.
LEMMA NextStutters ==
    ASSUME ~Regular, [Next]_vars
    PROVE  [Promised!Next]_(Promised!vars)
<1>1. ~Regular'
  BY RegularKept
<1> QED
  BY <1>1, Zenon DEF IfRegular, Promised!vars

\* The two sides together implement Partitioned, for all Regular channels: a
\* message moves only elements MPIP_Pready declared, and MPIP_Parrived reports
\* only elements that have moved.
THEOREM ChannelRefines == Spec => ImplementsPartitioned
<1>1. /\ Regular => CInv
      /\ (Regular => CInv)'
      /\ [Next]_vars
      => [Promised!Next]_(Promised!vars)
  <2> SUFFICES ASSUME Regular => CInv, (Regular => CInv)', [Next]_vars
               PROVE  [Promised!Next]_(Promised!vars)
    OBVIOUS
  <2>1. CASE Regular
    <3>1. Regular'
      BY <2>1, RegularKept
    <3> QED
      BY <2>1, <3>1, NextRefines
  <2>2. CASE ~Regular
    BY <2>2, NextStutters
  <2> QED
    BY <2>1, <2>2
<1>2. Init => Promised!Init
  BY InitRefines
<1> QED
  BY <1>1, <1>2, Invariance, PTL DEF Spec, ImplementsPartitioned, Promised!Spec
=============================================================================
