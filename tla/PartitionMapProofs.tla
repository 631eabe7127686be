------------------------- MODULE PartitionMapProofs -------------------------
(***************************************************************************)
(* What the partition map of send.c computes, for every number and size of *)
(* partitions: its indices stay inside request[] (MapInRange) and, where   *)
(* one count divides the other, the messages it names for a partition are  *)
(* exactly those that share an element with it (MapIsExact).               *)
(***************************************************************************)
EXTENDS PartitionMap, FiniteSetTheorems, TLAPS

\* Multiplication is monotone on the naturals.
LEMMA MulLeq ==
    ASSUME NEW a \in Nat, NEW b \in Nat, NEW c \in Nat, a <= b
    PROVE  /\ a * c <= b * c
           /\ a * c \in Nat /\ b * c \in Nat
BY SMT

\* ... and strictly so when the factor is positive.
LEMMA MulLess ==
    ASSUME NEW a \in Nat, NEW b \in Nat, NEW c \in Nat \ {0}
    PROVE  a < b <=> a * c < b * c
<1>1. a < b => a * c < b * c
  <2>1. SUFFICES ASSUME a < b PROVE a * c < b * c
    OBVIOUS
  <2>2. a + 1 <= b /\ a + 1 \in Nat
    BY <2>1
  <2>3. (a + 1) * c <= b * c
    BY <2>2, MulLeq
  <2>4. (a + 1) * c = a * c + c
    BY SMT
  <2>5. a * c \in Nat /\ b * c \in Nat
    BY SMT
  <2> QED
    BY <2>3, <2>4, <2>5
<1>2. b <= a => b * c <= a * c
  BY MulLeq
<1>3. a * c \in Nat /\ b * c \in Nat
  BY SMT
<1> QED
  BY <1>1, <1>2, <1>3

\* Factors may be regrouped.
LEMMA MulSwap ==
    ASSUME NEW a \in Nat, NEW b \in Nat, NEW c \in Nat
    PROVE  (a * b) * c = b * (a * c)
BY SMT

\* int division of C on non-negative operands.
LEMMA DivBounds ==
    ASSUME NEW a \in Nat, NEW b \in Nat \ {0}
    PROVE  /\ a \div b \in Nat
           /\ (a \div b) * b <= a
           /\ a < (a \div b + 1) * b
           /\ a % b = 0 => a = (a \div b) * b
BY SMT

-----------------------------------------------------------------------------
(* The index stays inside the arrays.                                      *)

\* general_send and map_recv_buffer index request[] and internal_status[]
\* with start_part .. end_part-1 and check nothing: the range is not empty
\* and inside 0 .. np-1 whenever lp <= np or np divides lp.
THEOREM MapInRange ==
    ASSUME NEW lp \in Nat \ {0}, NEW np \in Nat \ {0},
           lp <= np \/ lp % np = 0,
           NEW p \in 0..(lp - 1)
    PROVE  /\ Threshold(lp, np) \in Nat \ {0}
           /\ start_part(lp, np, p) \in 0..(np - 1)
           /\ end_part(lp, np, p) \in Nat
           /\ start_part(lp, np, p) < end_part(lp, np, p)
           /\ end_part(lp, np, p) <= np
<1>p. p \in Nat /\ p + 1 \in Nat /\ p + 1 <= lp
  OBVIOUS
<1>1. CASE lp <= np
  <2> DEFINE q == np \div lp
  <2>1. q \in Nat /\ q * lp <= np /\ np < (q + 1) * lp
    BY DivBounds
  <2>2. q # 0
    BY <2>1, <1>1
  <2> HIDE DEF q
  <2>3. (p + 1) * q <= lp * q /\ (p + 1) * q = p * q + q
    BY <1>p, <2>1, MulLeq
  <2>4. lp * q = q * lp /\ p * q = q * p /\ (p + 1) * q = q * (p + 1)
    BY <1>p, <2>1
  <2>5. p * q \in Nat /\ q * lp \in Nat
    BY <1>p, <2>1
  <2>6. /\ start_part(lp, np, p) = q * p
        /\ end_part(lp, np, p) = q * (p + 1)
        /\ Threshold(lp, np) = 1
    BY <1>1 DEF start_part, end_part, Threshold, q
  <2> QED
    BY <2>1, <2>2, <2>3, <2>4, <2>5, <2>6
<1>2. CASE ~(lp <= np)
  <2> DEFINE k == lp \div np
  <2> DEFINE m == p \div k
  <2>1. k \in Nat /\ lp = k * np
    BY <1>2, DivBounds
  <2>2. k # 0
    BY <2>1
  <2> HIDE DEF k
  <2>3. m \in Nat /\ m * k <= p
    BY <1>p, <2>1, <2>2, DivBounds
  <2> HIDE DEF m
  <2>4. m * k < np * k
    BY <1>p, <2>1, <2>3
  <2>5. m < np
    BY <2>1, <2>2, <2>3, <2>4, MulLess
  <2>6. /\ Threshold(lp, np) = k
        /\ start_part(lp, np, p) = m
        /\ end_part(lp, np, p) = m + 1
    BY <1>2 DEF start_part, end_part, Threshold, k, m
  <2> QED
    BY <2>1, <2>2, <2>3, <2>5, <2>6
<1> QED
  BY <1>1, <1>2

-----------------------------------------------------------------------------
(* The map against the layout of the buffer.                               *)

\* An exact geometry with at most as many partitions as messages: every
\* partition is split into q = np / lp messages.
LEMMA ExactSplit ==
    ASSUME NEW lp \in Nat \ {0}, NEW ls \in Nat \ {0},
           NEW np \in Nat \ {0}, NEW sz \in Nat,
           Exact(lp, ls, np, sz), lp <= np
    PROVE  /\ np \div lp \in Nat \ {0}
           /\ np = (np \div lp) * lp
           /\ ls = (np \div lp) * sz
           /\ sz # 0
<1> DEFINE q == np \div lp
<1>1. np % lp = 0
  <2>1. CASE lp % np = 0
    <3>1. lp = (lp \div np) * np /\ lp \div np \in Nat
      BY <2>1, DivBounds
    <3>2. lp \div np # 0
      BY <3>1
    <3>3. lp \div np <= 1
      <4>1. SUFFICES ASSUME 2 <= lp \div np PROVE FALSE
        BY <3>1
      <4>2. 2 * np <= (lp \div np) * np
        BY <4>1, <3>1, MulLeq
      <4> QED
        BY <4>2, <3>1
    <3>4. lp = np
      BY <3>1, <3>2, <3>3
    <3> QED
      BY <3>4
  <2> QED
    BY <2>1 DEF Exact
<1>2. q \in Nat /\ np = q * lp
  BY <1>1, DivBounds
<1>3. q # 0
  BY <1>2
<1> HIDE DEF q
<1>4. ls * lp = (q * sz) * lp
  <2>1. lp * ls = np * sz
    BY DEF Exact
  <2>2. np * sz = (q * lp) * sz
    BY <1>2
  <2>3. (q * lp) * sz = (q * sz) * lp
    BY <1>2
  <2> QED
    BY <2>1, <2>2, <2>3
<1>5. q * sz \in Nat
  BY <1>2
<1>6. ls = q * sz
  BY <1>4, <1>5, MulLess
<1>7. sz # 0
  BY <1>6, <1>2
<1> QED
  BY <1>2, <1>3, <1>6, <1>7 DEF q

\* An exact geometry with more partitions than messages: every message
\* gathers k = lp / np partitions.
LEMMA ExactGather ==
    ASSUME NEW lp \in Nat \ {0}, NEW ls \in Nat \ {0},
           NEW np \in Nat \ {0}, NEW sz \in Nat,
           Exact(lp, ls, np, sz), ~(lp <= np)
    PROVE  /\ lp \div np \in Nat \ {0}
           /\ lp = (lp \div np) * np
           /\ sz = (lp \div np) * ls
<1> DEFINE k == lp \div np
<1>1. lp % np = 0
  <2>1. CASE np % lp = 0
    <3>1. np = (np \div lp) * lp /\ np \div lp \in Nat
      BY <2>1, DivBounds
    <3>2. np \div lp # 0
      BY <3>1
    <3>3. 1 * lp <= (np \div lp) * lp
      BY <3>1, <3>2, MulLeq
    <3> QED
      BY <3>1, <3>3
  <2> QED
    BY <2>1 DEF Exact
<1>2. k \in Nat /\ lp = k * np
  BY <1>1, DivBounds
<1>3. k # 0
  BY <1>2
<1> HIDE DEF k
<1>4. sz * np = (k * ls) * np
  <2>1. lp * ls = np * sz
    BY DEF Exact
  <2>2. lp * ls = (k * np) * ls
    BY <1>2
  <2>3. (k * np) * ls = (k * ls) * np /\ np * sz = sz * np
    BY <1>2
  <2> QED
    BY <2>1, <2>2, <2>3
<1>5. k * ls \in Nat
  BY <1>2
<1>6. sz = k * ls
  BY <1>4, <1>5, MulLess
<1> QED
  BY <1>2, <1>3, <1>6 DEF k

\* For an exact geometry the messages the code counts a partition for (on
\* the send side) and tests for it (on the receive side) are exactly the
\* messages that share an element of the buffer with it.
THEOREM MapIsExact ==
    ASSUME NEW lp \in Nat \ {0}, NEW ls \in Nat \ {0},
           NEW np \in Nat \ {0}, NEW sz \in Nat,
           Exact(lp, ls, np, sz),
           NEW p \in 0..(lp - 1), NEW i \in 0..(np - 1)
    PROVE  i \in MessagesOf(lp, np, p) <=> Overlap(p, ls, i, sz)
<1>t. p \in Nat /\ i \in Nat /\ p + 1 \in Nat /\ i + 1 \in Nat
  OBVIOUS
<1>1. CASE lp <= np
  <2> DEFINE q == np \div lp
  <2>1. q \in Nat \ {0} /\ np = q * lp /\ ls = q * sz /\ sz # 0
    BY <1>1, ExactSplit
  <2>2. /\ start_part(lp, np, p) = q * p
        /\ end_part(lp, np, p) = q * (p + 1)
    BY <1>1 DEF start_part, end_part
  <2> HIDE DEF q
  <2>3. q * p \in Nat /\ q * (p + 1) \in Nat
    BY <1>t, <2>1
  <2>4. i \in MessagesOf(lp, np, p) <=> (q * p < i + 1 /\ i < q * (p + 1))
    BY <2>2, <2>3, <1>t DEF MessagesOf
  <2>5. q * p < i + 1 <=> (q * p) * sz < (i + 1) * sz
    BY <2>1, <2>3, <1>t, MulLess
  <2>6. i < q * (p + 1) <=> i * sz < (q * (p + 1)) * sz
    BY <2>1, <2>3, <1>t, MulLess
  <2>7. (q * p) * sz = p * ls /\ (q * (p + 1)) * sz = (p + 1) * ls
    <3>1. (q * p) * sz = p * (q * sz)
      BY <2>1, <1>t, MulSwap
    <3>2. (q * (p + 1)) * sz = (p + 1) * (q * sz)
      BY <2>1, <1>t, MulSwap
    <3> QED
      BY <2>1, <3>1, <3>2
  <2> QED
    BY <2>4, <2>5, <2>6, <2>7 DEF Overlap
<1>2. CASE ~(lp <= np)
  <2> DEFINE k == lp \div np
  <2>1. k \in Nat \ {0} /\ lp = k * np /\ sz = k * ls
    BY <1>2, ExactGather
  <2>2. /\ start_part(lp, np, p) = p \div k
        /\ end_part(lp, np, p) = p \div k + 1
    BY <1>2 DEF start_part, end_part, Threshold
  <2> HIDE DEF k
  <2>3. p \div k \in Nat /\ (p \div k) * k <= p /\ p < (p \div k + 1) * k
    BY <1>t, <2>1, DivBounds
  <2>4. i \in MessagesOf(lp, np, p) <=> i = p \div k
    BY <2>2, <2>3, <1>t DEF MessagesOf
  <2>5. i = p \div k <=> (p < (i + 1) * k /\ i * k < p + 1)
    <3> DEFINE m == p \div k
    <3>1. m \in Nat /\ m * k <= p /\ p < (m + 1) * k
      BY <2>3
    <3> HIDE DEF m
    <3>2. ASSUME p < (i + 1) * k, i * k < p + 1 PROVE i = m
      <4>1. i * k < (m + 1) * k /\ m * k < (i + 1) * k
        BY <3>1, <3>2, <2>1, <1>t
      <4>2. i < m + 1 /\ m < i + 1
        BY <4>1, <3>1, <2>1, <1>t, MulLess
      <4> QED
        BY <4>2, <3>1, <1>t
    <3>3. ASSUME i = m PROVE p < (i + 1) * k /\ i * k < p + 1
      BY <3>1, <3>3, <2>1, <1>t
    <3> QED
      BY <3>2, <3>3 DEF m
  <2>a. (i + 1) * k \in Nat /\ i * k \in Nat
    BY <1>t, <2>1
  <2>6. p < (i + 1) * k <=> p * ls < ((i + 1) * k) * ls
    BY <1>t, <2>a, MulLess
  <2>7. i * k < p + 1 <=> (i * k) * ls < (p + 1) * ls
    BY <1>t, <2>a, MulLess
  <2>8. ((i + 1) * k) * ls = (i + 1) * sz /\ (i * k) * ls = i * sz
    BY <2>1, <1>t
  <2> QED
    BY <2>4, <2>5, <2>6, <2>7, <2>8 DEF Overlap
<1> QED
  BY <1>1, <1>2

\* The threshold is the number of partitions the message carries: the code
\* counts to the right number.
THEOREM ThresholdIsExact ==
    ASSUME NEW lp \in Nat \ {0}, NEW ls \in Nat \ {0},
           NEW np \in Nat \ {0}, NEW sz \in Nat,
           Exact(lp, ls, np, sz), NEW i \in 0..(np - 1)
    PROVE  /\ IsFiniteSet(Carried(lp, ls, sz, i))
           /\ Cardinality(Carried(lp, ls, sz, i)) = Threshold(lp, np)
<1>t. i \in Nat /\ i + 1 \in Nat
  OBVIOUS
<1> DEFINE C == Carried(lp, ls, sz, i)
<1>c. C = {p \in 0..(lp - 1) : i \in MessagesOf(lp, np, p)}
  BY MapIsExact DEF Carried
<1> HIDE DEF C
<1>1. CASE lp <= np
  <2> DEFINE q == np \div lp
             m == i \div q
  <2>1. q \in Nat \ {0} /\ np = q * lp
    BY <1>1, ExactSplit
  <2>2. \A p \in 0..(lp - 1) : /\ start_part(lp, np, p) = q * p
                               /\ end_part(lp, np, p) = q * (p + 1)
    BY <1>1 DEF start_part, end_part
  <2> HIDE DEF q
  <2>3. m \in Nat /\ m * q <= i /\ i < (m + 1) * q
    BY <1>t, <2>1, DivBounds
  <2> HIDE DEF m
  <2>4. m \in 0..(lp - 1)
    <3>1. m * q < lp * q
      BY <2>1, <2>3, <1>t
    <3> QED
      BY <3>1, <2>1, <2>3, MulLess
  <2>5. ASSUME NEW p \in 0..(lp - 1)
        PROVE  i \in MessagesOf(lp, np, p) <=> p = m
    <3>1. p \in Nat /\ q * p \in Nat /\ q * (p + 1) \in Nat
      BY <2>1
    <3>2. i \in MessagesOf(lp, np, p) <=> (q * p <= i /\ i < q * (p + 1))
      BY <2>2, <3>1, <1>t DEF MessagesOf
    <3>3. ASSUME q * p <= i, i < q * (p + 1) PROVE p = m
      <4>1. p * q < (m + 1) * q /\ m * q < (p + 1) * q
        BY <3>1, <3>3, <2>1, <2>3, <1>t
      <4>2. p < m + 1 /\ m < p + 1
        BY <4>1, <3>1, <2>1, <2>3, MulLess
      <4> QED
        BY <4>2, <3>1, <2>3
    <3>4. p = m => q * p <= i /\ i < q * (p + 1)
      BY <2>1, <2>3, <1>t
    <3> QED
      BY <3>2, <3>3, <3>4
  <2>6. C = {m}
    BY <1>c, <2>4, <2>5
  <2>7. Threshold(lp, np) = 1
    BY <1>1 DEF Threshold
  <2>8. IsFiniteSet({m}) /\ Cardinality({m}) = 1
    BY FS_Singleton, Zenon
  <2> QED
    BY <2>6, <2>7, <2>8 DEF C
<1>2. CASE ~(lp <= np)
  <2> DEFINE k == lp \div np
             a == i * k
             b == (i + 1) * k
  <2>1. k \in Nat \ {0} /\ lp = k * np /\ Threshold(lp, np) = k
    BY <1>2, ExactGather DEF Threshold
  <2>2. \A p \in 0..(lp - 1) : /\ start_part(lp, np, p) = p \div k
                               /\ end_part(lp, np, p) = p \div k + 1
    BY <1>2 DEF start_part, end_part, Threshold
  <2> HIDE DEF k
  <2>3. a \in Nat /\ b = a + k /\ b <= lp
    <3>1. (i + 1) * k <= np * k
      BY <1>t, <2>1, MulLeq
    <3> QED
      BY <3>1, <1>t, <2>1
  <2>4. ASSUME NEW p \in 0..(lp - 1)
        PROVE  i \in MessagesOf(lp, np, p) <=> (a <= p /\ p < b)
    <3> DEFINE m == p \div k
    <3>1. p \in Nat /\ m \in Nat /\ m * k <= p /\ p < (m + 1) * k
      BY <2>1, DivBounds
    <3>2. i \in MessagesOf(lp, np, p) <=> i = m
      BY <2>2, <3>1, <1>t DEF MessagesOf
    <3> HIDE DEF m
    <3>3. ASSUME a <= p, p < b PROVE i = m
      <4>1. i * k < (m + 1) * k /\ m * k < (i + 1) * k
        BY <3>1, <3>3, <2>1, <1>t
      <4>2. i < m + 1 /\ m < i + 1
        BY <4>1, <3>1, <2>1, <1>t, MulLess
      <4> QED
        BY <4>2, <3>1, <1>t
    <3>4. i = m => a <= p /\ p < b
      BY <3>1
    <3> QED
      BY <3>2, <3>3, <3>4
  <2> HIDE DEF a, b
  <2>5. C = a..(b - 1)
    BY <1>c, <2>1, <2>3, <2>4
  <2>6. IsFiniteSet(a..(b - 1)) /\ Cardinality(a..(b - 1)) = k
    BY <2>1, <2>3, FS_Interval
  <2> QED
    BY <2>1, <2>5, <2>6 DEF C
<1> QED
  BY <1>1, <1>2

-----------------------------------------------------------------------------
(* The elements of the buffer.                                             *)

\* An element is in one of the blocks when it lies between a block's ends.
LEMMA InBlocks ==
    ASSUME NEW S \in SUBSET Nat, NEW sz \in Nat, NEW e
    PROVE  e \in Blocks(S, sz) <=>
              e \in Nat /\ \E b \in S : b * sz <= e /\ e < (b + 1) * sz
<1>1. \A b \in Nat : b * sz \in Nat /\ (b + 1) * sz \in Nat
  OBVIOUS
<1>2. e \in Blocks(S, sz) <=>
         \E b \in S : e \in (b * sz)..((b + 1) * sz - 1)
  BY Zenon DEF Blocks
<1>3. \A b \in Nat : e \in (b * sz)..((b + 1) * sz - 1) <=>
                        e \in Nat /\ b * sz <= e /\ e < (b + 1) * sz
  BY <1>1
<1> QED
  BY <1>2, <1>3

\* Some of n blocks lie inside the n blocks.
LEMMA BlocksInside ==
    ASSUME NEW n \in Nat, NEW S \in SUBSET (0..(n - 1)), NEW sz \in Nat
    PROVE  Blocks(S, sz) \subseteq 0..(n * sz - 1)
<1> SUFFICES ASSUME NEW e \in Blocks(S, sz) PROVE e \in 0..(n * sz - 1)
  OBVIOUS
<1>s. S \in SUBSET Nat
  OBVIOUS
<1>1. PICK b \in S : e \in Nat /\ b * sz <= e /\ e < (b + 1) * sz
  BY <1>s, InBlocks
<1>2. b \in Nat /\ b + 1 \in Nat /\ b + 1 <= n
  OBVIOUS
<1>3. (b + 1) * sz <= n * sz /\ n * sz \in Nat
  BY <1>2, MulLeq
<1> QED
  BY <1>1, <1>3

\* Each element of n blocks is in one of them.
LEMMA BlockOf ==
    ASSUME NEW n \in Nat, NEW sz \in Nat, NEW e \in 0..(n * sz - 1)
    PROVE  /\ sz # 0 /\ e \div sz \in 0..(n - 1)
           /\ (e \div sz) * sz <= e /\ e < (e \div sz + 1) * sz
<1>1. n * sz \in Nat /\ e \in Nat /\ e < n * sz
  OBVIOUS
<1>2. sz # 0
  BY <1>1
<1> DEFINE b == e \div sz
<1>3. b \in Nat /\ b * sz <= e /\ e < (b + 1) * sz
  BY <1>1, <1>2, DivBounds
<1> HIDE DEF b
<1>4. b * sz < n * sz
  BY <1>1, <1>3
<1>5. b < n
  BY <1>2, <1>3, <1>4, MulLess
<1> QED
  BY <1>2, <1>3, <1>5 DEF b

\* All n blocks are the buffer.
LEMMA AllBlocks ==
    ASSUME NEW n \in Nat, NEW sz \in Nat
    PROVE  Blocks(0..(n - 1), sz) = 0..(n * sz - 1)
<1>1. ASSUME NEW e \in 0..(n * sz - 1) PROVE e \in Blocks(0..(n - 1), sz)
  <2>1. 0..(n - 1) \in SUBSET Nat /\ e \in Nat
    BY MulLeq
  <2> QED
    BY <2>1, BlockOf, InBlocks
<1> QED
  BY <1>1, BlocksInside

\* On exact geometries the messages the code relates to a partition hold all
\* of its elements.
LEMMA MessagesCover ==
    ASSUME NEW lp \in Nat \ {0}, NEW ls \in Nat \ {0},
           NEW np \in Nat \ {0}, NEW sz \in Nat,
           Exact(lp, ls, np, sz), NEW p \in 0..(lp - 1),
           NEW e \in (p * ls)..((p + 1) * ls - 1)
    PROVE  \E i \in MessagesOf(lp, np, p) :
              i \in 0..(np - 1) /\ i * sz <= e /\ e < (i + 1) * sz
<1>1. p \in Nat /\ p + 1 \in Nat /\ p + 1 <= lp
  OBVIOUS
<1>2. (p + 1) * ls <= lp * ls
  BY <1>1, MulLeq
<1>3. p * ls \in Nat /\ (p + 1) * ls \in Nat /\ lp * ls \in Nat
  BY <1>1
<1>4. /\ e \in 0..(np * sz - 1) /\ e \in Nat
      /\ p * ls <= e /\ e < (p + 1) * ls
  BY <1>2, <1>3 DEF Exact
<1> DEFINE i == e \div sz
<1>5. i \in 0..(np - 1) /\ i * sz <= e /\ e < (i + 1) * sz
  BY <1>4, BlockOf
<1> HIDE DEF i
<1>6. i * sz \in Nat /\ (i + 1) * sz \in Nat
  BY <1>5
<1>7. Overlap(p, ls, i, sz)
  BY <1>3, <1>4, <1>5, <1>6 DEF Overlap
<1>8. i \in MessagesOf(lp, np, p)
  BY <1>5, <1>7, MapIsExact
<1> QED
  BY <1>5, <1>8

\* Each element of a message belongs to one of the partitions it carries.
LEMMA CarriedOf ==
    ASSUME NEW lp \in Nat \ {0}, NEW ls \in Nat \ {0},
           NEW np \in Nat \ {0}, NEW sz \in Nat,
           Exact(lp, ls, np, sz), NEW i \in 0..(np - 1),
           NEW e \in (i * sz)..((i + 1) * sz - 1)
    PROVE  /\ e \div ls \in Carried(lp, ls, sz, i)
           /\ e \in Nat /\ (e \div ls) * ls <= e /\ e < (e \div ls + 1) * ls
<1>1. i \in Nat /\ i + 1 \in Nat /\ i + 1 <= np
  OBVIOUS
<1>2. (i + 1) * sz <= np * sz
  BY <1>1, MulLeq
<1>3. i * sz \in Nat /\ (i + 1) * sz \in Nat /\ np * sz \in Nat
  BY <1>1
<1>4. /\ e \in 0..(lp * ls - 1) /\ e \in Nat
      /\ i * sz <= e /\ e < (i + 1) * sz
  BY <1>2, <1>3 DEF Exact
<1> DEFINE p == e \div ls
<1>5. p \in 0..(lp - 1) /\ p * ls <= e /\ e < (p + 1) * ls
  BY <1>4, BlockOf
<1> HIDE DEF p
<1>6. p * ls \in Nat /\ (p + 1) * ls \in Nat
  BY <1>5
<1>7. p \in Carried(lp, ls, sz, i)
  BY <1>3, <1>4, <1>5, <1>6 DEF Carried, Overlap
<1> QED
  BY <1>4, <1>5, <1>7 DEF p

\* ... so that its elements lie in those partitions.
LEMMA CarriedCover ==
    ASSUME NEW lp \in Nat \ {0}, NEW ls \in Nat \ {0},
           NEW np \in Nat \ {0}, NEW sz \in Nat,
           Exact(lp, ls, np, sz), NEW i \in 0..(np - 1),
           NEW e \in (i * sz)..((i + 1) * sz - 1)
    PROVE  e \in Blocks(Carried(lp, ls, sz, i), ls)
<1>1. Carried(lp, ls, sz, i) \in SUBSET Nat
  BY DEF Carried
<1> QED
  BY <1>1, CarriedOf, InBlocks

\* Messages whose partitions are all in R lie inside the partitions of R.
LEMMA MovedInReady ==
    ASSUME NEW lp \in Nat \ {0}, NEW ls \in Nat \ {0},
           NEW np \in Nat \ {0}, NEW sz \in Nat,
           Exact(lp, ls, np, sz), NEW R, NEW M \in SUBSET (0..(np - 1)),
           \A i \in M : Carried(lp, ls, sz, i) \subseteq R
    PROVE  Blocks(M, sz) \subseteq Blocks(R, ls)
<1> SUFFICES ASSUME NEW e \in Blocks(M, sz) PROVE e \in Blocks(R, ls)
  OBVIOUS
<1>1. PICK i \in M : e \in (i * sz)..((i + 1) * sz - 1)
  BY Zenon DEF Blocks
<1>2. e \in Blocks(Carried(lp, ls, sz, i), ls)
  BY <1>1, CarriedCover
<1> QED
  BY <1>2, Zenon DEF Blocks

\* Partitions whose messages are all in D lie inside the messages of D.
LEMMA ReportedInMoved ==
    ASSUME NEW lp \in Nat \ {0}, NEW ls \in Nat \ {0},
           NEW np \in Nat \ {0}, NEW sz \in Nat,
           Exact(lp, ls, np, sz), NEW D \in SUBSET Nat,
           NEW Q \in SUBSET (0..(lp - 1)),
           \A q \in Q : MessagesOf(lp, np, q) \subseteq D
    PROVE  Blocks(Q, ls) \subseteq Blocks(D, sz)
<1> SUFFICES ASSUME NEW e \in Blocks(Q, ls) PROVE e \in Blocks(D, sz)
  OBVIOUS
<1>1. PICK q \in Q : e \in (q * ls)..((q + 1) * ls - 1)
  BY Zenon DEF Blocks
<1>2. \E i \in D : i * sz <= e /\ e < (i + 1) * sz
  BY <1>1, MessagesCover
<1>3. e \in Nat
  BY <1>1
<1> QED
  BY <1>2, <1>3, InBlocks
=============================================================================
