---------------------------- MODULE PartitionMap ----------------------------
(***************************************************************************)
(* How MPIPCL relates the partitions its user sees to the messages it      *)
(* sends.  A request has lp user partitions of ls elements each (the       *)
(* fields local_parts and local_size) and np internal messages of sz       *)
(* elements each (parts and size); message i carries the elements          *)
(* i*sz .. (i+1)*sz-1 of the buffer (internal_setup's offset).             *)
(*                                                                         *)
(* The first half translates the arithmetic of the code, the second half   *)
(* states the same relation from the buffer layout alone.  The arithmetic  *)
(* is the code's int division; the sizes met here are far from 2^31.       *)
(***************************************************************************)
EXTENDS Integers, FiniteSets

-----------------------------------------------------------------------------
(* The code's arithmetic.                                                  *)

\* sync_hard: the message size when the number of messages is a given option.
sync_hard(option, lp, ls) == (lp * ls) \div option

\* Mutant: every message is started by its first partition.
Threshold_One(lp, np) == 1

\* How many user partitions must be ready before a message is started.
Threshold(lp, np) == IF lp <= np THEN 1 ELSE lp \div np

\* The first message user partition id takes part in, and the one after the
\* last: map_local_to_network_partitions when lp <= np (its ceil() is applied
\* to a quotient already truncated by int division), the else branch of
\* general_send and map_recv_buffer when lp > np.
start_part(lp, np, id) ==
    IF lp <= np THEN (np \div lp) * id ELSE id \div Threshold(lp, np)

end_part(lp, np, id) ==
    IF lp <= np THEN (np \div lp) * (id + 1) ELSE start_part(lp, np, id) + 1

\* The messages user partition id takes part in, [start_part, end_part).
MessagesOf(lp, np, id) == start_part(lp, np, id) .. (end_part(lp, np, id) - 1)

-----------------------------------------------------------------------------
(* The reference: who shares an element with whom.                         *)

\* Block a of size asz and block b of size bsz share an element of the buffer.
Overlap(a, asz, b, bsz) == a * asz < (b + 1) * bsz /\ b * bsz < (a + 1) * asz

\* The user partitions whose data message i carries.
Carried(lp, ls, sz, i) == {p \in 0..(lp - 1) : Overlap(p, ls, i, sz)}

\* The messages that carry data of user partition p.
Carriers(np, ls, sz, p) == {i \in 0..(np - 1) : Overlap(p, ls, i, sz)}

\* The elements of the blocks in S, each of sz elements.
Blocks(S, sz) == UNION {(b * sz)..((b + 1) * sz - 1) : b \in S}

\* Both sides describe the same buffer and one count divides the other: the
\* geometries the code's arithmetic is exact on (see MapIsExact).
Exact(lp, ls, np, sz) ==
    /\ lp * ls = np * sz
    /\ np % lp = 0 \/ lp % np = 0
=============================================================================
