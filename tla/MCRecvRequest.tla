--------------------------- MODULE MCRecvRequest ----------------------------
(* Model values and symmetry for TLC. *)
EXTENDS RecvRequest, TLC

WorkerSymmetry == Permutations(Workers)
=============================================================================
