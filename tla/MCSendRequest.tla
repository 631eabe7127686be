--------------------------- MODULE MCSendRequest ----------------------------
(* Model values and symmetry for TLC. *)
EXTENDS SendRequest, TLC

WorkerSymmetry == Permutations(Workers)
=============================================================================
