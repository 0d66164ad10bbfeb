----------------------------- MODULE MCTas57xx -----------------------------
(* Volumes below, inside and above the range of the volume registers. *)
EXTENDS Tas57xx

MCVolumes == {-1, 0, 200, 256}
=============================================================================
