---------------------------- MODULE MCRecordings ----------------------------
(* The instance of Recordings that TLC checks: requests are interchangeable. *)
EXTENDS Recordings, TLC

Symmetry == Permutations(Reqs)
=============================================================================
