----------------------------- MODULE MCAdmission -----------------------------
(* The admission list on a small instance.                                 *)
EXTENDS Admission, TLC

\* The peer ids are random UUIDs, compared only for equality.
PeerSymmetry == Permutations(Peers)

=============================================================================
