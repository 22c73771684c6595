------------------------------- MODULE MCSender -------------------------------
(* A sender with its dialog on a small instance.                            *)
EXTENDS Sender, TLC

PeerSymmetry == Permutations(Peers)

=============================================================================
