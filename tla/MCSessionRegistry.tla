-------------------------- MODULE MCSessionRegistry ---------------------------
(* The session registry on a small instance: one token that two sources, the *)
(* dialog and the control socket share.  There are as many objects as the   *)
(* registry's session and one session each of the four threads is still to  *)
(* destroy, so that the bound on Objects never delays an allocation.        *)
EXTENDS SessionRegistry

=============================================================================
