--------------------------- MODULE MCIdentityAPI ---------------------------
(* IdentityAPI for TLC: the handlers are interchangeable. *)
EXTENDS IdentityAPI, TLC

HandlerSymmetry == Permutations(Handlers)

=============================================================================
