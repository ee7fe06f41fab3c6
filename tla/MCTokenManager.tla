--------------------------- MODULE MCTokenManager ---------------------------
(* TokenManager with two tokens, two validating goroutines and a clock that  *)
(* runs past the cap of a token issued at once.                              *)
EXTENDS TokenManager

\* An expired-at-birth ttl, "use the default", an ordinary one, one over the cap.
MCTTLs == {-1, 0, 1, 4}
\* A refresh shorter than what is left, an ordinary one and one over the cap.
MCExtensions == {1, 3}
=============================================================================
