----------------------------- MODULE MCAuthStore -----------------------------
(* A small instance of AuthStore for TLC; no symmetry, for the liveness.   *)
EXTENDS AuthStore, TLC

CONSTANTS u1, u2, k1, k2

\* One token of each of two users.
OwnerOf == (k1 :> u1) @@ (k2 :> u2)
=============================================================================
