---------------------------- MODULE MCLoginLimiter ----------------------------
(* Instances of LoginLimiter. *)
EXTENDS LoginLimiter, TLC

CONSTANTS c1, c2, h1, h2, h3

LimiterSymmetry == Permutations(Clients) \cup Permutations(Handlers)
=============================================================================
