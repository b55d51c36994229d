---------------------------- MODULE MCRateLimiter ----------------------------
(* RateLimiter with interchangeable threads and addresses.  Addresses are, in  *)
(* spite of their roles: one proxy is on this host and one is not, both are    *)
(* trusted, and both may name either address, so every address can be what     *)
(* Enter and LetThrough make of a request.                                     *)
EXTENDS RateLimiter, TLC

Symmetry == Permutations(Threads) \cup Permutations(Peers)
=============================================================================
