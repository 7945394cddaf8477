--------------------------- MODULE MCRateLimit ---------------------------
(* Instances of RateLimit.  Four calls of one address, three of them in   *)
(* one isolate, so that a queue of three forms behind one bucket and the  *)
(* limit of two is reached; an hour of two ticks and the start of the     *)
(* next, so that a call can straddle the rollover, and list after a key   *)
(* put early in the hour has lapsed and before one put late has.          *)
EXTENDS RateLimit, TLC

CONSTANTS r1, r2, r3, r4, a, b

MCRequests == {r1, r2, r3, r4}
MCIsolates == {a, b}
MCIsolateOf == (r1 :> a) @@ (r2 :> a) @@ (r3 :> a) @@ (r4 :> b)
MCSymmetry == Permutations({r1, r2, r3})
==========================================================================
