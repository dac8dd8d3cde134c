--------------------------- MODULE MCFetchBursts ---------------------------
(* Two pairs of bursts, s0's with l's and s3's with l2's: the last task of  *)
(* the first burst brings the second, before the first is prefetched.  s2   *)
(* and s4 refer to the same object; what else there is refers to X.         *)
EXTENDS GCFetch, TLC

CONSTANTS s0, s1, s2, s3, s4, a1, a2, a3, l, b1, m, c1, c2, c3, l2, d1, m2,
          R, L, U, V, X, Y, Z

MCTarget == (s0 :> R) @@ (l :> L) @@ (s3 :> U) @@ (l2 :> V) @@ (s2 :> Y) @@ (s4 :> Y)
            @@ (c2 :> Z) @@ (c3 :> Z) @@ [t \in Tasks |-> X]
MCTraced == (R :> <<a3, a2, a1, l>>) @@ (L :> <<b1, m>>)
            @@ (U :> <<c3, c2, c1, l2>>) @@ (V :> <<d1, m2>>) @@ [o \in Objects |-> <<>>]
MCRoots  == <<s0, s1, s2, s3, s4>>
MCChunks == [t \in Partial |-> <<>>]
=============================================================================
