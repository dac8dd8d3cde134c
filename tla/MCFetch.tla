------------------------------ MODULE MCFetch ------------------------------
(* Two fields of a type array and one of an object array long enough to be  *)
(* processed in two parts, whose second element holds two references.       *)
EXTENDS GCFetch, TLC

CONSTANTS r1, r2, r3, p, h, f1, f2, g1, g2,  A, B, C, T

MCTarget  == (r1 :> A) @@ (p :> A) @@ (f2 :> B) @@ (r2 :> T) @@ (r3 :> T)
             @@ (h :> C) @@ (f1 :> C) @@ (g1 :> C) @@ (g2 :> C)
MCTraced  == (A :> <<p, h>>) @@ (B :> <<g1, g2>>) @@ (C :> <<>>) @@ (T :> <<>>)
MCRoots   == <<r2, r1, r3>>
MCChunks  == p :> << <<p, f1, f2>>, <<>> >>
=============================================================================
