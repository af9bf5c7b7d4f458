---------------------------- MODULE MCZCacheLRU ----------------------------
(***************************************************************************)
(* The tag store and its policy together, on a small cache.                *)
(***************************************************************************)
EXTENDS ZCacheLRU, TLC

CONSTANTS a, b, c, d

\* Two ways: four lines on one set of the first way and two of the second, where
\* a competes with c and b with d.
ThreeSlotHash ==
    a :> (0 :> 0 @@ 1 :> 0) @@ b :> (0 :> 0 @@ 1 :> 1) @@
    c :> (0 :> 0 @@ 1 :> 0) @@ d :> (0 :> 0 @@ 1 :> 1)

\* a and c hash alike, and b and d.
Interchangeable ==
    {(a :> c @@ c :> a @@ b :> b @@ d :> d), (b :> d @@ d :> b @@ a :> a @@ c :> c),
     (a :> c @@ c :> a @@ b :> d @@ d :> b)}
=============================================================================
