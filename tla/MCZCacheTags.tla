---------------------------- MODULE MCZCacheTags ----------------------------
EXTENDS ZCacheTags

CONSTANTS a, b, c, d, e, f, g

\* Three ways, two sets of each: a walk of 16 nodes over six slots meets most of
\* them again, and num_candidates cuts it inside a node.
ThreeWayHash ==
    a :> (0 :> 0 @@ 1 :> 0 @@ 2 :> 0) @@ b :> (0 :> 0 @@ 1 :> 1 @@ 2 :> 0) @@
    c :> (0 :> 0 @@ 1 :> 0 @@ 2 :> 1) @@ d :> (0 :> 0 @@ 1 :> 1 @@ 2 :> 1) @@
    e :> (0 :> 1 @@ 1 :> 0 @@ 2 :> 0) @@ f :> (0 :> 1 @@ 1 :> 1 @@ 2 :> 0) @@
    g :> (0 :> 1 @@ 1 :> 1 @@ 2 :> 1)
=============================================================================
