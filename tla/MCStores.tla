------------------------------ MODULE MCStores ------------------------------
(* The file q1 lies in a subfolder and has the name of p1.                 *)
EXTENDS Stores, TLC

CONSTANTS p1, p2, q1, m1, m2, g1

OneSubfolder == (p1 :> p1) @@ (p2 :> p2) @@ (q1 :> p1)

OneProject  == (m1 :> g1) @@ (m2 :> g1)

\* m2 restores what m1 backs up, one way or while m1 pulls as well.
Restore == {(m1 :> d) @@ (m2 :> "pull") : d \in {"push", "bidirectional"}}
=============================================================================
