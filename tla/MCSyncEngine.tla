---------------------------- MODULE MCSyncEngine ----------------------------
(* Topologies the runs check SyncEngine on.  All share one store.          *)
EXTENDS SyncEngine, TLC

CONSTANTS a1, a2, a3, c1, c2, d1, d2, f1, f2

OneConfigEach == (a1 :> {c1}) @@ (a2 :> {c2})
OneMachine    == (a1 :> {c1})
WithButton    == OneConfigEach @@ (a3 :> {c1})

OneFolder  == (c1 :> d1)
TwoFolders == (c1 :> d1) @@ (c2 :> d2)

Restore     == (c1 :> "push") @@ (c2 :> "pull")
TwoWay      == (c1 :> "bidirectional")
TwoWayBoth  == (c1 :> "bidirectional") @@ (c2 :> "bidirectional")

NoFilter1 == (c1 :> {f1, f2})
NoFilter2 == (c1 :> {f1, f2}) @@ (c2 :> {f1, f2})
OwnFile   == (c1 :> {f1}) @@ (c2 :> {f2})
OtherFile == (c1 :> {f2}) @@ (c2 :> {f1})
OneFile2  == (c1 :> {f1, f2}) @@ (c2 :> {f1})
=============================================================================
