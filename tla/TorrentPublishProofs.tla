------------------------ MODULE TorrentPublishProofs ------------------------
(* Theorems about TorrentPublish, for every set of paths and every bound.  *)
EXTENDS TorrentPublish, TLAPS

\* The steps of an actor, one case each.
LEMMA ActorSteps ==
  ASSUME NEW a \in Actor, Walk(a) \/ Advance(a) \/ AddFails(a) \/ Stop(a)
  PROVE  \/ Walk(a) \/ AddDone(a) \/ AddFails(a) \/ Stop(a)
         \/ NoChanges(a) \/ Changed(a) \/ BuildSnapshot(a) \/ NothingStaged(a)
         \/ ClearSeed(a) \/ CopySeed(a) \/ AddTorrentFile(a) \/ Put(a)
         \/ SaveLastManifest(a) \/ Clear(a)
         \/ \E f \in Path : AddBegin(a, f) \/ AddMissing(a, f)
BY DEF Advance, Flush

-----------------------------------------------------------------------------
(* Types                                                                   *)

LEMMA Values ==
  /\ Nothing \in Snapshot
  /\ Torn \in Content /\ NoFile \in Content /\ Torn # NoFile
  /\ \A n \in 0 .. MaxEdits : n < MaxEdits => n + 1 \in Content
  /\ \A n \in 0 .. MaxEdits : 1 .. n \subseteq Content
BY PublishAssumption
DEF Nothing, Snapshot, Content, Version, Torn, NoFile

LEMMA PartsAreSnapshots ==
  ASSUME NEW s \in Snapshot
  PROVE  Parts(s) \subseteq Snapshot
BY Values DEF Parts, Snapshot

LEMMA FileReplaced ==
  ASSUME NEW s \in Snapshot, NEW f, NEW c \in Content
  PROVE  [s EXCEPT ![f] = c] \in Snapshot
BY DEF Snapshot

\* A copy over a snapshot is a snapshot.
LEMMA Overlay ==
  ASSUME NEW s \in Snapshot, NEW t \in Snapshot
  PROVE  [f \in Path |-> IF s[f] = NoFile THEN t[f] ELSE s[f]] \in Snapshot
BY DEF Snapshot

LEMMA ActorType ==
  ASSUME TypeOK, NEW a \in Actor, Walk(a) \/ Advance(a) \/ AddFails(a) \/ Stop(a)
  PROVE  TypeOK'
<1> USE Values, PublishAssumption DEF TypeOK
<1> USE DEF Goto, Fail, EndCopy, AllStaged, userVars, diskVars, netVars,
            copyVars, PCs, Files
<1>1. CASE Walk(a)
  BY <1>1 DEF Walk
<1>2. CASE AddDone(a)
  <2>1. stage' \in Snapshot
    <3>1. stage \in Snapshot
      OBVIOUS
    <3> QED BY <1>2, <3>1, Values, FileReplaced DEF AddDone
  <2> QED BY <1>2, <2>1 DEF AddDone
<1>3. CASE AddFails(a)
  BY <1>3 DEF AddFails
<1>4. CASE NoChanges(a)
  BY <1>4 DEF NoChanges
<1>5. CASE Changed(a)
  BY <1>5 DEF Changed
<1>6. CASE BuildSnapshot(a)
  BY <1>6 DEF BuildSnapshot
<1>7. CASE NothingStaged(a)
  BY <1>7 DEF NothingStaged
<1>8. CASE ClearSeed(a)
  BY <1>8 DEF ClearSeed
<1>9. CASE CopySeed(a)
  <2>1. seed' \in Snapshot
    <3>1. stage \in Snapshot /\ seed \in Snapshot
      OBVIOUS
    <3> QED BY <1>9, <3>1, Overlay DEF CopySeed
  <2> QED BY <1>9, <2>1 DEF CopySeed
<1>10. CASE AddTorrentFile(a)
  BY <1>10 DEF AddTorrentFile
<1>11. CASE Put(a)
  BY <1>11 DEF Put
<1>12. CASE SaveLastManifest(a)
  BY <1>12 DEF SaveLastManifest
<1>13. CASE Clear(a)
  BY <1>13 DEF Clear
<1>14. CASE Stop(a)
  <2>1. {stage, seed}' \subseteq Snapshot
        /\ manifest' \in Snapshot \cup {NoManifest}
    BY <1>14, PartsAreSnapshots DEF Stop
  <2> QED BY <1>14, <2>1 DEF Stop
<1>15. ASSUME NEW f \in Path, AddBegin(a, f) PROVE TypeOK'
  <2>1. stage' \in Snapshot
    <3>1. stage \in Snapshot /\ Torn \in Content
      OBVIOUS
    <3>2. stage' = [stage EXCEPT ![f] = Torn]
      BY <1>15 DEF AddBegin
    <3> HIDE DEF TypeOK
    <3> QED BY <3>1, <3>2, FileReplaced
  <2> QED BY <1>15, <2>1 DEF AddBegin, Snapshot
<1>16. ASSUME NEW f \in Path, AddMissing(a, f) PROVE TypeOK'
  BY <1>16 DEF AddMissing
<1> QED BY ActorSteps, <1>1, <1>2, <1>3, <1>4, <1>5, <1>6, <1>7, <1>8, <1>9,
           <1>10, <1>11, <1>12, <1>13, <1>14, <1>15, <1>16

LEMMA UserType ==
  ASSUME TypeOK, UserStep \/ Tick
  PROVE  TypeOK'
<1> USE Values, PublishAssumption DEF TypeOK, userVars, diskVars, netVars, copyVars
<1>1. ASSUME NEW f \in Path, NEW c \in Content, Edit(f, c) PROVE TypeOK'
  <2>1. folder' \in Snapshot
    <3>1. folder \in Snapshot
      OBVIOUS
    <3>2. folder' = [folder EXCEPT ![f] = c]
      BY <1>1 DEF Edit
    <3> HIDE DEF TypeOK
    <3> QED BY <1>1, <3>1, <3>2, FileReplaced
  <2>2. edits' \in 0 .. MaxEdits
    BY <1>1 DEF Edit
  <2>3. UNCHANGED <<diskVars, netVars, clock, failures, pc, todo, copyVars, snap, seq>>
    BY <1>1 DEF Edit
  <2> QED BY <2>1, <2>2, <2>3
<1>2. CASE Tick
  BY <1>2 DEF Tick
<1>3. CASE UserStep
  <2>1. \A f \in Path : Edit(f, edits + 1) => edits + 1 \in Content
    BY DEF Edit
  <2> QED BY <1>1, <1>3, <2>1 DEF UserStep
<1> QED BY <1>2, <1>3

\* Every reachable state of the publisher has its type.
THEOREM TypeCorrect == Spec => []TypeOK
<1>1. Init => TypeOK
  BY Values, PublishAssumption DEF Init, TypeOK, PCs
<1>2. TypeOK /\ [Next]_vars => TypeOK'
  <2> SUFFICES ASSUME TypeOK, [Next]_vars PROVE TypeOK'
    OBVIOUS
  <2>1. CASE UNCHANGED vars
    BY <2>1 DEF vars, TypeOK
  <2> QED BY <2>1, UserType, ActorType DEF Next
<1> QED BY <1>1, <1>2, PTL DEF Spec

-----------------------------------------------------------------------------
(* What is announced is seeded                                             *)

LEMMA ActorSeeded ==
  ASSUME TypeOK, SeededInv, NEW a \in Actor,
         Walk(a) \/ Advance(a) \/ AddFails(a) \/ Stop(a)
  PROVE  SeededInv'
<1> USE DEF TypeOK, SeededInv, AnnouncedIsSeeded, Announced
<1> USE DEF Goto, EndCopy, userVars, diskVars, netVars, copyVars, PCs
<1>1. CASE Walk(a)
  BY <1>1 DEF Walk
<1>2. CASE AddDone(a)
  BY <1>2 DEF AddDone
<1>3. CASE AddFails(a)
  BY <1>3 DEF AddFails
<1>4. CASE NoChanges(a)
  BY <1>4 DEF NoChanges
<1>5. CASE Changed(a)
  BY <1>5 DEF Changed
<1>6. CASE BuildSnapshot(a)
  BY <1>6 DEF BuildSnapshot
<1>7. CASE NothingStaged(a)
  BY <1>7 DEF NothingStaged
<1>8. CASE ClearSeed(a)
  BY <1>8 DEF ClearSeed
<1>9. CASE CopySeed(a)
  BY <1>9 DEF CopySeed
<1>10. CASE AddTorrentFile(a)
  BY <1>10 DEF AddTorrentFile
<1>11. CASE Put(a)
  BY <1>11 DEF Put
<1>12. CASE SaveLastManifest(a)
  BY <1>12 DEF SaveLastManifest
<1>13. CASE Clear(a)
  BY <1>13 DEF Clear
<1>14. CASE Stop(a)
  BY <1>14 DEF Stop
<1>15. ASSUME NEW f \in Path, AddBegin(a, f) PROVE SeededInv'
  BY <1>15 DEF AddBegin
<1>16. ASSUME NEW f \in Path, AddMissing(a, f) PROVE SeededInv'
  BY <1>16 DEF AddMissing
<1> QED BY ActorSteps, <1>1, <1>2, <1>3, <1>4, <1>5, <1>6, <1>7, <1>8, <1>9,
           <1>10, <1>11, <1>12, <1>13, <1>14, <1>15, <1>16

\* Whatever fails, and however many actors publish at once, the DHT never points
\* to a torrent the client was not given.
THEOREM AnnouncedAlwaysSeeded == Spec => []AnnouncedIsSeeded
<1>1. Init => SeededInv
  BY DEF Init, SeededInv, AnnouncedIsSeeded, Announced
<1>2. TypeOK /\ SeededInv /\ [Next]_vars => SeededInv'
  <2> SUFFICES ASSUME TypeOK, SeededInv, [Next]_vars PROVE SeededInv'
    OBVIOUS
  <2>1. CASE UserStep \/ Tick \/ UNCHANGED vars
    BY <2>1 DEF UserStep, Edit, Tick, vars, netVars, SeededInv,
                AnnouncedIsSeeded, Announced
  <2> QED BY <2>1, ActorSeeded DEF Next
<1>3. SeededInv => AnnouncedIsSeeded
  BY DEF SeededInv
<1> QED BY <1>1, <1>2, <1>3, TypeCorrect, PTL DEF Spec

-----------------------------------------------------------------------------
(* No truncated file is announced                                          *)

LEMMA ActorWhole ==
  ASSUME SteadyFolder, TypeOK, WholeInv, NEW a \in Actor,
         Walk(a) \/ Advance(a) \/ AddFails(a) \/ Stop(a)
  PROVE  WholeInv'
<1>0. \A b \in Actor : b = a
  BY DEF SteadyFolder
<1> USE <1>0, Values DEF TypeOK, WholeInv, Whole, Snapshot
<1> USE DEF Goto, EndCopy, AllStaged, userVars, diskVars, netVars, copyVars,
            PCs, Files
<1>1. CASE Walk(a)
  BY <1>1 DEF Walk
<1>2. CASE AddDone(a)
  BY <1>2 DEF AddDone
<1>3. CASE AddFails(a)
  BY <1>3 DEF AddFails, SteadyFolder
<1>4. CASE NoChanges(a)
  BY <1>4 DEF NoChanges
<1>5. CASE Changed(a)
  BY <1>5 DEF Changed
<1>6. CASE BuildSnapshot(a)
  BY <1>6 DEF BuildSnapshot
<1>7. CASE NothingStaged(a)
  BY <1>7 DEF NothingStaged
<1>8. CASE ClearSeed(a)
  BY <1>8 DEF ClearSeed
<1>9. CASE CopySeed(a)
  BY <1>9 DEF CopySeed
<1>10. CASE AddTorrentFile(a)
  BY <1>10 DEF AddTorrentFile
<1>11. CASE Put(a)
  BY <1>11 DEF Put
<1>12. CASE SaveLastManifest(a)
  BY <1>12 DEF SaveLastManifest
<1>13. CASE Clear(a)
  BY <1>13 DEF Clear, Nothing
<1>14. CASE Stop(a)
  <2>1. \A f \in Path : stage'[f] # NoFile => stage[f] # NoFile
    BY <1>14 DEF Stop, Parts
  <2> QED BY <1>14, <2>1 DEF Stop
<1>15. ASSUME NEW f \in Path, AddBegin(a, f) PROVE WholeInv'
  BY <1>15 DEF AddBegin
<1>16. ASSUME NEW f \in Path, AddMissing(a, f) PROVE WholeInv'
  BY <1>16 DEF AddMissing
<1> QED BY ActorSteps, <1>1, <1>2, <1>3, <1>4, <1>5, <1>6, <1>7, <1>8, <1>9,
           <1>10, <1>11, <1>12, <1>13, <1>14, <1>15, <1>16

\* What a user does to a folder in which files are not deleted.
LEMMA SteadyEdit ==
  ASSUME SteadyFolder, TypeOK, UserStep
  PROVE  \E f \in Path, c \in Version : Edit(f, c)
<1>1. PICK f \in Path, c \in 1 .. (edits + 1) : Edit(f, c)
  BY PublishAssumption DEF UserStep, SteadyFolder, TypeOK
<1>2. c \in Version
  BY <1>1, PublishAssumption DEF TypeOK, Version, Edit
<1> QED BY <1>1, <1>2

LEMMA WholeInvariant ==
  ASSUME SteadyFolder
  PROVE  Spec => []WholeInv
<1>1. Init => WholeInv
  BY Values DEF Init, WholeInv, Whole, Nothing
<1>2. TypeOK /\ WholeInv /\ [Next]_vars => WholeInv'
  <2> SUFFICES ASSUME TypeOK, WholeInv, [Next]_vars PROVE WholeInv'
    OBVIOUS
  <2>1. CASE UserStep
    <3>1. PICK f \in Path, c \in Version : Edit(f, c)
      BY <2>1, SteadyEdit
    <3>2. c # Torn /\ c # NoFile
      BY <3>1, PublishAssumption DEF Version, Torn, NoFile
    <3> QED BY <3>1, <3>2
        DEF Edit, WholeInv, Whole, TypeOK, Snapshot, diskVars, netVars, copyVars
  <2>2. CASE Tick \/ UNCHANGED vars
    BY <2>2 DEF Tick, vars, userVars, diskVars, netVars, copyVars,
                WholeInv, Whole
  <2> QED BY <2>1, <2>2, ActorWhole DEF Next
<1> QED BY <1>1, <1>2, TypeCorrect, PTL DEF Spec

\* A crash of the one publisher in the middle of a copy never gets a truncated
\* file announced, as long as the files it lists can be copied again.
THEOREM AnnouncedAlwaysWhole ==
  ASSUME SteadyFolder
  PROVE  Spec => []AnnouncedFilesAreWhole
<1>1. WholeInv => AnnouncedFilesAreWhole
  BY DEF WholeInv, Whole, AnnouncedFilesAreWhole
<1> QED BY <1>1, WholeInvariant, PTL

-----------------------------------------------------------------------------
(* A cycle that finds no changes staged what was published                 *)

\* What is left of a snapshot is all of it, or misses one of its files.
LEMMA PartMisses ==
  ASSUME NEW s \in Snapshot, NEW p \in Parts(s), p # s
  PROVE  \E f \in Files(s) : p[f] = NoFile
<1>1. PICK F \in SUBSET Path : p = [f \in Path |-> IF f \in F THEN s[f] ELSE NoFile]
  BY DEF Parts
<1>2. PICK f \in Path : p[f] # s[f]
  BY <1>1 DEF Snapshot
<1> QED BY <1>1, <1>2 DEF Files

LEMMA ActorSkips ==
  ASSUME SteadyFolder, TypeOK, WholeInv, SkipInv, NEW a \in Actor,
         Walk(a) \/ Advance(a) \/ AddFails(a) \/ Stop(a)
  PROVE  SkipInv'
<1>0. \A b \in Actor : b = a
  BY DEF SteadyFolder
<1> USE <1>0, Values DEF TypeOK, SkipInv, Snapshot
<1> USE DEF Goto, EndCopy, AllStaged, userVars, diskVars, netVars, copyVars,
            PCs, Files
<1>1. CASE Walk(a)
  BY <1>1 DEF Walk
<1>2. CASE AddDone(a)
  BY <1>2 DEF AddDone
<1>3. CASE AddFails(a)
  BY <1>3 DEF AddFails, SteadyFolder
<1>4. CASE NoChanges(a)
  BY <1>4 DEF NoChanges
<1>5. CASE Changed(a)
  BY <1>5 DEF Changed
<1>6. CASE BuildSnapshot(a)
  BY <1>6 DEF BuildSnapshot, WholeInv
<1>7. CASE NothingStaged(a)
  BY <1>7 DEF NothingStaged
<1>8. CASE ClearSeed(a)
  BY <1>8 DEF ClearSeed
<1>9. CASE CopySeed(a)
  BY <1>9 DEF CopySeed
<1>10. CASE AddTorrentFile(a)
  BY <1>10 DEF AddTorrentFile
<1>11. CASE Put(a)
  BY <1>11 DEF Put
<1>12. CASE SaveLastManifest(a)
  BY <1>12 DEF SaveLastManifest
<1>13. CASE Clear(a)
  BY <1>13 DEF Clear
<1>14. CASE Stop(a)
  <2>1. pc'[a] = "idle" /\ UNCHANGED <<folder, published>>
    BY <1>14 DEF Stop
  <2>2. CASE UNCHANGED manifest
    BY <2>1, <2>2
  <2>3. CASE pc[a] = "save" /\ manifest' \in Parts(snap[a]) \cup {NoManifest}
    BY <2>1, <2>3, PartMisses
  <2> QED BY <1>14, <2>2, <2>3 DEF Stop
<1>15. ASSUME NEW f \in Path, AddBegin(a, f) PROVE SkipInv'
  BY <1>15 DEF AddBegin
<1>16. ASSUME NEW f \in Path, AddMissing(a, f) PROVE SkipInv'
  BY <1>16 DEF AddMissing
<1> QED BY ActorSteps, <1>1, <1>2, <1>3, <1>4, <1>5, <1>6, <1>7, <1>8, <1>9,
           <1>10, <1>11, <1>12, <1>13, <1>14, <1>15, <1>16

\* While nobody deletes files, the one publisher never takes a manifest that was
\* left half written for what it has staged.
THEOREM SkipsOnlyPublished ==
  ASSUME SteadyFolder
  PROVE  Spec => OnlyPublishedIsSkipped
<1>1. Init => SkipInv
  BY Values DEF Init, SkipInv
<1>2. TypeOK /\ WholeInv /\ SkipInv /\ [Next]_vars => SkipInv'
  <2> SUFFICES ASSUME TypeOK, WholeInv, SkipInv, [Next]_vars PROVE SkipInv'
    OBVIOUS
  <2>1. CASE UserStep
    <3>1. PICK f \in Path, c \in Version : Edit(f, c)
      BY <2>1, SteadyEdit
    <3>2. c # NoFile
      BY <3>1, PublishAssumption DEF Version, NoFile
    <3>3. Files(folder) \subseteq Files(folder')
      BY <3>1, <3>2 DEF Edit, Files, TypeOK, Snapshot
    <3> QED BY <3>1, <3>3 DEF Edit, SkipInv, Files, diskVars, netVars, copyVars
  <2>2. CASE Tick \/ UNCHANGED vars
    BY <2>2 DEF Tick, vars, userVars, diskVars, netVars, copyVars,
                SkipInv, Files
  <2> QED BY <2>1, <2>2, ActorSkips DEF Next
<1>3. ASSUME TypeOK, SkipInv, [Next]_vars, NEW a \in Actor, AllStaged(a),
             pc'[a] = "idle", failures' = failures
      PROVE  stage \in published
  <2>1. NoChanges(a)
    <3>1. \A b \in Actor : b = a
      BY DEF SteadyFolder
    <3>2. Walk(a) \/ Advance(a) \/ AddFails(a) \/ Stop(a)
      BY <1>3, <3>1 DEF Next, UserStep, Edit, Tick, vars, AllStaged
    <3>3. failures + 1 # failures
      BY <1>3, PublishAssumption DEF TypeOK
    <3> QED BY <1>3, <3>2, <3>3, ActorSteps
        DEF AllStaged, Walk, AddDone, EndCopy, AddFails, Stop, Fail, Changed,
            BuildSnapshot, NothingStaged, ClearSeed, CopySeed, AddTorrentFile,
            Put, SaveLastManifest, Clear, AddBegin, AddMissing, Goto, TypeOK
  <2>2. manifest = stage /\ stage # NoManifest
    BY <1>3, <2>1, ManifestAssumption DEF NoChanges, HasChanges, TypeOK
  <2> QED BY <1>3, <2>2 DEF AllStaged, SkipInv, Files
<1>4. TypeOK /\ SkipInv /\ [Next]_vars
        => [\A a \in Actor : AllStaged(a) /\ pc'[a] = "idle" /\ failures' = failures
                               => stage \in published]_vars
  BY <1>3
<1> QED BY <1>1, <1>2, <1>4, TypeCorrect, WholeInvariant, PTL
        DEF Spec, OnlyPublishedIsSkipped

-----------------------------------------------------------------------------
(* What is announced can be downloaded                                     *)

LEMMA ActorDownload ==
  ASSUME SlowTicks, TypeOK, DownloadInv, NEW a \in Actor, Actor = {a},
         Walk(a) \/ Advance(a) \/ AddFails(a) \/ Stop(a)
  PROVE  DownloadInv'
<1> SUFFICES ASSUME failures' = 0 PROVE DownloadInv'
  BY DEF DownloadInv
<1>0. failures \in Nat /\ failures + 1 # 0 /\ item.seq \in Nat /\ clock \in Nat
      /\ seq[a] \in Nat
  BY PublishAssumption DEF TypeOK
<1> USE <1>0 DEF TypeOK, DownloadInv, Announced
<1> USE DEF Goto, EndCopy, AllStaged, userVars, diskVars, netVars, copyVars,
            PCs, Fail
<1>1. CASE Walk(a)
  BY <1>1 DEF Walk
<1>2. CASE AddDone(a)
  BY <1>2 DEF AddDone
<1>3. CASE AddFails(a)
  BY <1>3 DEF AddFails
<1>4. CASE NoChanges(a)
  BY <1>4 DEF NoChanges
<1>5. CASE Changed(a)
  BY <1>5 DEF Changed
<1>6. CASE BuildSnapshot(a)
  BY <1>6 DEF BuildSnapshot
<1>7. CASE NothingStaged(a)
  BY <1>7 DEF NothingStaged
<1>8. CASE ClearSeed(a)
  BY <1>8 DEF ClearSeed
<1>9. CASE CopySeed(a)
  <2>1. failures = 0 /\ seed = Nothing /\ stage = snap[a] /\ stage # Nothing
    BY <1>9 DEF CopySeed
  <2>2. seed' = stage
    <3> HIDE DEF DownloadInv
    <3> QED BY <1>9, <2>1 DEF CopySeed, Nothing, Snapshot
  <2> QED BY <1>9, <2>1, <2>2 DEF CopySeed
<1>10. CASE AddTorrentFile(a)
  BY <1>10 DEF AddTorrentFile
<1>11. CASE Put(a)
  BY <1>11 DEF Put
<1>12. CASE SaveLastManifest(a)
  BY <1>12 DEF SaveLastManifest
<1>13. CASE Clear(a)
  BY <1>13 DEF Clear
<1>14. CASE Stop(a)
  BY <1>14 DEF Stop
<1>15. ASSUME NEW f \in Path, AddBegin(a, f) PROVE DownloadInv'
  BY <1>15 DEF AddBegin
<1>16. ASSUME NEW f \in Path, AddMissing(a, f) PROVE DownloadInv'
  BY <1>16 DEF AddMissing
<1> QED BY ActorSteps, <1>1, <1>2, <1>3, <1>4, <1>5, <1>6, <1>7, <1>8, <1>9,
           <1>10, <1>11, <1>12, <1>13, <1>14, <1>15, <1>16

\* As long as its operations succeed, one publisher whose cycles are a second
\* apart leaves the data of the announced torrent in the seed directory.
THEOREM AnnouncedAlwaysDownloadable ==
  ASSUME SlowTicks, NEW only, Actor = {only}
  PROVE  Spec => []AnnouncedIsDownloadable
<1>1. Init => DownloadInv
  BY DEF Init, DownloadInv, Announced
<1>2. TypeOK /\ DownloadInv /\ [Next]_vars => DownloadInv'
  <2> SUFFICES ASSUME TypeOK, DownloadInv, [Next]_vars PROVE DownloadInv'
    OBVIOUS
  <2>1. CASE UserStep
    BY <2>1 DEF UserStep, Edit, diskVars, netVars, copyVars, DownloadInv, Announced
  <2>2. CASE Tick
    BY <2>2, PublishAssumption
    DEF Tick, userVars, diskVars, netVars, copyVars, DownloadInv, Announced, TypeOK
  <2>3. CASE UNCHANGED vars
    BY <2>3 DEF vars, DownloadInv, Announced
  <2> QED BY <2>1, <2>2, <2>3, ActorDownload DEF Next
<1>3. DownloadInv => AnnouncedIsDownloadable
  BY DEF DownloadInv, AnnouncedIsDownloadable
<1> QED BY <1>1, <1>2, <1>3, TypeCorrect, PTL DEF Spec
-----------------------------------------------------------------------------
(* What is up to date stays so                                             *)

LEMMA ActorUpToDate ==
  ASSUME \A b, c \in Actor : b = c, ~CopyErrors, TypeOK, UpToDate, NEW a \in Actor,
         Walk(a) \/ Advance(a) \/ AddFails(a) \/ Stop(a)
  PROVE  UpToDate'
<1>0. \A b \in Actor : b = a
  OBVIOUS
<1> USE <1>0, Values, PublishAssumption DEF TypeOK, UpToDate, Current, Snapshot
<1> USE DEF Goto, EndCopy, AllStaged, userVars, diskVars, netVars, copyVars,
            PCs, Files
<1>1. CASE Walk(a)
  BY <1>1 DEF Walk
<1>2. CASE AddDone(a)
  BY <1>2 DEF AddDone
<1>3. CASE AddFails(a)
  BY <1>3 DEF AddFails
<1>4. CASE NoChanges(a)
  BY <1>4 DEF NoChanges
<1>5. CASE Changed(a)
  BY <1>5 DEF Changed
<1>6. CASE BuildSnapshot(a)
  BY <1>6 DEF BuildSnapshot
<1>7. CASE NothingStaged(a)
  BY <1>7 DEF NothingStaged
<1>8. CASE ClearSeed(a)
  BY <1>8 DEF ClearSeed
<1>9. CASE CopySeed(a)
  BY <1>9 DEF CopySeed
<1>10. CASE AddTorrentFile(a)
  BY <1>10 DEF AddTorrentFile
<1>11. CASE Put(a)
  BY <1>11 DEF Put
<1>12. CASE SaveLastManifest(a)
  BY <1>12 DEF SaveLastManifest
<1>13. CASE Clear(a)
  BY <1>13 DEF Clear
<1>14. CASE Stop(a)
  BY <1>14 DEF Stop
<1>15. ASSUME NEW f \in Path, AddBegin(a, f) PROVE UpToDate'
  BY <1>15 DEF AddBegin
<1>16. ASSUME NEW f \in Path, AddMissing(a, f) PROVE UpToDate'
  BY <1>16 DEF AddMissing
<1> QED BY ActorSteps, <1>1, <1>2, <1>3, <1>4, <1>5, <1>6, <1>7, <1>8, <1>9,
           <1>10, <1>11, <1>12, <1>13, <1>14, <1>15, <1>16

\* LatestContentAnnounced says that the contents of the folder come to be announced,
\* this says that they stay so: no later cycle of the one publisher, failed, killed
\* or finding no changes, and no lost put announces anything else, until a user
\* edits a file; deletions and reverted edits are no exception (Push and Flush,
\* transport/torrent.go).
THEOREM UpToDateStays ==
  ASSUME \A b, c \in Actor : b = c, ~CopyErrors
  PROVE  Spec => [][UpToDate /\ UNCHANGED edits => UpToDate']_vars
<1>1. TypeOK /\ [Next]_vars => [UpToDate /\ UNCHANGED edits => UpToDate']_vars
  <2> SUFFICES ASSUME TypeOK, UpToDate, Next, UNCHANGED edits
               PROVE  UpToDate'
    OBVIOUS
  <2>1. ~UserStep
    BY PublishAssumption DEF UserStep, Edit, TypeOK
  <2>2. CASE Tick
    BY <2>2 DEF Tick, UpToDate, Current, Files, userVars, diskVars, netVars, copyVars
  <2> QED BY <2>1, <2>2, ActorUpToDate DEF Next
<1> QED BY <1>1, TypeCorrect, PTL DEF Spec
-----------------------------------------------------------------------------
(* What is announced does not go back                                      *)

LEMMA Ages ==
  ASSUME TypeOK, NEW f \in Path
  PROVE  /\ Version \subseteq Nat \ {0} /\ Content \subseteq Int
         /\ folder[f] \in Content /\ stage[f] \in Content
         /\ edits \in Nat
         /\ \A s \in published : s[f] \in Content
         /\ \A a \in Actor : buf[a] \in Content /\ snap[a][f] \in Content
BY PublishAssumption DEF TypeOK, Snapshot, Content, Version, Torn, NoFile

LEMMA ActorAge ==
  ASSUME \A b, c \in Actor : b = c, TypeOK, NEW f \in Path, AgeInv(f), NEW a \in Actor,
         Walk(a) \/ Advance(a) \/ AddFails(a) \/ Stop(a)
  PROVE  AgeInv(f)'
<1>0. \A b \in Actor : b = a
  OBVIOUS
<1>a. /\ stage \in [Path -> Content] /\ pc \in [Actor -> PCs]
      /\ file \in [Actor -> Path \cup {NoPath}] /\ buf \in [Actor -> Content]
      /\ snap \in [Actor -> Snapshot]
  BY DEF TypeOK, Snapshot
<1>b. /\ Torn \notin Version /\ NoFile \notin Version
      /\ Torn <= edits /\ NoFile <= edits
  BY Ages DEF Torn, NoFile
<1> USE <1>0, <1>a, <1>b, Ages DEF AgeInv, NotNewer
<1> USE DEF Goto, EndCopy, AllStaged, userVars, diskVars, netVars, copyVars, PCs
<1>1. CASE Walk(a)
  BY <1>1 DEF Walk
<1>2. CASE AddDone(a)
  <2>1. stage'[f] = stage[f] \/ (file[a] = f /\ stage'[f] = buf[a])
    BY <1>2 DEF AddDone
  <2>2. pc'[a] = "stage" /\ pc[a] = "copying" /\ UNCHANGED <<folder, published, edits>>
    BY <1>2 DEF AddDone
  <2> QED BY <2>1, <2>2
<1>3. CASE AddFails(a)
  BY <1>3 DEF AddFails
<1>4. CASE NoChanges(a)
  BY <1>4 DEF NoChanges
<1>5. CASE Changed(a)
  BY <1>5 DEF Changed
<1>6. CASE BuildSnapshot(a)
  BY <1>6 DEF BuildSnapshot
<1>7. CASE NothingStaged(a)
  BY <1>7 DEF NothingStaged
<1>8. CASE ClearSeed(a)
  BY <1>8 DEF ClearSeed
<1>9. CASE CopySeed(a)
  BY <1>9 DEF CopySeed
<1>10. CASE AddTorrentFile(a)
  BY <1>10 DEF AddTorrentFile
<1>11. CASE Put(a)
  BY <1>11 DEF Put
<1>12. CASE SaveLastManifest(a)
  BY <1>12 DEF SaveLastManifest
<1>13. CASE Clear(a)
  BY <1>13 DEF Clear, Nothing
<1>14. CASE Stop(a)
  <2>1. pc'[a] = "idle" /\ UNCHANGED <<folder, published, edits>>
    BY <1>14 DEF Stop
  <2>2. stage'[f] \in {stage[f], NoFile}
    BY <1>14 DEF Stop, Parts
  <2> QED BY <2>1, <2>2
<1>15. ASSUME NEW g \in Path, AddBegin(a, g) PROVE AgeInv(f)'
  <2>1. /\ pc'[a] = "copying" /\ file'[a] = g /\ buf'[a] = folder[g]
        /\ stage'[f] \in {stage[f], Torn}
        /\ UNCHANGED <<folder, published, edits>>
    BY <1>15 DEF AddBegin
  <2> QED BY <2>1
<1>16. ASSUME NEW g \in Path, AddMissing(a, g) PROVE AgeInv(f)'
  BY <1>16 DEF AddMissing
<1> QED BY ActorSteps, <1>1, <1>2, <1>3, <1>4, <1>5, <1>6, <1>7, <1>8, <1>9,
           <1>10, <1>11, <1>12, <1>13, <1>14, <1>15, <1>16

\* What one publisher announces of a file is never older than anything it has
\* published of it before, although a stopped cycle leaves old copies in staging and
\* in the seed directory, puts get lost, and numbers are taken from a clock: the
\* receivers' part of this is NoReturnToOlder (Staging.Add, transport/
\* torrent_staging.go, and Flush).
THEOREM AnnouncedNeverOlder ==
  ASSUME \A b, c \in Actor : b = c, ~Reverts
  PROVE  Spec => [][\A s \in published, f \in Path :
                      item'.snap[f] \in Version => s[f] <= item'.snap[f]]_item
<1>1. Init => \A f \in Path : AgeInv(f)
  BY DEF Init, AgeInv, NotNewer, Nothing, NoFile, Version
<1>2. TypeOK /\ (\A f \in Path : AgeInv(f)) /\ [Next]_vars => (\A f \in Path : AgeInv(f))'
  <2> SUFFICES ASSUME TypeOK, [Next]_vars, NEW f \in Path, AgeInv(f) PROVE AgeInv(f)'
    OBVIOUS
  <2>1. CASE UserStep
    <3>1. PICK g \in Path : Edit(g, edits + 1) \/ Edit(g, NoFile)
      BY <2>1 DEF UserStep
    <3>2. /\ edits' = edits + 1
          /\ folder'[f] \in {folder[f], edits + 1, NoFile}
          /\ UNCHANGED <<stage, published, pc, file, buf, snap>>
      BY <3>1 DEF Edit, diskVars, netVars, copyVars, TypeOK, Snapshot
    <3> QED BY <3>2, Ages DEF AgeInv, NotNewer, NoFile
  <2>2. CASE Tick
    BY <2>2 DEF Tick, userVars, diskVars, netVars, copyVars, AgeInv
  <2>3. CASE UNCHANGED vars
    BY <2>3 DEF vars, AgeInv
  <2> QED BY <2>1, <2>2, <2>3, ActorAge DEF Next
<1>3. ASSUME TypeOK, \A f \in Path : AgeInv(f), [Next]_vars, item' # item
      PROVE  \A s \in published, f \in Path :
               item'.snap[f] \in Version => s[f] <= item'.snap[f]
  <2>1. PICK a \in Actor : Put(a)
    <3>1. ASSUME NEW a \in Actor, Walk(a) \/ Advance(a) \/ AddFails(a) \/ Stop(a), ~Put(a)
          PROVE  FALSE
      BY <1>3, <3>1, ActorSteps
      DEF Walk, AddDone, AddFails, Stop, NoChanges, Changed, BuildSnapshot, NothingStaged,
          ClearSeed, CopySeed, AddTorrentFile, SaveLastManifest, Clear, AddBegin, AddMissing,
          EndCopy, netVars
    <3> QED BY <1>3, <3>1 DEF Next, UserStep, Edit, Tick, netVars, vars
  <2>2. pc[a] = "put" /\ item'.snap = snap[a]
    BY <1>3, <2>1 DEF Put
  <2> SUFFICES ASSUME NEW s \in published, NEW f \in Path, snap[a][f] \in Version
               PROVE  s[f] <= snap[a][f]
    BY <2>2
  <2>3. NotNewer(s[f], snap[a][f])
    BY <1>3, <2>2 DEF AgeInv
  <2>4. s[f] \in Content
    BY <1>3, Ages
  <2> QED BY <2>3, <2>4, PublishAssumption DEF NotNewer, Content, Version, Torn, NoFile
<1>4. TypeOK /\ (\A f \in Path : AgeInv(f)) /\ [Next]_vars
        => [\A s \in published, f \in Path :
              item'.snap[f] \in Version => s[f] <= item'.snap[f]]_item
  BY <1>3
<1> QED BY <1>1, <1>2, <1>4, TypeCorrect, PTL DEF Spec
=============================================================================
