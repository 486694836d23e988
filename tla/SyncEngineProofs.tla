-------------------------- MODULE SyncEngineProofs --------------------------
(* Theorems about SyncEngine, for every topology, bound and set of paths.  *)
EXTENDS SyncEngine, TLAPS

\* The steps of an actor, one case each.
LEMMA ActorSteps ==
  ASSUME NEW a \in Actor, Advance(a) \/ Break(a) \/ StartRun(a)
  PROVE  \/ StartRun(a) \/ EndRun(a) \/ Crash(a)
         \/ \E c \in Config : TakeConfig(a, c) \/ SkipConfig(a, c)
         \/ Walk(a) \/ WalkFails(a) \/ PushDone(a) \/ PushFails(a) \/ EndPush(a)
         \/ ListRemote(a) \/ ListFails(a) \/ PullDone(a) \/ PullFails(a)
         \/ EndPull(a)
         \/ \E f \in Path : \/ PushBegin(a, f) \/ PushMissing(a, f)
                            \/ PushRefused(a, f)
                            \/ PullBegin(a, f) \/ PullRefused(a, f)
BY DEF Advance, Break

\* An actor in a transfer has a folder and a file.
LEMMA AtWork ==
  ASSUME TypeOK, PhaseInv, NEW a \in Actor
  PROVE  /\ pc[a] \notin {"idle", "next"} =>
              cfg[a] \in Config /\ cfg[a] \in ConfigsOf[a] /\ Here(a) \in Folder
         /\ pc[a] \in {"pushing", "pulling"} <=> file[a] \in Path
BY TopologyAssumption DEF TypeOK, PhaseInv, Here

-----------------------------------------------------------------------------
(* Types                                                                   *)

LEMMA ContentFacts ==
  /\ Torn \in Content /\ NoFile \in Content
  /\ \A n \in 0 .. MaxEdits :
       n < MaxEdits => n + 1 \in Version /\ n + 1 \in Content /\ n + 1 \in 0 .. MaxEdits
BY BoundAssumption DEF Content, Version, Torn, NoFile

LEMMA LocalUpdate ==
  ASSUME NEW L \in [Folder -> [Path -> Content]],
         NEW d \in Folder, NEW f \in Path, NEW c \in Content
  PROVE  [L EXCEPT ![d][f] = c] \in [Folder -> [Path -> Content]]
OBVIOUS

LEMMA LocalAt ==
  ASSUME NEW L \in [Folder -> [Path -> Content]],
         NEW e \in Folder, NEW g \in Path, NEW v, NEW d \in Folder, NEW f \in Path
  PROVE  [L EXCEPT ![e][g] = v][d][f] = IF d = e /\ f = g THEN v ELSE L[d][f]
OBVIOUS

LEMMA CrashedFolder ==
  ASSUME TypeOK, PhaseInv, NEW a \in Actor, Crash(a)
  PROVE  local' \in [Folder -> [Path -> Content]]
<1>1. CASE local' = local
  BY <1>1 DEF TypeOK
<1>2. CASE pc[a] = "pulling" /\ local' = [local EXCEPT ![Here(a)][file[a]] = buf[a]]
  <2>1. file[a] \in Path /\ Here(a) \in Folder
    BY <1>2, AtWork
  <2>2. local \in [Folder -> [Path -> Content]] /\ buf[a] \in Content
    BY DEF TypeOK
  <2> QED BY <1>2, <2>1, <2>2, LocalUpdate
<1> QED BY <1>1, <1>2 DEF Crash

LEMMA UserType ==
  ASSUME TypeOK, NEW d \in Edited, NEW f \in Path, Save(d, f) \/ Delete(d, f)
  PROVE  TypeOK'
<1> d \in Folder
  BY TopologyAssumption
<1> USE ContentFacts, BoundAssumption
<1>1. CASE Save(d, f)
  BY <1>1 DEF TypeOK, Save, MayEdit, actorVars, Version
<1>2. CASE Delete(d, f)
  BY <1>2 DEF TypeOK, Delete, MayEdit, actorVars, Version
<1> QED BY <1>1, <1>2

LEMMA ActorType ==
  ASSUME TypeOK, PhaseInv, NEW a \in Actor, Advance(a) \/ Break(a) \/ StartRun(a)
  PROVE  TypeOK'
<1>0. /\ pc[a] \notin {"idle", "next"} => Here(a) \in Folder
      /\ pc[a] \in {"pushing", "pulling"} => file[a] \in Path
  BY AtWork
<1> USE <1>0, ContentFacts, BoundAssumption, TopologyAssumption DEF TypeOK
<1> USE DEF Goto, Fail, BeginLoop, EndLoop, BeginTransfer, EndTransfer,
            RefuseTransfer, userVars, PCs, Outcome, Log, Present, Stored
<1>1. CASE StartRun(a)
  BY <1>1 DEF StartRun
<1>2. CASE EndRun(a)
  BY <1>2 DEF EndRun
<1>3. CASE Walk(a)
  BY <1>3 DEF Walk
<1>4. CASE WalkFails(a)
  BY <1>4 DEF WalkFails
<1>5. CASE PushDone(a)
  BY <1>5 DEF PushDone
<1>6. CASE PushFails(a)
  <2>1. CASE remote' = remote
    BY <1>6, <2>1 DEF PushFails
  <2>2. CASE remote' = [remote EXCEPT ![file[a]] = buf[a]]
    BY <1>6, <2>2 DEF PushFails
  <2> QED BY <1>6, <2>1, <2>2 DEF PushFails
<1>7. CASE EndPush(a)
  BY <1>7 DEF EndPush
<1>8. CASE ListRemote(a)
  BY <1>8 DEF ListRemote
<1>9. CASE ListFails(a)
  BY <1>9 DEF ListFails
<1>10. CASE PullDone(a)
  <2>1. local' \in [Folder -> [Path -> Content]]
    <3> file[a] \in Path /\ Here(a) \in Folder /\ buf[a] \in Content
      BY <1>10 DEF PullDone
    <3> QED BY <1>10, LocalUpdate DEF PullDone
  <2> QED BY <1>10, <2>1 DEF PullDone
<1>11. CASE PullFails(a)
  BY <1>11 DEF PullFails
<1>12. CASE EndPull(a)
  BY <1>12 DEF EndPull
<1>13. CASE Crash(a)
  <2>1. local' \in [Folder -> [Path -> Content]]
    BY <1>13, CrashedFolder
  <2>2. remote' \in [Path -> Content]
    BY <1>13 DEF Crash
  <2> QED BY <1>13, <2>1, <2>2 DEF Crash
<1>14. ASSUME NEW c \in Config, TakeConfig(a, c) PROVE TypeOK'
  BY <1>14 DEF TakeConfig
<1>15. ASSUME NEW c \in Config, SkipConfig(a, c) PROVE TypeOK'
  BY <1>15 DEF SkipConfig
<1>16. ASSUME NEW f \in Path, PushBegin(a, f) PROVE TypeOK'
  BY <1>16 DEF PushBegin
<1>17. ASSUME NEW f \in Path, PushMissing(a, f) PROVE TypeOK'
  BY <1>17 DEF PushMissing
<1>18. ASSUME NEW f \in Path, PushRefused(a, f) PROVE TypeOK'
  BY <1>18 DEF PushRefused
<1>19. ASSUME NEW f \in Path, PullBegin(a, f) PROVE TypeOK'
  <2>1. local' \in [Folder -> [Path -> Content]]
    BY <1>19, LocalUpdate DEF PullBegin
  <2> QED BY <1>19, <2>1 DEF PullBegin
<1>20. ASSUME NEW f \in Path, PullRefused(a, f) PROVE TypeOK'
  BY <1>20 DEF PullRefused
<1> QED BY ActorSteps, <1>1, <1>2, <1>3, <1>4, <1>5, <1>6, <1>7, <1>8, <1>9,
           <1>10, <1>11, <1>12, <1>13, <1>14, <1>15, <1>16, <1>17, <1>18,
           <1>19, <1>20

-----------------------------------------------------------------------------
(* Phases                                                                  *)

LEMMA ActorPhase ==
  ASSUME TypeOK, PhaseInv, NEW a \in Actor, Advance(a) \/ Break(a) \/ StartRun(a)
  PROVE  PhaseInv'
<1> USE TopologyAssumption DEF TypeOK, PhaseInv
<1> USE DEF Goto, BeginLoop, EndLoop, BeginTransfer, EndTransfer,
            RefuseTransfer, userVars, PCs, Directions
<1>1. CASE StartRun(a)
  BY <1>1 DEF StartRun
<1>2. CASE EndRun(a)
  BY <1>2 DEF EndRun
<1>3. CASE Walk(a)
  BY <1>3 DEF Walk
<1>4. CASE WalkFails(a)
  BY <1>4 DEF WalkFails
<1>5. CASE PushDone(a)
  BY <1>5 DEF PushDone
<1>6. CASE PushFails(a)
  BY <1>6 DEF PushFails
<1>7. CASE EndPush(a)
  BY <1>7 DEF EndPush
<1>8. CASE ListRemote(a)
  BY <1>8 DEF ListRemote
<1>9. CASE ListFails(a)
  BY <1>9 DEF ListFails
<1>10. CASE PullDone(a)
  BY <1>10 DEF PullDone
<1>11. CASE PullFails(a)
  BY <1>11 DEF PullFails
<1>12. CASE EndPull(a)
  BY <1>12 DEF EndPull
<1>13. CASE Crash(a)
  BY <1>13 DEF Crash
<1>14. ASSUME NEW c \in Config, TakeConfig(a, c) PROVE PhaseInv'
  BY <1>14 DEF TakeConfig
<1>15. ASSUME NEW c \in Config, SkipConfig(a, c) PROVE PhaseInv'
  BY <1>15 DEF SkipConfig
<1>16. ASSUME NEW f \in Path, PushBegin(a, f) PROVE PhaseInv'
  BY <1>16 DEF PushBegin
<1>17. ASSUME NEW f \in Path, PushMissing(a, f) PROVE PhaseInv'
  BY <1>17 DEF PushMissing
<1>18. ASSUME NEW f \in Path, PushRefused(a, f) PROVE PhaseInv'
  BY <1>18 DEF PushRefused
<1>19. ASSUME NEW f \in Path, PullBegin(a, f) PROVE PhaseInv'
  BY <1>19 DEF PullBegin
<1>20. ASSUME NEW f \in Path, PullRefused(a, f) PROVE PhaseInv'
  BY <1>20 DEF PullRefused
<1> QED BY ActorSteps, <1>1, <1>2, <1>3, <1>4, <1>5, <1>6, <1>7, <1>8, <1>9,
           <1>10, <1>11, <1>12, <1>13, <1>14, <1>15, <1>16, <1>17, <1>18,
           <1>19, <1>20

LEMMA PhaseStep == TypeOK /\ PhaseInv /\ [Next]_vars => (TypeOK /\ PhaseInv)'
<1> SUFFICES ASSUME TypeOK, PhaseInv, [Next]_vars
             PROVE  (TypeOK /\ PhaseInv)'
  OBVIOUS
<1>1. CASE UserStep
  <2> PICK d \in Edited, f \in Path : Save(d, f) \/ Delete(d, f)
    BY <1>1 DEF UserStep
  <2>1. PhaseInv'
    BY DEF Save, Delete, actorVars, PhaseInv
  <2> QED BY <2>1, UserType
<1>2. ASSUME NEW a \in Actor, StartRun(a) \/ Advance(a) \/ Break(a)
      PROVE  (TypeOK /\ PhaseInv)'
  BY <1>2, ActorType, ActorPhase
<1>3. CASE UNCHANGED vars
  BY <1>3 DEF vars, TypeOK, PhaseInv
<1> QED BY <1>1, <1>2, <1>3 DEF Next

\* Every reachable state has its type, and each actor is in a phase that the
\* direction of its config allows (RunOnce, core/engine.go:69-85).
THEOREM TypeCorrect == Spec => [](TypeOK /\ PhaseInv)
<1>1. Init => TypeOK /\ PhaseInv
  BY ContentFacts, TopologyAssumption, BoundAssumption
  DEF Init, TypeOK, PhaseInv, PCs
<1> QED BY <1>1, PhaseStep, PTL DEF Spec

LEMMA ActorFilter ==
  ASSUME TypeOK, PhaseInv, FilterInv, NEW a \in Actor,
         Advance(a) \/ Break(a) \/ StartRun(a)
  PROVE  FilterInv'
<1> USE TopologyAssumption DEF TypeOK, PhaseInv, FilterInv, InFlight
<1> USE DEF Goto, BeginLoop, EndLoop, BeginTransfer, EndTransfer,
            RefuseTransfer, Log, userVars
<1>1. CASE StartRun(a)
  BY <1>1 DEF StartRun
<1>2. CASE EndRun(a)
  BY <1>2 DEF EndRun
<1>3. CASE Walk(a)
  BY <1>3 DEF Walk
<1>4. CASE WalkFails(a)
  BY <1>4 DEF WalkFails
<1>5. CASE PushDone(a)
  BY <1>5 DEF PushDone
<1>6. CASE PushFails(a)
  BY <1>6 DEF PushFails
<1>7. CASE EndPush(a)
  BY <1>7 DEF EndPush
<1>8. CASE ListRemote(a)
  BY <1>8 DEF ListRemote
<1>9. CASE ListFails(a)
  BY <1>9 DEF ListFails
<1>10. CASE PullDone(a)
  BY <1>10 DEF PullDone
<1>11. CASE PullFails(a)
  BY <1>11 DEF PullFails
<1>12. CASE EndPull(a)
  BY <1>12 DEF EndPull
<1>13. CASE Crash(a)
  BY <1>13 DEF Crash
<1>14. ASSUME NEW c \in Config, TakeConfig(a, c) PROVE FilterInv'
  BY <1>14 DEF TakeConfig
<1>15. ASSUME NEW c \in Config, SkipConfig(a, c) PROVE FilterInv'
  BY <1>15 DEF SkipConfig
<1>16. ASSUME NEW f \in Path, PushBegin(a, f) PROVE FilterInv'
  BY <1>16 DEF PushBegin
<1>17. ASSUME NEW f \in Path, PushMissing(a, f) PROVE FilterInv'
  BY <1>17 DEF PushMissing
<1>18. ASSUME NEW f \in Path, PushRefused(a, f) PROVE FilterInv'
  BY <1>18 DEF PushRefused
<1>19. ASSUME NEW f \in Path, PullBegin(a, f) PROVE FilterInv'
  BY <1>19 DEF PullBegin
<1>20. ASSUME NEW f \in Path, PullRefused(a, f) PROVE FilterInv'
  BY <1>20 DEF PullRefused
<1> QED BY ActorSteps, <1>1, <1>2, <1>3, <1>4, <1>5, <1>6, <1>7, <1>8, <1>9,
           <1>10, <1>11, <1>12, <1>13, <1>14, <1>15, <1>16, <1>17, <1>18,
           <1>19, <1>20

LEMMA FilterStep ==
  TypeOK /\ PhaseInv /\ FilterInv /\ [Next]_vars => FilterInv'
<1> SUFFICES ASSUME TypeOK, PhaseInv, FilterInv, [Next]_vars
             PROVE  FilterInv'
  OBVIOUS
<1>1. CASE UserStep
  BY <1>1 DEF UserStep, Save, Delete, actorVars, FilterInv, InFlight
<1>2. ASSUME NEW a \in Actor, StartRun(a) \/ Advance(a) \/ Break(a)
      PROVE  FilterInv'
  BY <1>2, ActorFilter
<1>3. CASE UNCHANGED vars
  BY <1>3 DEF vars, FilterInv, InFlight
<1> QED BY <1>1, <1>2, <1>3 DEF Next

\* No engine ever moves a file that the send or the receive filter of its config
\* rejects (push and pull filter the listing before the loop, core/engine.go).
THEOREM FiltersAreKept == Spec => []FilterInv
<1>1. Init => FilterInv
  BY DEF Init, FilterInv
<1> QED BY <1>1, FilterStep, TypeCorrect, PTL DEF Spec

-----------------------------------------------------------------------------
(* Provenance                                                              *)

LEMMA UserProvenance ==
  ASSUME TypeOK, Provenance, NEW d \in Edited, NEW f \in Path,
         Save(d, f) \/ Delete(d, f)
  PROVE  Provenance'
<1> d \in Folder
  BY TopologyAssumption
<1>1. CASE Save(d, f)
  BY <1>1 DEF TypeOK, Provenance, Genuine, Save, actorVars
<1>2. CASE Delete(d, f)
  BY <1>2 DEF TypeOK, Provenance, Genuine, Delete, actorVars
<1> QED BY <1>1, <1>2

LEMMA ActorProvenance ==
  ASSUME TypeOK, PhaseInv, Provenance,
         NEW a \in Actor, Advance(a) \/ Break(a) \/ StartRun(a)
  PROVE  Provenance'
<1>0. /\ pc[a] \notin {"idle", "next"} => Here(a) \in Folder
      /\ pc[a] \in {"pushing", "pulling"} => file[a] \in Path /\ file[a] # NoPath
  BY AtWork, TopologyAssumption
<1> USE <1>0, TopologyAssumption DEF TypeOK, Provenance, Genuine
<1> USE DEF Goto, BeginLoop, EndLoop, BeginTransfer, EndTransfer,
            RefuseTransfer, Log, userVars
<1>1. CASE StartRun(a)
  BY <1>1 DEF StartRun
<1>2. CASE EndRun(a)
  BY <1>2 DEF EndRun
<1>3. CASE Walk(a)
  BY <1>3 DEF Walk
<1>4. CASE WalkFails(a)
  BY <1>4 DEF WalkFails
<1>5. CASE PushDone(a)
  BY <1>5 DEF PushDone
<1>6. CASE PushFails(a)
  BY <1>6 DEF PushFails
<1>7. CASE EndPush(a)
  BY <1>7 DEF EndPush
<1>8. CASE ListRemote(a)
  BY <1>8 DEF ListRemote
<1>9. CASE ListFails(a)
  BY <1>9 DEF ListFails
<1>10. CASE PullDone(a)
  BY <1>10 DEF PullDone
<1>11. CASE PullFails(a)
  BY <1>11 DEF PullFails
<1>12. CASE EndPull(a)
  BY <1>12 DEF EndPull
<1>13. CASE Crash(a)
  <2>1. CASE UNCHANGED <<local, remote>>
    BY <1>13, <2>1 DEF Crash
  <2>2. CASE /\ pc[a] = "pushing"
             /\ remote' = [remote EXCEPT ![file[a]] = buf[a]]
             /\ UNCHANGED local
    BY <1>13, <2>2 DEF Crash
  <2>3. CASE /\ pc[a] = "pulling"
             /\ local' = [local EXCEPT ![Here(a)][file[a]] = buf[a]]
             /\ UNCHANGED remote
    BY <1>13, <2>3 DEF Crash
  <2> QED BY <1>13, <2>1, <2>2, <2>3 DEF Crash
<1>14. ASSUME NEW c \in Config, TakeConfig(a, c) PROVE Provenance'
  BY <1>14 DEF TakeConfig
<1>15. ASSUME NEW c \in Config, SkipConfig(a, c) PROVE Provenance'
  BY <1>15 DEF SkipConfig
<1>16. ASSUME NEW f \in Path, PushBegin(a, f) PROVE Provenance'
  BY <1>16 DEF PushBegin
<1>17. ASSUME NEW f \in Path, PushMissing(a, f) PROVE Provenance'
  BY <1>17 DEF PushMissing
<1>18. ASSUME NEW f \in Path, PushRefused(a, f) PROVE Provenance'
  BY <1>18 DEF PushRefused
<1>19. ASSUME NEW f \in Path, PullBegin(a, f) PROVE Provenance'
  BY <1>19 DEF PullBegin
<1>20. ASSUME NEW f \in Path, PullRefused(a, f) PROVE Provenance'
  BY <1>20 DEF PullRefused
<1> QED BY ActorSteps, <1>1, <1>2, <1>3, <1>4, <1>5, <1>6, <1>7, <1>8, <1>9,
           <1>10, <1>11, <1>12, <1>13, <1>14, <1>15, <1>16, <1>17, <1>18,
           <1>19, <1>20

LEMMA ProvenanceStep ==
  TypeOK /\ PhaseInv /\ Provenance /\ [Next]_vars => Provenance'
<1> SUFFICES ASSUME TypeOK, PhaseInv, Provenance, [Next]_vars
             PROVE  Provenance'
  OBVIOUS
<1>1. CASE UserStep
  BY <1>1, UserProvenance DEF UserStep
<1>2. ASSUME NEW a \in Actor, StartRun(a) \/ Advance(a) \/ Break(a)
      PROVE  Provenance'
  BY <1>2, ActorProvenance
<1>3. CASE UNCHANGED vars
  BY <1>3 DEF vars, Provenance, Genuine
<1> QED BY <1>1, <1>2, <1>3 DEF Next

\* Whatever actors, configs, failures and crashes there are, no whole file ever
\* turns up under a path it was not saved under.
THEOREM ContentIsGenuine == Spec => []Provenance
<1>1. Init => Provenance
  BY DEF Init, Provenance, Genuine
<1> QED BY <1>1, ProvenanceStep, TypeCorrect, PTL DEF Spec

-----------------------------------------------------------------------------
(* The journal                                                             *)

LEMMA OtherActors ==
  ASSUME TypeOK, NEW a \in Actor, Advance(a) \/ Break(a) \/ StartRun(a),
         NEW b \in Actor, b # a
  PROVE  /\ journal'[b] = journal[b] /\ listed'[b] = listed[b]
         /\ todo'[b] = todo[b] /\ file'[b] = file[b] /\ buf'[b] = buf[b]
         /\ pc'[b] = pc[b] /\ cfg'[b] = cfg[b]
<1> USE DEF TypeOK, Goto, BeginLoop, EndLoop, BeginTransfer, EndTransfer,
            RefuseTransfer, Log
<1>1. CASE StartRun(a) \/ EndRun(a) \/ Crash(a)
  BY <1>1 DEF StartRun, EndRun, Crash
<1>2. CASE \E c \in Config : TakeConfig(a, c) \/ SkipConfig(a, c)
  BY <1>2 DEF TakeConfig, SkipConfig
<1>3. CASE Walk(a) \/ WalkFails(a) \/ PushDone(a) \/ PushFails(a) \/ EndPush(a)
  BY <1>3 DEF Walk, WalkFails, PushDone, PushFails, EndPush
<1>4. CASE ListRemote(a) \/ ListFails(a) \/ PullDone(a) \/ PullFails(a) \/ EndPull(a)
  BY <1>4 DEF ListRemote, ListFails, PullDone, PullFails, EndPull
<1>5. CASE \E f \in Path : \/ PushBegin(a, f) \/ PushMissing(a, f)
                           \/ PushRefused(a, f)
                           \/ PullBegin(a, f) \/ PullRefused(a, f)
  BY <1>5 DEF PushBegin, PushMissing, PushRefused, PullBegin, PullRefused
<1> QED BY ActorSteps, <1>1, <1>2, <1>3, <1>4, <1>5

\* Journaling a file that was in flight or still to come keeps the account.
LEMMA JournalRow ==
  ASSUME TypeOK, NEW a \in Actor, AccountedFor(a),
         NEW f \in todo[a] \cup InFlight(a),
         \E st \in Outcome : journal'[a] = journal[a] \cup {<<f, st>>},
         listed'[a] = listed[a],
         InFlight(a)' \cup todo'[a] = (InFlight(a) \cup todo[a]) \ {f},
         InFlight(a)' \cap todo'[a] = {}
  PROVE  AccountedFor(a)'
<1> PICK st \in Outcome : journal'[a] = journal[a] \cup {<<f, st>>}
  OBVIOUS
<1>1. Tried(a)' = Tried(a) \cup {f}
  <2>1. Tried(a)' = {r[1] : r \in journal[a] \cup {<<f, st>>}}
    BY DEF Tried
  <2>2. <<f, st>>[1] = f
    OBVIOUS
  <2> QED BY <2>1, <2>2 DEF Tried
<1>2. f \notin Tried(a)
  BY DEF AccountedFor
<1>3. \A r \in journal[a] : r[1] # f
  BY <1>2 DEF Tried
<1>4. \A r, s \in journal'[a] : r[1] = s[1] => r = s
  BY <1>3 DEF AccountedFor
<1> QED BY <1>1, <1>2, <1>4 DEF AccountedFor

LEMMA ActorJournal ==
  ASSUME TypeOK, PhaseInv, NEW a \in Actor, AccountedFor(a),
         Advance(a) \/ Break(a) \/ StartRun(a)
  PROVE  AccountedFor(a)'
<1>0. /\ pc[a] \in {"pushing", "pulling"} <=> file[a] # NoPath
      /\ {"ok", "error", "lost"} \subseteq Outcome
  BY DEF PhaseInv, Outcome
<1> USE <1>0, TopologyAssumption DEF TypeOK
<1> USE DEF Goto, BeginLoop, EndLoop, BeginTransfer, EndTransfer,
            RefuseTransfer, Log, userVars
<1>1. CASE StartRun(a)
  BY <1>1 DEF StartRun, AccountedFor, Tried, InFlight
<1>2. CASE EndRun(a)
  BY <1>2 DEF EndRun, AccountedFor, Tried, InFlight
<1>3. CASE Walk(a)
  BY <1>3 DEF Walk, AccountedFor, Tried, InFlight
<1>4. CASE WalkFails(a)
  BY <1>4 DEF WalkFails, AccountedFor, Tried, InFlight
<1>5. CASE PushDone(a)
  <2>1. /\ \E st \in Outcome : journal'[a] = journal[a] \cup {<<file[a], st>>}
        /\ file[a] \in InFlight(a)
        /\ listed'[a] = listed[a]
        /\ InFlight(a)' = {} /\ todo'[a] = todo[a]
        /\ InFlight(a) = {file[a]}
    BY <1>5 DEF PushDone, InFlight
  <2>2. file[a] \notin todo[a]
    BY <2>1 DEF AccountedFor
  <2>3. InFlight(a)' \cup todo'[a] = (InFlight(a) \cup todo[a]) \ {file[a]}
    BY <2>1, <2>2
  <2>4. InFlight(a)' \cap todo'[a] = {} /\ file[a] \in todo[a] \cup InFlight(a)
    BY <2>1
  <2> QED BY <2>1, <2>3, <2>4, JournalRow
<1>6. CASE PushFails(a)
  <2>1. /\ \E st \in Outcome : journal'[a] = journal[a] \cup {<<file[a], st>>}
        /\ file[a] \in InFlight(a)
        /\ listed'[a] = listed[a]
        /\ InFlight(a)' = {} /\ todo'[a] = todo[a]
        /\ InFlight(a) = {file[a]}
    <3>1. /\ EndTransfer(a, "push", "error") /\ pc[a] = "pushing"
          /\ listed' = listed /\ todo' = todo
      BY <1>6 DEF PushFails
    <3> QED BY <3>1 DEF InFlight
  <2>2. file[a] \notin todo[a]
    BY <2>1 DEF AccountedFor
  <2>3. InFlight(a)' \cup todo'[a] = (InFlight(a) \cup todo[a]) \ {file[a]}
    BY <2>1, <2>2
  <2>4. InFlight(a)' \cap todo'[a] = {} /\ file[a] \in todo[a] \cup InFlight(a)
    BY <2>1
  <2> QED BY <2>1, <2>3, <2>4, JournalRow
<1>7. CASE EndPush(a)
  BY <1>7 DEF EndPush, AccountedFor, Tried, InFlight
<1>8. CASE ListRemote(a)
  BY <1>8 DEF ListRemote, AccountedFor, Tried, InFlight
<1>9. CASE ListFails(a)
  BY <1>9 DEF ListFails, AccountedFor, Tried, InFlight
<1>10. CASE PullDone(a)
  <2>1. /\ \E st \in Outcome : journal'[a] = journal[a] \cup {<<file[a], st>>}
        /\ file[a] \in InFlight(a)
        /\ listed'[a] = listed[a]
        /\ InFlight(a)' = {} /\ todo'[a] = todo[a]
        /\ InFlight(a) = {file[a]}
    BY <1>10 DEF PullDone, InFlight
  <2>2. file[a] \notin todo[a]
    BY <2>1 DEF AccountedFor
  <2>3. InFlight(a)' \cup todo'[a] = (InFlight(a) \cup todo[a]) \ {file[a]}
    BY <2>1, <2>2
  <2>4. InFlight(a)' \cap todo'[a] = {} /\ file[a] \in todo[a] \cup InFlight(a)
    BY <2>1
  <2> QED BY <2>1, <2>3, <2>4, JournalRow
<1>11. CASE PullFails(a)
  <2>1. /\ \E st \in Outcome : journal'[a] = journal[a] \cup {<<file[a], st>>}
        /\ file[a] \in InFlight(a)
        /\ listed'[a] = listed[a]
        /\ InFlight(a)' = {} /\ todo'[a] = todo[a]
        /\ InFlight(a) = {file[a]}
    BY <1>11 DEF PullFails, InFlight
  <2>2. file[a] \notin todo[a]
    BY <2>1 DEF AccountedFor
  <2>3. InFlight(a)' \cup todo'[a] = (InFlight(a) \cup todo[a]) \ {file[a]}
    BY <2>1, <2>2
  <2>4. InFlight(a)' \cap todo'[a] = {} /\ file[a] \in todo[a] \cup InFlight(a)
    BY <2>1
  <2> QED BY <2>1, <2>3, <2>4, JournalRow
<1>12. CASE EndPull(a)
  BY <1>12 DEF EndPull, AccountedFor, Tried, InFlight
<1>13. CASE Crash(a)
  BY <1>13 DEF Crash, AccountedFor, Tried, InFlight
<1>14. ASSUME NEW c \in Config, TakeConfig(a, c) PROVE AccountedFor(a)'
  BY <1>14 DEF TakeConfig, AccountedFor, Tried, InFlight
<1>15. ASSUME NEW c \in Config, SkipConfig(a, c) PROVE AccountedFor(a)'
  BY <1>15 DEF SkipConfig, AccountedFor, Tried, InFlight
<1>16. ASSUME NEW f \in Path, PushBegin(a, f) PROVE AccountedFor(a)'
  BY <1>16 DEF PushBegin, AccountedFor, Tried, InFlight
<1>17. ASSUME NEW f \in Path, PushMissing(a, f) PROVE AccountedFor(a)'
  <2>1. /\ f \in todo[a] /\ InFlight(a) = {} /\ InFlight(a)' = {}
        /\ \E st \in Outcome : journal'[a] = journal[a] \cup {<<f, st>>}
        /\ listed'[a] = listed[a]
        /\ todo'[a] = todo[a] \ {f}
    BY <1>17 DEF PushMissing, InFlight
  <2> QED BY <2>1, JournalRow
<1>18. ASSUME NEW f \in Path, PushRefused(a, f) PROVE AccountedFor(a)'
  <2>1. /\ f \in todo[a] /\ InFlight(a) = {} /\ InFlight(a)' = {}
        /\ \E st \in Outcome : journal'[a] = journal[a] \cup {<<f, st>>}
        /\ listed'[a] = listed[a]
        /\ todo'[a] = todo[a] \ {f}
    BY <1>18 DEF PushRefused, InFlight
  <2> QED BY <2>1, JournalRow
<1>19. ASSUME NEW f \in Path, PullBegin(a, f) PROVE AccountedFor(a)'
  BY <1>19 DEF PullBegin, AccountedFor, Tried, InFlight
<1>20. ASSUME NEW f \in Path, PullRefused(a, f) PROVE AccountedFor(a)'
  <2>1. /\ f \in todo[a] /\ InFlight(a) = {} /\ InFlight(a)' = {}
        /\ \E st \in Outcome : journal'[a] = journal[a] \cup {<<f, st>>}
        /\ listed'[a] = listed[a]
        /\ todo'[a] = todo[a] \ {f}
    BY <1>20 DEF PullRefused, InFlight
  <2> QED BY <2>1, JournalRow
<1> QED BY ActorSteps, <1>1, <1>2, <1>3, <1>4, <1>5, <1>6, <1>7, <1>8, <1>9,
           <1>10, <1>11, <1>12, <1>13, <1>14, <1>15, <1>16, <1>17, <1>18,
           <1>19, <1>20

LEMMA JournalStep ==
  TypeOK /\ PhaseInv /\ EveryListedFileTried /\ [Next]_vars
    => EveryListedFileTried'
<1> SUFFICES ASSUME TypeOK, PhaseInv, EveryListedFileTried, [Next]_vars
             PROVE  EveryListedFileTried'
  OBVIOUS
<1> USE DEF EveryListedFileTried
<1>1. CASE UserStep
  BY <1>1 DEF UserStep, Save, Delete, actorVars, AccountedFor, Tried, InFlight
<1>2. ASSUME NEW a \in Actor, StartRun(a) \/ Advance(a) \/ Break(a)
      PROVE  EveryListedFileTried'
  <2>1. AccountedFor(a)'
    BY <1>2, ActorJournal
  <2>2. ASSUME NEW b \in Actor, b # a PROVE AccountedFor(b)'
    BY <1>2, <2>2, OtherActors DEF AccountedFor, Tried, InFlight
  <2> QED BY <2>1, <2>2
<1>3. CASE UNCHANGED vars
  BY <1>3 DEF vars, AccountedFor, Tried, InFlight
<1> QED BY <1>1, <1>2, <1>3 DEF Next

\* At every moment of a transfer loop, each listed file was tried once, is in flight
\* or still to come: no error, and no row that the journal loses, makes the engine
\* skip a file or try one twice.
THEOREM NoFileIsSkipped == Spec => []EveryListedFileTried
<1>1. Init => EveryListedFileTried
  BY DEF Init, EveryListedFileTried, AccountedFor, Tried, InFlight
<1> QED BY <1>1, JournalStep, TypeCorrect, PTL DEF Spec

\* How an actor leaves a transfer loop, unless it is killed.
LEMMA LeavesLoop ==
  ASSUME TypeOK, NEW a \in Actor, Advance(a) \/ Break(a) \/ StartRun(a),
         pc[a] \in {"push", "pull"}, pc'[a] \in {"next", "list"}
  PROVE  EndPush(a) \/ EndPull(a)
<1> USE DEF TypeOK, Goto, EndLoop, BeginTransfer
<1>1. ~StartRun(a) /\ ~EndRun(a) /\ ~Crash(a)
  BY DEF StartRun, EndRun, Crash
<1>2. \A c \in Config : ~TakeConfig(a, c) /\ ~SkipConfig(a, c)
  BY DEF TakeConfig, SkipConfig
<1>3. ~Walk(a) /\ ~WalkFails(a) /\ ~ListRemote(a) /\ ~ListFails(a)
  BY DEF Walk, WalkFails, ListRemote, ListFails
<1>4. ~PushDone(a) /\ ~PushFails(a) /\ ~PullDone(a) /\ ~PullFails(a)
  BY DEF PushDone, PushFails, PullDone, PullFails
<1>5. \A f \in Path : ~PushBegin(a, f) /\ ~PushMissing(a, f) /\ ~PullBegin(a, f)
  BY DEF PushBegin, PushMissing, PullBegin
<1>6. \A f \in Path : ~PushRefused(a, f) /\ ~PullRefused(a, f)
  BY DEF PushRefused, PullRefused
<1> QED BY ActorSteps, <1>1, <1>2, <1>3, <1>4, <1>5, <1>6

\* A transfer loop that was not killed has tried every file it listed.
THEOREM LoopsAlwaysRunToTheEnd == Spec => LoopsRunToTheEnd
<1>1. ASSUME TypeOK, PhaseInv, EveryListedFileTried, [Next]_vars, NEW a \in Actor,
             pc[a] \in {"push", "pull"}, pc'[a] \in {"next", "list"}
      PROVE  Tried(a) = listed[a]
  <2>1. PICK b \in Actor : StartRun(b) \/ Advance(b) \/ Break(b)
    BY <1>1 DEF Next, UserStep, Save, Delete, actorVars, vars
  <2>2. b = a
    BY <1>1, <2>1, OtherActors
  <2>3. todo[a] = {}
    BY <1>1, <2>1, <2>2, LeavesLoop DEF EndPush, EndPull
  <2>4. InFlight(a) = {}
    BY <1>1 DEF PhaseInv, InFlight
  <2> QED BY <1>1, <2>3, <2>4 DEF EveryListedFileTried, AccountedFor
<1>2. TypeOK /\ PhaseInv /\ EveryListedFileTried /\ [Next]_vars
        => [\A a \in Actor :
              pc[a] \in {"push", "pull"} /\ pc'[a] \in {"next", "list"}
                => Tried(a) = listed[a]]_vars
  BY <1>1
<1> QED BY <1>2, TypeCorrect, NoFileIsSkipped, PTL DEF Spec, LoopsRunToTheEnd

-----------------------------------------------------------------------------
(* Torn files                                                              *)

\* TornInv, and what the theorem below is about.
IntactInv == TornInv /\ RemoteIntact

LEMMA UserTorn ==
  ASSUME TypeOK, IntactInv, NEW d \in Edited, NEW f \in Path,
         Save(d, f) \/ Delete(d, f)
  PROVE  IntactInv'
<1> d \in Folder
  BY TopologyAssumption
<1> USE TopologyAssumption DEF TypeOK, IntactInv, TornInv, RemoteIntact, Torn, NoFile
<1>1. CASE Save(d, f)
  BY <1>1 DEF Save, actorVars
<1>2. CASE Delete(d, f)
  BY <1>2 DEF Delete, actorVars
<1> QED BY <1>1, <1>2

LEMMA ActorTorn ==
  ASSUME OneWayFiles, StreamPush = FALSE, TypeOK, PhaseInv, FilterInv, IntactInv,
         NEW a \in Actor, Advance(a) \/ Break(a) \/ StartRun(a)
  PROVE  IntactInv'
<1>0. /\ pc[a] \notin {"idle", "next"} => cfg[a] \in Config /\ Here(a) \in Folder
      /\ pc[a] \in {"pushing", "pulling"} => file[a] \in Path
  BY AtWork
\* What the actor is about to upload is whole.
<1>a. pc[a] = "push" => \A f \in todo[a] : local[Here(a)][f] # Torn
  BY <1>0 DEF PhaseInv, FilterInv, IntactInv, TornInv, Here
\* What it downloads is nothing that a config pushes from that folder.
<1>b. \A c \in Config : Direction[c] # "pull" /\ FolderOf[c] = Here(a) =>
        /\ pc[a] = "pull" => todo[a] \cap SendFilter[c] = {}
        /\ pc[a] = "pulling" => file[a] \notin SendFilter[c]
  <2> SUFFICES ASSUME NEW c \in Config, Direction[c] # "pull", FolderOf[c] = Here(a),
                      pc[a] \in {"pull", "pulling"}
               PROVE  (todo[a] \cup InFlight(a)) \cap SendFilter[c] = {}
    BY <1>0, TopologyAssumption DEF InFlight
  <2>1. cfg[a] \in Config /\ Direction[cfg[a]] # "push"
    BY <1>0 DEF PhaseInv
  <2> QED BY <2>1 DEF OneWayFiles, FilterInv, Here
<1> USE <1>0, <1>a, <1>b, TopologyAssumption
    DEF TypeOK, IntactInv, TornInv, RemoteIntact, Torn, NoFile
<1> USE DEF Goto, BeginLoop, EndLoop, BeginTransfer, EndTransfer,
            RefuseTransfer, Log, userVars
<1>1. CASE StartRun(a)
  BY <1>1 DEF StartRun
<1>2. CASE EndRun(a)
  BY <1>2 DEF EndRun
<1>3. CASE Walk(a)
  BY <1>3 DEF Walk
<1>4. CASE WalkFails(a)
  BY <1>4 DEF WalkFails
<1>5. CASE PushDone(a)
  BY <1>5 DEF PushDone
<1>6. CASE PushFails(a)
  BY <1>6 DEF PushFails
<1>7. CASE EndPush(a)
  BY <1>7 DEF EndPush
<1>8. CASE ListRemote(a)
  BY <1>8 DEF ListRemote
<1>9. CASE ListFails(a)
  BY <1>9 DEF ListFails
<1>10. CASE PullDone(a)
  BY <1>10 DEF PullDone
<1>11. CASE PullFails(a)
  BY <1>11 DEF PullFails
<1>12. CASE EndPull(a)
  BY <1>12 DEF EndPull
<1>13. CASE Crash(a)
  <2>1. CASE UNCHANGED <<local, remote>>
    BY <1>13, <2>1 DEF Crash
  <2>2. CASE /\ pc[a] = "pushing"
             /\ remote' = [remote EXCEPT ![file[a]] = buf[a]]
             /\ UNCHANGED local
    BY <1>13, <2>2 DEF Crash
  <2>3. CASE /\ pc[a] = "pulling"
             /\ local' = [local EXCEPT ![Here(a)][file[a]] = buf[a]]
             /\ UNCHANGED remote
    BY <1>13, <2>3 DEF Crash
  <2> QED BY <1>13, <2>1, <2>2, <2>3 DEF Crash
<1>14. ASSUME NEW c \in Config, TakeConfig(a, c) PROVE IntactInv'
  BY <1>14 DEF TakeConfig
<1>15. ASSUME NEW c \in Config, SkipConfig(a, c) PROVE IntactInv'
  BY <1>15 DEF SkipConfig
<1>16. ASSUME NEW f \in Path, PushBegin(a, f) PROVE IntactInv'
  BY <1>16 DEF PushBegin
<1>17. ASSUME NEW f \in Path, PushMissing(a, f) PROVE IntactInv'
  BY <1>17 DEF PushMissing
<1>18. ASSUME NEW f \in Path, PushRefused(a, f) PROVE IntactInv'
  BY <1>18 DEF PushRefused
<1>19. ASSUME NEW f \in Path, PullBegin(a, f) PROVE IntactInv'
  BY <1>19 DEF PullBegin
<1>20. ASSUME NEW f \in Path, PullRefused(a, f) PROVE IntactInv'
  BY <1>20 DEF PullRefused
<1> QED BY ActorSteps, <1>1, <1>2, <1>3, <1>4, <1>5, <1>6, <1>7, <1>8, <1>9,
           <1>10, <1>11, <1>12, <1>13, <1>14, <1>15, <1>16, <1>17, <1>18,
           <1>19, <1>20

LEMMA TornStep ==
  ASSUME OneWayFiles, StreamPush = FALSE
  PROVE  TypeOK /\ PhaseInv /\ FilterInv /\ IntactInv /\ [Next]_vars => IntactInv'
<1> SUFFICES ASSUME TypeOK, PhaseInv, FilterInv, IntactInv, [Next]_vars
             PROVE  IntactInv'
  OBVIOUS
<1>1. CASE UserStep
  BY <1>1, UserTorn DEF UserStep
<1>2. ASSUME NEW a \in Actor, StartRun(a) \/ Advance(a) \/ Break(a)
      PROVE  IntactInv'
  BY <1>2, ActorTorn
<1>3. CASE UNCHANGED vars
  BY <1>3 DEF vars, IntactInv, TornInv, RemoteIntact
<1> QED BY <1>1, <1>2, <1>3 DEF Next

\* Where no file is both pulled into a folder and pushed from it, and uploads are
\* atomic, no interrupted download ever reaches the store, whoever syncs
\* concurrently, also when the configs themselves go both ways.
THEOREM StoreStaysIntact ==
  ASSUME OneWayFiles, StreamPush = FALSE
  PROVE  Spec => []RemoteIntact
<1>1. Init => IntactInv
  BY TopologyAssumption DEF Init, IntactInv, TornInv, RemoteIntact, Torn, NoFile
<1>2. IntactInv => RemoteIntact
  BY DEF IntactInv
<1> QED BY <1>1, <1>2, TornStep, TypeCorrect, FiltersAreKept, PTL DEF Spec

-----------------------------------------------------------------------------
(* One writer of each file                                                 *)

LEMMA UserOwner ==
  ASSUME NEW f \in Path, NEW p, NEW k, Owner(p, k, f),
         TypeOK, PhaseInv, OwnerInv(p, k, f),
         NEW d \in Edited, NEW g \in Path, Save(d, g) \/ Delete(d, g)
  PROVE  OwnerInv(p, k, f)'
<1> d \in Folder /\ p \in Actor /\ k \in Config /\ FolderOf[k] \in Folder
  BY TopologyAssumption DEF Owner
<1>1. \/ local[FolderOf[k]]'[f] = local[FolderOf[k]][f]
      \/ local[FolderOf[k]]'[f] = edits'
      \/ local[FolderOf[k]]'[f] = NoFile
  <2>1. local \in [Folder -> [Path -> Content]]
    BY DEF TypeOK
  <2>2. CASE Save(d, g)
    BY <2>1, <2>2 DEF Save
  <2>3. CASE Delete(d, g)
    BY <2>1, <2>3 DEF Delete
  <2> QED BY <2>2, <2>3
<1>2. /\ edits' = edits + 1 /\ edits \in Nat
      /\ remote' = remote /\ acked' = acked
      /\ pc' = pc /\ file' = file /\ buf' = buf
  BY BoundAssumption DEF Save, Delete, actorVars, TypeOK
<1>3. /\ remote[f] \in Int /\ acked[f] \in Int /\ buf[p] \in Int
      /\ local[FolderOf[k]][f] \in Int
  BY BoundAssumption DEF TypeOK, Content, Version, Torn, NoFile
<1> QED BY <1>1, <1>2, <1>3 DEF OwnerInv, Torn, NoFile

LEMMA ActorOwner ==
  ASSUME NEW f \in Path, NEW p, NEW k, Owner(p, k, f), StreamPush = FALSE,
         TypeOK, PhaseInv, FilterInv, OwnerInv(p, k, f),
         NEW a \in Actor, Advance(a) \/ Break(a) \/ StartRun(a)
  PROVE  OwnerInv(p, k, f)'
<1> p \in Actor /\ k \in Config /\ FolderOf[k] \in Folder
  BY TopologyAssumption DEF Owner
<1>0. /\ pc[a] \notin {"idle", "next"} => Here(a) \in Folder
      /\ pc[a] \in {"pushing", "pulling"} => file[a] \in Path
  BY AtWork
\* Only p pushes f, from the folder of k, and downloads of f go elsewhere.
<1>a. /\ pc[a] = "push" /\ f \in todo[a] => a = p /\ Here(a) = FolderOf[k]
      /\ pc[a] = "pushing" /\ file[a] = f => a = p /\ Here(a) = FolderOf[k]
      /\ pc[a] = "pull" /\ f \in todo[a] => Here(a) # FolderOf[k]
      /\ pc[a] = "pulling" /\ file[a] = f => Here(a) # FolderOf[k]
  BY AtWork DEF PhaseInv, FilterInv, InFlight, Owner, Here
<1> USE <1>0, <1>a, BoundAssumption
    DEF TypeOK, OwnerInv, Torn, NoFile, Content, Version
<1> USE DEF Goto, BeginLoop, EndLoop, BeginTransfer, EndTransfer,
            RefuseTransfer, Log, userVars
<1>1. CASE StartRun(a)
  BY <1>1 DEF StartRun
<1>2. CASE EndRun(a)
  BY <1>2 DEF EndRun
<1>3. CASE Walk(a)
  BY <1>3 DEF Walk
<1>4. CASE WalkFails(a)
  BY <1>4 DEF WalkFails
<1>5. CASE PushDone(a)
  BY <1>5 DEF PushDone
<1>6. CASE PushFails(a)
  BY <1>6 DEF PushFails
<1>7. CASE EndPush(a)
  BY <1>7 DEF EndPush
<1>8. CASE ListRemote(a)
  BY <1>8 DEF ListRemote
<1>9. CASE ListFails(a)
  BY <1>9 DEF ListFails
<1>10. CASE PullDone(a)
  BY <1>10 DEF PullDone
<1>11. CASE PullFails(a)
  BY <1>11 DEF PullFails
<1>12. CASE EndPull(a)
  BY <1>12 DEF EndPull
<1>13. CASE Crash(a)
  <2>1. CASE UNCHANGED <<local, remote>>
    BY <1>13, <2>1 DEF Crash
  <2>2. CASE /\ pc[a] = "pushing"
             /\ remote' = [remote EXCEPT ![file[a]] = buf[a]]
             /\ UNCHANGED local
    BY <1>13, <2>2 DEF Crash
  <2>3. CASE /\ pc[a] = "pulling"
             /\ local' = [local EXCEPT ![Here(a)][file[a]] = buf[a]]
             /\ UNCHANGED remote
    BY <1>13, <2>3 DEF Crash
  <2> QED BY <1>13, <2>1, <2>2, <2>3 DEF Crash
<1>14. ASSUME NEW c \in Config, TakeConfig(a, c) PROVE OwnerInv(p, k, f)'
  BY <1>14 DEF TakeConfig
<1>15. ASSUME NEW c \in Config, SkipConfig(a, c) PROVE OwnerInv(p, k, f)'
  BY <1>15 DEF SkipConfig
<1>16. ASSUME NEW g \in Path, PushBegin(a, g) PROVE OwnerInv(p, k, f)'
  BY <1>16 DEF PushBegin
<1>17. ASSUME NEW g \in Path, PushMissing(a, g) PROVE OwnerInv(p, k, f)'
  BY <1>17 DEF PushMissing
<1>18. ASSUME NEW g \in Path, PushRefused(a, g) PROVE OwnerInv(p, k, f)'
  BY <1>18 DEF PushRefused
<1>19. ASSUME NEW g \in Path, PullBegin(a, g) PROVE OwnerInv(p, k, f)'
  BY <1>19 DEF PullBegin
<1>20. ASSUME NEW g \in Path, PullRefused(a, g) PROVE OwnerInv(p, k, f)'
  BY <1>20 DEF PullRefused
<1> QED BY ActorSteps, <1>1, <1>2, <1>3, <1>4, <1>5, <1>6, <1>7, <1>8, <1>9,
           <1>10, <1>11, <1>12, <1>13, <1>14, <1>15, <1>16, <1>17, <1>18,
           <1>19, <1>20

\* Every file has what its owner owes it.
OwnersInv ==
  \A f \in Path, p \in Actor, k \in Config : Owner(p, k, f) => OwnerInv(p, k, f)

LEMMA OwnersStep ==
  ASSUME StreamPush = FALSE
  PROVE  TypeOK /\ PhaseInv /\ FilterInv /\ OwnersInv /\ [Next]_vars => OwnersInv'
<1> SUFFICES ASSUME TypeOK, PhaseInv, FilterInv, OwnersInv, [Next]_vars,
                    NEW f \in Path, NEW p \in Actor, NEW k \in Config, Owner(p, k, f)
             PROVE  OwnerInv(p, k, f)'
  BY DEF OwnersInv, Owner
<1>0. OwnerInv(p, k, f)
  BY DEF OwnersInv
<1>1. CASE UserStep
  BY <1>0, <1>1, UserOwner DEF UserStep
<1>2. ASSUME NEW a \in Actor, StartRun(a) \/ Advance(a) \/ Break(a)
      PROVE  OwnerInv(p, k, f)'
  BY <1>0, <1>2, ActorOwner
<1>3. CASE UNCHANGED vars
  BY <1>0, <1>3 DEF vars, OwnerInv
<1> QED BY <1>1, <1>2, <1>3 DEF Next

LEMMA OwnersHold ==
  ASSUME StreamPush = FALSE
  PROVE  Spec => []OwnersInv
<1>1. Init => OwnersInv
  BY TopologyAssumption DEF Init, OwnersInv, Owner, OwnerInv, Torn, NoFile
<1> QED BY <1>1, OwnersStep, TypeCorrect, FiltersAreKept, PTL DEF Spec

\* Where each file is written to the store by one config of one actor, with atomic
\* uploads, and never pulled into that config's folder, the store keeps whatever
\* was pushed without error: RunOnce and push of any actor may be killed or
\* fail anywhere, and machines may pull each other's files at any time.
THEOREM AckedStays ==
  ASSUME OneWriterEach, StreamPush = FALSE
  PROVE  Spec => []AckedPushIsStored
<1>1. OwnersInv /\ TypeOK => AckedPushIsStored
  BY BoundAssumption
  DEF OneWriterEach, OwnersInv, OwnerInv, AckedPushIsStored, TypeOK, Content,
      Version, Torn, NoFile
<1> QED BY <1>1, OwnersHold, TypeCorrect, PTL

-----------------------------------------------------------------------------
(* The promise of a backup                                                 *)

\* What a step of an actor does to the store and to its acknowledgements.
LEMMA StoreStep ==
  ASSUME StreamPush = FALSE, NEW a \in Actor, Advance(a) \/ Break(a) \/ StartRun(a)
  PROVE  /\ saved' = saved
         /\ \/ remote' = remote /\ acked' = acked
            \/ /\ pc[a] = "pushing"
               /\ remote' = [remote EXCEPT ![file[a]] = buf[a]]
               /\ \/ acked' = acked
                  \/ acked' = [acked EXCEPT ![file[a]] =
                                 IF buf[a] > @ THEN buf[a] ELSE @]
<1> DEFINE Goal ==
         /\ saved' = saved
         /\ \/ remote' = remote /\ acked' = acked
            \/ /\ pc[a] = "pushing"
               /\ remote' = [remote EXCEPT ![file[a]] = buf[a]]
               /\ \/ acked' = acked
                  \/ acked' = [acked EXCEPT ![file[a]] =
                                 IF buf[a] > @ THEN buf[a] ELSE @]
<1> SUFFICES Goal
  OBVIOUS
<1> USE DEF userVars
<1>1. CASE StartRun(a)
  BY <1>1 DEF StartRun
<1>2. CASE EndRun(a)
  BY <1>2 DEF EndRun
<1>3. CASE Walk(a)
  BY <1>3 DEF Walk
<1>4. CASE WalkFails(a)
  BY <1>4 DEF WalkFails
<1>5. CASE PushDone(a)
  BY <1>5 DEF PushDone
<1>6. CASE PushFails(a)
  BY <1>6 DEF PushFails
<1>7. CASE EndPush(a)
  BY <1>7 DEF EndPush
<1>8. CASE ListRemote(a)
  BY <1>8 DEF ListRemote
<1>9. CASE ListFails(a)
  BY <1>9 DEF ListFails
<1>10. CASE PullDone(a)
  BY <1>10 DEF PullDone
<1>11. CASE PullFails(a)
  BY <1>11 DEF PullFails
<1>12. CASE EndPull(a)
  BY <1>12 DEF EndPull
<1>13. CASE Crash(a)
  BY <1>13 DEF Crash
<1>14. ASSUME NEW c \in Config, TakeConfig(a, c) PROVE Goal
  BY <1>14 DEF TakeConfig
<1>15. ASSUME NEW c \in Config, SkipConfig(a, c) PROVE Goal
  BY <1>15 DEF SkipConfig
<1>16. ASSUME NEW f \in Path, PushBegin(a, f) PROVE Goal
  BY <1>16 DEF PushBegin
<1>17. ASSUME NEW f \in Path, PushMissing(a, f) PROVE Goal
  BY <1>17 DEF PushMissing
<1>18. ASSUME NEW f \in Path, PushRefused(a, f) PROVE Goal
  BY <1>18 DEF PushRefused
<1>19. ASSUME NEW f \in Path, PullBegin(a, f) PROVE Goal
  BY <1>19 DEF PullBegin
<1>20. ASSUME NEW f \in Path, PullRefused(a, f) PROVE Goal
  BY <1>20 DEF PullRefused
<1> QED BY ActorSteps, <1>1, <1>2, <1>3, <1>4, <1>5, <1>6, <1>7, <1>8, <1>9,
           <1>10, <1>11, <1>12, <1>13, <1>14, <1>15, <1>16, <1>17, <1>18,
           <1>19, <1>20

LEMMA PromiseStep ==
  ASSUME OneWriterEach, StreamPush = FALSE
  PROVE  TypeOK /\ PhaseInv /\ FilterInv /\ Provenance /\ OwnersInv /\ [Next]_vars
           => [Promise!Next]_(Promise!vars)
<1> SUFFICES ASSUME TypeOK, PhaseInv, FilterInv, Provenance, OwnersInv, [Next]_vars
             PROVE  Promise!Next \/ UNCHANGED <<saved, remote, acked>>
  BY DEF Promise!vars
<1>1. ASSUME NEW d \in Edited, NEW f \in Path, Save(d, f)
      PROVE  Promise!Next
  <2>1. edits + 1 \in Promise!Version
    BY <1>1, BoundAssumption DEF Save, MayEdit, TypeOK, Promise!Version
  <2>2. Promise!Save(f, edits + 1)
    BY <1>1 DEF Save, Promise!Save
  <2> QED BY <2>1, <2>2 DEF Promise!Next
<1>2. ASSUME NEW d \in Edited, NEW f \in Path, Delete(d, f)
      PROVE  UNCHANGED <<saved, remote, acked>>
  BY <1>2 DEF Delete
<1>3. ASSUME NEW a \in Actor, StartRun(a) \/ Advance(a) \/ Break(a)
      PROVE  Promise!Next \/ UNCHANGED <<saved, remote, acked>>
  <2>1. CASE remote' = remote /\ acked' = acked
    BY <1>3, <2>1, StoreStep
  <2>2. ASSUME pc[a] = "pushing",
               remote' = [remote EXCEPT ![file[a]] = buf[a]],
               \/ acked' = acked
               \/ acked' = [acked EXCEPT ![file[a]] =
                              IF buf[a] > @ THEN buf[a] ELSE @]
        PROVE  Promise!Next
    <3>0. /\ file[a] \in Path /\ file[a] # NoPath /\ file[a] \in SendFilter[cfg[a]]
          /\ cfg[a] \in ConfigsOf[a] /\ Direction[cfg[a]] # "pull"
      BY <2>2, AtWork, TopologyAssumption DEF PhaseInv, FilterInv, InFlight
    <3> PICK p \in Actor, k \in Config : Owner(p, k, file[a])
      BY <3>0 DEF OneWriterEach
    <3>1. a = p
      BY <3>0 DEF Owner
    <3>2. file[p] \in Path /\ file[p] # NoPath
      BY <3>0, <3>1
    <3>3. /\ buf[p] \in Int /\ edits \in 0 .. MaxEdits
          /\ remote[file[p]] \in Int /\ acked[file[p]] \in Int
      BY <3>1, <3>2, BoundAssumption
      DEF TypeOK, Content, Version, Torn, NoFile
    <3>4. /\ remote[file[p]] <= buf[p] /\ 0 < buf[p] /\ buf[p] <= edits
          /\ acked[file[p]] <= remote[file[p]]
      BY <2>2, <3>1, <3>2 DEF OwnersInv, OwnerInv, NoFile
    <3>5. buf[p] \in Promise!Version
      BY <3>3, <3>4, BoundAssumption DEF Promise!Version
    <3>6. <<file[p], buf[p]>> \in saved
      BY <3>1, <3>2, <3>3, <3>4 DEF Provenance, Genuine, Torn, NoFile
    <3>7. acked' \in {acked, [acked EXCEPT ![file[p]] = buf[p]]}
      <4>1. acked[file[p]] <= buf[p]
        BY <3>3, <3>4
      <4>2. (IF buf[p] > acked[file[p]] THEN buf[p] ELSE acked[file[p]]) = buf[p]
        BY <3>3, <4>1
      <4> QED BY <2>2, <3>1, <4>2
    <3>8. Promise!Upload(file[p], buf[p])
      BY <1>3, <2>2, <3>1, <3>3, <3>4, <3>6, <3>7, StoreStep
      DEF Promise!Upload
    <3> QED BY <3>2, <3>5, <3>8 DEF Promise!Next
  <2> QED BY <1>3, <2>1, <2>2, StoreStep
<1>4. CASE UNCHANGED vars
  BY <1>4 DEF vars, userVars
<1> QED BY <1>1, <1>2, <1>3, <1>4 DEF Next, UserStep

\* The engine implements BackupStore where each file is written by one push config
\* of one actor to a store with atomic uploads: whatever crashes, failures and
\* concurrent pulls do, the store holds only versions the users saved, never goes
\* back to an older one, and keeps what was confirmed.
THEOREM BackupPromiseKept ==
  ASSUME OneWriterEach, StreamPush = FALSE
  PROVE  Spec => KeepsBackupPromise
<1>1. Init => Promise!Init
  BY DEF Init, Promise!Init, NoFile, Promise!Absent
<1> QED BY <1>1, OwnersHold, PromiseStep, TypeCorrect, FiltersAreKept,
           ContentIsGenuine, PTL DEF Spec, KeepsBackupPromise, Promise!Spec
-----------------------------------------------------------------------------
(* A restored folder does not go back                                      *)

\* What a step does to the copy of f in d that a alone makes.
LEMMA ReaderStep ==
  ASSUME NEW f \in Path, NEW a \in Actor, NEW d, Reader(a, d, f),
         TypeOK, PhaseInv, FilterInv,
         NEW b \in Actor, Advance(b) \/ Break(b) \/ StartRun(b)
  PROVE  \/ /\ local'[d][f] = local[d][f]
            /\ Copying(a, d, f)' => Copying(a, d, f) /\ buf'[a] = buf[a]
         \/ /\ local'[d][f] \in {local[d][f], Torn}
            /\ Copying(a, d, f)' /\ buf'[a] = remote[f]
            /\ remote' = remote
         \/ /\ Copying(a, d, f) /\ local'[d][f] = buf[a]
            /\ ~Copying(a, d, f)'
            /\ remote' = remote
<1> DEFINE Stays   == /\ local'[d][f] = local[d][f]
                      /\ Copying(a, d, f)' => Copying(a, d, f) /\ buf'[a] = buf[a]
           Begins  == /\ local'[d][f] \in {local[d][f], Torn}
                      /\ Copying(a, d, f)' /\ buf'[a] = remote[f]
                      /\ remote' = remote
           Arrives == /\ Copying(a, d, f) /\ local'[d][f] = buf[a]
                      /\ ~Copying(a, d, f)'
                      /\ remote' = remote
<1> SUFFICES Stays \/ Begins \/ Arrives
  OBVIOUS
<1> d \in Folder
  BY DEF Reader
<1>0. local \in [Folder -> [Path -> Content]]
  BY DEF TypeOK
\* Only a downloads f into d.
<1>a. /\ pc[b] \notin {"idle", "next"} => Here(b) \in Folder
      /\ pc[b] \in {"pushing", "pulling"} => file[b] \in Path
      /\ pc[b] = "pull" /\ f \in todo[b] /\ Here(b) = d => b = a
      /\ pc[b] = "pulling" /\ file[b] = f /\ Here(b) = d => b = a
  BY AtWork DEF PhaseInv, FilterInv, InFlight, Reader, Here
<1>1. CASE StartRun(b)
  BY <1>1 DEF StartRun, Goto, Copying, Here, TypeOK
<1>2. CASE EndRun(b)
  BY <1>2 DEF EndRun, Goto, Copying, Here, TypeOK
<1>3. CASE Walk(b) \/ WalkFails(b)
  BY <1>3 DEF Walk, WalkFails, BeginLoop, EndLoop, Goto, Copying, Here, TypeOK
<1>4. CASE PushDone(b) \/ PushFails(b)
  BY <1>4 DEF PushDone, PushFails, EndTransfer, Goto, Copying, Here, TypeOK
<1>5. CASE EndPush(b) \/ EndPull(b)
  BY <1>5 DEF EndPush, EndPull, EndLoop, Goto, Copying, Here, TypeOK
<1>6. CASE ListRemote(b) \/ ListFails(b)
  BY <1>6 DEF ListRemote, ListFails, BeginLoop, EndLoop, Goto, Copying, Here, TypeOK
<1>7. ASSUME pc[b] = "pulling", local' = [local EXCEPT ![Here(b)][file[b]] = buf[b]],
             pc'[b] # "pulling", remote' = remote,
             b # a => pc'[a] = pc[a] /\ cfg'[a] = cfg[a] /\ file'[a] = file[a] /\ buf'[a] = buf[a]
      PROVE  Stays \/ Arrives
  <2>1. local'[d][f] = IF d = Here(b) /\ f = file[b] THEN buf[b] ELSE local[d][f]
    BY <1>0, <1>7, <1>a, LocalAt
  <2>2. CASE d = Here(b) /\ f = file[b]
    BY <1>7, <1>a, <2>1, <2>2 DEF Copying
  <2>3. CASE ~(d = Here(b) /\ f = file[b])
    BY <1>7, <1>a, <2>1, <2>3 DEF Copying, Here
  <2> QED BY <2>2, <2>3
<1>8. CASE PullDone(b)
  <2>1. pc'[b] # "pulling"
    BY <1>8 DEF PullDone, EndTransfer, Goto, TypeOK
  <2>2. b # a => pc'[a] = pc[a] /\ cfg'[a] = cfg[a] /\ file'[a] = file[a] /\ buf'[a] = buf[a]
    BY <1>8 DEF PullDone, EndTransfer, Goto, TypeOK
  <2> QED BY <1>7, <1>8, <2>1, <2>2 DEF PullDone
<1>9. CASE PullFails(b)
  BY <1>9 DEF PullFails, EndTransfer, Goto, Copying, Here, TypeOK
<1>10. CASE Crash(b)
  <2>1. pc'[b] # "pulling"
    BY <1>10 DEF Crash, EndLoop, Goto, TypeOK
  <2>2. b # a => pc'[a] = pc[a] /\ cfg'[a] = cfg[a] /\ file'[a] = file[a] /\ buf'[a] = buf[a]
    BY <1>10 DEF Crash, EndLoop, Goto, TypeOK
  <2>3. ASSUME local' = local PROVE Stays
    BY <2>1, <2>2, <2>3 DEF Copying, Here
  <2> QED BY <1>7, <1>10, <2>1, <2>2, <2>3 DEF Crash
<1>11. ASSUME NEW c \in Config, TakeConfig(b, c) \/ SkipConfig(b, c)
       PROVE  Stays
  BY <1>11 DEF TakeConfig, SkipConfig, Goto, Copying, Here, TypeOK
<1>12. ASSUME NEW g \in Path, PushBegin(b, g) \/ PushMissing(b, g) \/ PushRefused(b, g)
       PROVE  Stays
  BY <1>12 DEF PushBegin, PushMissing, PushRefused, BeginTransfer, RefuseTransfer, Goto,
               Copying, Here, TypeOK
<1>13. ASSUME NEW g \in Path, PullRefused(b, g)
       PROVE  Stays
  BY <1>13 DEF PullRefused, RefuseTransfer, Copying, Here
<1>14. ASSUME NEW g \in Path, PullBegin(b, g)
       PROVE  Stays \/ Begins
  <2>1. local'[d][f] \in {local[d][f], IF d = Here(b) /\ f = g THEN Torn ELSE local[d][f]}
    <3>1. Here(b) \in Folder
      BY <1>14, <1>a DEF PullBegin
    <3> QED BY <1>0, <1>14, <3>1, LocalAt DEF PullBegin
  <2>2. /\ pc'[b] = "pulling" /\ file'[b] = g /\ buf'[b] = remote[g] /\ Here(b)' = Here(b)
        /\ pc[b] = "pull" /\ g \in todo[b] /\ remote' = remote
        /\ b # a => pc'[a] = pc[a] /\ cfg'[a] = cfg[a] /\ file'[a] = file[a] /\ buf'[a] = buf[a]
    BY <1>14 DEF PullBegin, BeginTransfer, Goto, TypeOK, Here
  <2>3. CASE d = Here(b) /\ f = g
    BY <1>a, <2>1, <2>2, <2>3 DEF Copying
  <2>4. CASE ~(d = Here(b) /\ f = g)
    BY <2>1, <2>2, <2>4 DEF Copying, Here
  <2> QED BY <2>3, <2>4
<1> QED BY ActorSteps, <1>1, <1>2, <1>3, <1>4, <1>5, <1>6, <1>8, <1>9, <1>10,
           <1>11, <1>12, <1>13, <1>14

\* The store does not go back, and the copy is on its way forward.
LEMMA CopyStep ==
  ASSUME StreamPush = FALSE, NEW f \in Path, NEW p, NEW k, Owner(p, k, f),
         NEW a \in Actor, NEW d, Reader(a, d, f),
         TypeOK, PhaseInv, FilterInv, OwnerInv(p, k, f), CopyInv(a, d, f), [Next]_vars
  PROVE  /\ CopyInv(a, d, f)'
         /\ \A n \in Version : NotOlder(a, d, f, n) => NotOlder(a, d, f, n)'
<1> d \in Folder /\ d \notin Edited /\ p \in Actor /\ k \in Config
  BY TopologyAssumption DEF Reader, Owner
<1>0. /\ local[d][f] \in Int /\ -1 <= local[d][f]
      /\ remote[f] \in Int /\ -1 <= remote[f]
      /\ \A b \in Actor : buf[b] \in Int
      /\ \A n \in Version : n \in Nat /\ n # 0
  BY BoundAssumption DEF TypeOK, Content, Version, Torn, NoFile
<1>1. ASSUME NEW e \in Edited, NEW g \in Path, Save(e, g) \/ Delete(e, g)
      PROVE  UNCHANGED <<remote, pc, cfg, file, buf>> /\ local'[d][f] = local[d][f]
  BY <1>1, TopologyAssumption DEF Save, Delete, actorVars, TypeOK
<1>2. ASSUME NEW b \in Actor, Advance(b) \/ Break(b) \/ StartRun(b)
      PROVE  remote'[f] \in Int /\ remote[f] <= remote'[f]
  <2>1. CASE remote' = remote
    BY <1>0, <2>1
  <2>2. CASE pc[b] = "pushing" /\ remote' = [remote EXCEPT ![file[b]] = buf[b]]
    <3>1. file[b] = f => b = p
      BY <2>2, AtWork DEF PhaseInv, FilterInv, InFlight, Owner
    <3>2. file[b] = f => remote[f] <= buf[b]
      BY <1>0, <2>2, <3>1 DEF OwnerInv
    <3>3. remote'[f] = IF file[b] = f THEN buf[b] ELSE remote[f]
      BY <2>2 DEF TypeOK
    <3> QED BY <1>0, <3>2, <3>3
  <2> QED BY <1>2, <2>1, <2>2, StoreStep
<1>3. ASSUME UNCHANGED <<remote, pc, cfg, file, buf>>, local'[d][f] = local[d][f]
      PROVE  /\ CopyInv(a, d, f)'
             /\ \A n \in Version : NotOlder(a, d, f, n) => NotOlder(a, d, f, n)'
  BY <1>3 DEF CopyInv, NotOlder, Copying, Here
<1>4. ASSUME NEW b \in Actor, Advance(b) \/ Break(b) \/ StartRun(b)
      PROVE  /\ CopyInv(a, d, f)'
             /\ \A n \in Version : NotOlder(a, d, f, n) => NotOlder(a, d, f, n)'
  <2> USE <1>0, <1>2, <1>4 DEF CopyInv, NotOlder
  <2>1. CASE /\ local'[d][f] = local[d][f]
             /\ Copying(a, d, f)' => Copying(a, d, f) /\ buf'[a] = buf[a]
    BY <2>1
  <2>2. CASE /\ local'[d][f] \in {local[d][f], Torn}
             /\ Copying(a, d, f)' /\ buf'[a] = remote[f]
             /\ remote' = remote
    BY <2>2 DEF Torn
  <2>3. CASE /\ Copying(a, d, f) /\ local'[d][f] = buf[a]
             /\ ~Copying(a, d, f)'
             /\ remote' = remote
    BY <2>3
  <2> QED BY <2>1, <2>2, <2>3, ReaderStep
<1>5. CASE UNCHANGED vars
  BY <1>3, <1>5 DEF vars
<1> QED BY <1>1, <1>3, <1>4, <1>5 DEF Next, UserStep

\* Where each side of a backup has one actor, a restored file never goes back to an
\* older version, not even over interrupted downloads and restarts, although pull
\* compares no dates (core/engine.go:140): the order of uploads is kept on the way
\* through the store.
THEOREM RestoreNeverGoesBack ==
  ASSUME StreamPush = FALSE, NEW f \in Path, NEW p, NEW k, Owner(p, k, f),
         NEW a \in Actor, NEW d, Reader(a, d, f), NEW n \in Version
  PROVE  Spec => [](local[d][f] = n => [](local[d][f] \in Version => n <= local[d][f]))
<1> d \in Folder /\ p \in Actor /\ k \in Config
  BY TopologyAssumption DEF Reader, Owner
<1>1. Init => CopyInv(a, d, f)
  BY BoundAssumption DEF Init, CopyInv, NotOlder, Copying, NoFile, Version
<1>2. OwnersInv => OwnerInv(p, k, f)
  BY DEF OwnersInv
<1>3. /\ TypeOK /\ PhaseInv /\ FilterInv /\ OwnerInv(p, k, f) /\ CopyInv(a, d, f)
      /\ [Next]_vars
      => CopyInv(a, d, f)'
  BY CopyStep
<1>4. /\ TypeOK /\ PhaseInv /\ FilterInv /\ OwnerInv(p, k, f) /\ CopyInv(a, d, f)
      /\ [Next]_vars /\ NotOlder(a, d, f, n)
      => NotOlder(a, d, f, n)'
  BY CopyStep
<1>5. CopyInv(a, d, f) /\ local[d][f] = n => NotOlder(a, d, f, n)
  BY DEF CopyInv
<1>6. NotOlder(a, d, f, n) => (local[d][f] \in Version => n <= local[d][f])
  BY DEF NotOlder
<1> QED BY <1>1, <1>2, <1>3, <1>4, <1>5, <1>6, OwnersHold, TypeCorrect, FiltersAreKept,
           PTL DEF Spec

-----------------------------------------------------------------------------
(* What has settled stays settled                                          *)

\* What a step that is no failure does to the folders.
LEMMA FolderStep ==
  ASSUME TypeOK, PhaseInv, NEW a \in Actor, Advance(a) \/ StartRun(a)
  PROVE  \/ local' = local /\ pc[a] # "pulling"
         \/ \E f \in todo[a] :
              /\ pc[a] = "pull" /\ pc'[a] = "pulling" /\ file'[a] = f
              /\ cfg'[a] = cfg[a]
              /\ local' \in {local, [local EXCEPT ![Here(a)][f] = Torn]}
         \/ /\ pc[a] = "pulling"
            /\ local' = [local EXCEPT ![Here(a)][file[a]] = buf[a]]
<1> USE DEF TypeOK, Goto, BeginTransfer, EndTransfer
<1>1. ASSUME NEW f \in Path, PullBegin(a, f)
      PROVE  /\ f \in todo[a] /\ pc[a] = "pull" /\ pc'[a] = "pulling" /\ file'[a] = f
             /\ cfg'[a] = cfg[a]
             /\ local' \in {local, [local EXCEPT ![Here(a)][f] = Torn]}
  BY <1>1 DEF PullBegin
<1>2. CASE PullDone(a)
  BY <1>2 DEF PullDone
<1>3. CASE StartRun(a) \/ EndRun(a) \/ \E c \in Config : TakeConfig(a, c)
  BY <1>3 DEF StartRun, EndRun, TakeConfig
<1>4. CASE Walk(a) \/ PushDone(a) \/ EndPush(a) \/ ListRemote(a) \/ EndPull(a)
  BY <1>4 DEF Walk, PushDone, EndPush, ListRemote, EndPull
<1>5. ASSUME NEW f \in Path, PushBegin(a, f) \/ PushMissing(a, f)
      PROVE  local' = local /\ pc[a] # "pulling"
  BY <1>5 DEF PushBegin, PushMissing
<1> QED BY <1>1, <1>2, <1>3, <1>4, <1>5 DEF Advance

\* In a settled state no step that is no failure changes the store, and each
\* transfer it begins carries what is stored.
LEMMA SettledTransfers ==
  ASSUME StreamPush = FALSE, TypeOK, PhaseInv, FilterInv, Settled,
         NEW a \in Actor, Advance(a) \/ StartRun(a)
  PROVE  /\ remote' = remote
         /\ file'[a] # NoPath => buf'[a] = remote[file'[a]]
<1> DEFINE Goal == /\ remote' = remote
                   /\ file'[a] # NoPath => buf'[a] = remote[file'[a]]
<1> SUFFICES Goal
  OBVIOUS
<1>0. file[a] # NoPath => buf[a] = remote[file[a]]
  BY DEF Settled
<1> USE <1>0, TopologyAssumption DEF TypeOK, Goto, BeginTransfer, EndTransfer
<1>1. ASSUME NEW f \in Path, PushBegin(a, f) PROVE Goal
  <2>1. cfg[a] \in Config /\ Direction[cfg[a]] # "pull" /\ f \in SendFilter[cfg[a]]
    BY <1>1, AtWork DEF PushBegin, PhaseInv, FilterInv
  <2>2. local[Here(a)][f] # NoFile => remote[f] = local[Here(a)][f]
    BY <2>1 DEF Settled, Mirrored, Here
  <2> QED BY <1>1, <2>2 DEF PushBegin
<1>2. CASE PushDone(a)
  <2>1. file[a] # NoPath /\ file[a] \in Path
    BY <1>2, AtWork DEF PushDone
  <2> QED BY <1>2, <2>1 DEF PushDone
<1>3. CASE StartRun(a) \/ EndRun(a) \/ \E c \in Config : TakeConfig(a, c)
  BY <1>3 DEF StartRun, EndRun, TakeConfig
<1>4. CASE Walk(a) \/ EndPush(a) \/ ListRemote(a) \/ EndPull(a)
  BY <1>4 DEF Walk, EndPush, ListRemote, EndPull
<1>5. CASE PullDone(a)
  BY <1>5 DEF PullDone
<1>6. ASSUME NEW f \in Path, PushMissing(a, f) \/ PullBegin(a, f) PROVE Goal
  BY <1>6 DEF PushMissing, PullBegin
<1> QED BY <1>1, <1>2, <1>3, <1>4, <1>5, <1>6 DEF Advance

LEMMA ActorSettled ==
  ASSUME OneWayFiles, StreamPush = FALSE, TypeOK, PhaseInv, FilterInv, Settled,
         NEW a \in Actor, Advance(a) \/ StartRun(a)
  PROVE  Settled'
<1>1. \A b \in Actor : file'[b] # NoPath => buf'[b] = remote'[file'[b]]
  BY SettledTransfers, OtherActors DEF Settled
<1>2. ASSUME NEW c \in Config PROVE Mirrored(c)'
  <2> DEFINE d == FolderOf[c]
  <2>0. /\ remote' = remote /\ Mirrored(c) /\ d \in Folder
        /\ local \in [Folder -> [Path -> Content]]
    BY SettledTransfers, TopologyAssumption DEF Settled, TypeOK
  <2>a. ASSUME NEW f \in Path, NEW b \in Actor, b # a,
               pc[b] = "pulling", file[b] = f, Here(b) = d
        PROVE  BeingRewritten(d, f)'
    BY <2>a, OtherActors DEF BeingRewritten, Copying, Here
  <2>1. CASE local' = local /\ pc[a] # "pulling"
    <3>1. \A f \in Path : BeingRewritten(d, f) => BeingRewritten(d, f)'
      BY <2>1, <2>a DEF BeingRewritten, Copying
    <3> QED BY <2>0, <2>1, <3>1, TopologyAssumption DEF Mirrored
  <2>2. ASSUME NEW g \in todo[a], pc[a] = "pull", pc'[a] = "pulling", file'[a] = g,
               cfg'[a] = cfg[a],
               local' \in {local, [local EXCEPT ![Here(a)][g] = Torn]}
        PROVE  Mirrored(c)'
    <3>1. /\ cfg[a] \in Config /\ Direction[cfg[a]] # "push" /\ Here(a) \in Folder
          /\ g \in ReceiveFilter[cfg[a]] /\ g \in Path
      BY <2>2, AtWork DEF PhaseInv, FilterInv, TypeOK
    <3>2. \A f \in Path : BeingRewritten(d, f) => BeingRewritten(d, f)'
      BY <2>2, <2>a DEF BeingRewritten, Copying
    <3>3. d = Here(a) => BeingRewritten(d, g)'
      BY <2>2 DEF BeingRewritten, Copying, Here
    <3>4. \A f \in Path : local'[d][f] = local[d][f]
                          \/ (d = Here(a) /\ f = g /\ local'[d][f] = Torn)
      <4>1. CASE local' = local
        BY <4>1
      <4>2. CASE local' = [local EXCEPT ![Here(a)][g] = Torn]
        BY <2>0, <3>1, <4>2, LocalAt
      <4> QED BY <2>2, <4>1, <4>2
    <3>5. Direction[c] # "pull" /\ d = Here(a) => g \notin SendFilter[c]
      BY <3>1 DEF OneWayFiles, Here
    <3> QED BY <2>0, <3>2, <3>3, <3>4, <3>5, TopologyAssumption DEF Mirrored
  <2>3. CASE /\ pc[a] = "pulling"
             /\ local' = [local EXCEPT ![Here(a)][file[a]] = buf[a]]
    <3>1. /\ cfg[a] \in Config /\ Direction[cfg[a]] # "push" /\ Here(a) \in Folder
          /\ file[a] \in ReceiveFilter[cfg[a]] /\ file[a] \in Path /\ file[a] # NoPath
      BY <2>3, AtWork, TopologyAssumption DEF PhaseInv, FilterInv, InFlight
    <3>2. ASSUME NEW f \in Path, BeingRewritten(d, f)
          PROVE  BeingRewritten(d, f)' \/ (d = Here(a) /\ f = file[a])
      <4> PICK b \in Actor : pc[b] = "pulling" /\ file[b] = f /\ Here(b) = d
        BY <3>2 DEF BeingRewritten, Copying
      <4> QED BY <2>a
    <3>3. \A f \in Path : local'[d][f] = IF d = Here(a) /\ f = file[a]
                                         THEN remote[f] ELSE local[d][f]
      BY <2>0, <2>3, <3>1, LocalAt DEF Settled
    <3>4. Direction[c] # "pull" /\ d = Here(a) => file[a] \notin SendFilter[c]
      BY <3>1 DEF OneWayFiles, Here
    <3> QED BY <2>0, <3>2, <3>3, <3>4, TopologyAssumption DEF Mirrored
  <2> QED BY <2>1, <2>2, <2>3, FolderStep
<1> QED BY <1>1, <1>2 DEF Settled

\* Failures count themselves.
LEMMA NoFailure ==
  ASSUME TypeOK, NEW a \in Actor, Break(a)
  PROVE  failures' # failures
<1> failures \in Nat
  BY BoundAssumption DEF TypeOK
<1> QED BY DEF Break, SkipConfig, WalkFails, PushFails, ListFails, PullFails,
               PushRefused, PullRefused, Crash, Fail

\* Convergence says that the sides come to agree, this says that they keep so: once
\* they do, and the transfers under way carry what is stored, no order of transfers,
\* of however many actors, makes them disagree again, until a user edits a file
\* or something fails (core/engine.go:87-152).
THEOREM AgreementStays ==
  ASSUME OneWayFiles, StreamPush = FALSE
  PROVE  Spec => [][Settled /\ UNCHANGED <<edits, failures>> => Settled']_vars
<1>1. TypeOK /\ PhaseInv /\ FilterInv /\ [Next]_vars
        => [Settled /\ UNCHANGED <<edits, failures>> => Settled']_vars
  <2> SUFFICES ASSUME TypeOK, PhaseInv, FilterInv, Next, Settled,
                      UNCHANGED <<edits, failures>>
               PROVE  Settled'
    OBVIOUS
  <2>1. ~UserStep
    BY BoundAssumption DEF UserStep, Save, Delete, TypeOK
  <2>2. PICK a \in Actor : StartRun(a) \/ Advance(a)
    BY <2>1, NoFailure DEF Next
  <2> QED BY <2>2, ActorSettled
<1> QED BY <1>1, TypeCorrect, FiltersAreKept, PTL DEF Spec
-----------------------------------------------------------------------------
(* Nothing is deleted remotely                                             *)

LEMMA ActorPresent ==
  ASSUME TypeOK, PhaseInv, PresentInv, NEW a \in Actor,
         Advance(a) \/ Break(a) \/ StartRun(a)
  PROVE  /\ \A f \in Path : remote[f] # NoFile => remote'[f] # NoFile
         /\ PresentInv'
<1> DEFINE Goal == /\ \A f \in Path : remote[f] # NoFile => remote'[f] # NoFile
                   /\ PresentInv'
<1> SUFFICES Goal
  OBVIOUS
<1>0. pc[a] \in {"pushing", "pulling"} => file[a] \in Path
  BY AtWork
<1> USE <1>0, TopologyAssumption DEF TypeOK, PhaseInv, PresentInv, Stored, Torn, NoFile
<1> USE DEF Goto, BeginLoop, EndLoop, BeginTransfer, EndTransfer,
            RefuseTransfer, Log, userVars
<1>1. CASE StartRun(a)
  BY <1>1 DEF StartRun
<1>2. CASE EndRun(a)
  BY <1>2 DEF EndRun
<1>3. CASE Walk(a)
  BY <1>3 DEF Walk
<1>4. CASE WalkFails(a)
  BY <1>4 DEF WalkFails
<1>5. CASE PushDone(a)
  BY <1>5 DEF PushDone
<1>6. CASE PushFails(a)
  BY <1>6 DEF PushFails
<1>7. CASE EndPush(a)
  BY <1>7 DEF EndPush
<1>8. CASE ListRemote(a)
  BY <1>8 DEF ListRemote
<1>9. CASE ListFails(a)
  BY <1>9 DEF ListFails
<1>10. CASE PullDone(a)
  BY <1>10 DEF PullDone
<1>11. CASE PullFails(a)
  BY <1>11 DEF PullFails
<1>12. CASE EndPull(a)
  BY <1>12 DEF EndPull
<1>13. CASE Crash(a)
  <2>1. CASE remote' = remote
    BY <1>13, <2>1 DEF Crash
  <2>2. CASE /\ pc[a] = "pushing"
             /\ remote' = [remote EXCEPT ![file[a]] = buf[a]]
    BY <1>13, <2>2 DEF Crash
  <2> QED BY <1>13, <2>1, <2>2 DEF Crash
<1>14. ASSUME NEW c \in Config, TakeConfig(a, c) PROVE Goal
  BY <1>14 DEF TakeConfig
<1>15. ASSUME NEW c \in Config, SkipConfig(a, c) PROVE Goal
  BY <1>15 DEF SkipConfig
<1>16. ASSUME NEW f \in Path, PushBegin(a, f) PROVE Goal
  BY <1>16 DEF PushBegin
<1>17. ASSUME NEW f \in Path, PushMissing(a, f) PROVE Goal
  BY <1>17 DEF PushMissing
<1>18. ASSUME NEW f \in Path, PushRefused(a, f) PROVE Goal
  BY <1>18 DEF PushRefused
<1>19. ASSUME NEW f \in Path, PullBegin(a, f) PROVE Goal
  BY <1>19 DEF PullBegin
<1>20. ASSUME NEW f \in Path, PullRefused(a, f) PROVE Goal
  BY <1>20 DEF PullRefused
<1> QED BY ActorSteps, <1>1, <1>2, <1>3, <1>4, <1>5, <1>6, <1>7, <1>8, <1>9,
           <1>10, <1>11, <1>12, <1>13, <1>14, <1>15, <1>16, <1>17, <1>18,
           <1>19, <1>20

LEMMA PresentStep ==
  TypeOK /\ PhaseInv /\ PresentInv /\ [Next]_vars
    => /\ \A f \in Path : remote[f] # NoFile => remote'[f] # NoFile
       /\ PresentInv'
<1> SUFFICES ASSUME TypeOK, PhaseInv, PresentInv, [Next]_vars
             PROVE  /\ \A f \in Path : remote[f] # NoFile => remote'[f] # NoFile
                    /\ PresentInv'
  OBVIOUS
<1>1. CASE UserStep
  BY <1>1 DEF UserStep, Save, Delete, actorVars, PresentInv
<1>2. ASSUME NEW a \in Actor, StartRun(a) \/ Advance(a) \/ Break(a)
      PROVE  /\ \A f \in Path : remote[f] # NoFile => remote'[f] # NoFile
             /\ PresentInv'
  BY <1>2, ActorPresent
<1>3. CASE UNCHANGED vars
  BY <1>3 DEF vars, PresentInv
<1> QED BY <1>1, <1>2, <1>3 DEF Next

LEMMA TransfersCarryFiles == Spec => []PresentInv
<1>1. Init => PresentInv
  BY DEF Init, PresentInv
<1> QED BY <1>1, PresentStep, TypeCorrect, PTL DEF Spec

\* A file deleted locally stays in the store, whatever the direction of the configs
\* and however runs overlap: push skips what the walk did not find, and no step of
\* the engine calls Delete (core/engine.go:87-121).
THEOREM NothingDeletedRemotely ==
  Spec => [][\A f \in Path : remote[f] # NoFile => remote'[f] # NoFile]_remote
<1>1. TypeOK /\ PhaseInv /\ PresentInv /\ [Next]_vars
        => [\A f \in Path : remote[f] # NoFile => remote'[f] # NoFile]_remote
  BY PresentStep
<1> QED BY <1>1, TypeCorrect, TransfersCarryFiles, PTL DEF Spec

\* What a step of an actor does to the store and to the folders, when each
\* transfer carries a file.
LEMMA FilesStep ==
  ASSUME TypeOK, PhaseInv, PresentInv, SameFiles,
         NEW a \in Actor, Advance(a) \/ Break(a) \/ StartRun(a)
  PROVE  /\ \A f \in Path : remote'[f] # NoFile <=> remote[f] # NoFile
         /\ \A d \in Folder, f \in Path : local'[d][f] # NoFile <=> local[d][f] # NoFile
         /\ pc'[a] = "pushing" => remote[file'[a]] # NoFile
<1> DEFINE Goal ==
         /\ \A f \in Path : remote'[f] # NoFile <=> remote[f] # NoFile
         /\ \A d \in Folder, f \in Path : local'[d][f] # NoFile <=> local[d][f] # NoFile
         /\ pc'[a] = "pushing" => remote[file'[a]] # NoFile
<1> SUFFICES Goal
  OBVIOUS
<1>0. /\ pc[a] \in {"pushing", "pulling"} =>
           file[a] \in Path /\ remote[file[a]] # NoFile /\ buf[a] # NoFile
      /\ pc[a] \notin {"idle", "next"} => Here(a) \in Folder
  BY AtWork DEF PhaseInv, PresentInv, SameFiles
<1>a. \A d \in Folder, f \in Path : local[d][f] # NoFile <=> remote[f] # NoFile
  BY DEF SameFiles
<1>b. pc[a] = "pull" => \A f \in todo[a] : remote[f] # NoFile
  BY DEF PresentInv
<1> USE <1>0, TopologyAssumption DEF TypeOK, Torn, NoFile
<1> USE DEF Goto, BeginLoop, EndLoop, BeginTransfer, EndTransfer,
            RefuseTransfer, Log, userVars
<1>1. CASE StartRun(a)
  BY <1>1 DEF StartRun
<1>2. CASE EndRun(a)
  BY <1>2 DEF EndRun
<1>3. CASE Walk(a)
  BY <1>3 DEF Walk
<1>4. CASE WalkFails(a)
  BY <1>4 DEF WalkFails
<1>5. CASE PushDone(a)
  BY <1>5 DEF PushDone
<1>6. CASE PushFails(a)
  BY <1>6 DEF PushFails
<1>7. CASE EndPush(a)
  BY <1>7 DEF EndPush
<1>8. CASE ListRemote(a)
  BY <1>8 DEF ListRemote
<1>9. CASE ListFails(a)
  BY <1>9 DEF ListFails
<1>10. CASE PullDone(a)
  BY <1>10, <1>a DEF PullDone
<1>11. CASE PullFails(a)
  BY <1>11 DEF PullFails
<1>12. CASE EndPull(a)
  BY <1>12 DEF EndPull
<1>13. CASE Crash(a)
  <2>1. CASE UNCHANGED <<local, remote>>
    BY <1>13, <2>1 DEF Crash
  <2>2. CASE /\ pc[a] = "pushing"
             /\ remote' = [remote EXCEPT ![file[a]] = buf[a]]
             /\ UNCHANGED local
    BY <1>13, <2>2 DEF Crash
  <2>3. CASE /\ pc[a] = "pulling"
             /\ local' = [local EXCEPT ![Here(a)][file[a]] = buf[a]]
             /\ UNCHANGED remote
    BY <1>13, <1>a, <2>3 DEF Crash
  <2> QED BY <1>13, <2>1, <2>2, <2>3 DEF Crash
<1>14. ASSUME NEW c \in Config, TakeConfig(a, c) PROVE Goal
  BY <1>14 DEF TakeConfig
<1>15. ASSUME NEW c \in Config, SkipConfig(a, c) PROVE Goal
  BY <1>15 DEF SkipConfig
<1>16. ASSUME NEW f \in Path, PushBegin(a, f) PROVE Goal
  BY <1>16, <1>a DEF PushBegin
<1>17. ASSUME NEW f \in Path, PushMissing(a, f) PROVE Goal
  BY <1>17 DEF PushMissing
<1>18. ASSUME NEW f \in Path, PushRefused(a, f) PROVE Goal
  BY <1>18 DEF PushRefused
<1>19. ASSUME NEW f \in Path, PullBegin(a, f) PROVE Goal
  BY <1>19, <1>a, <1>b DEF PullBegin
<1>20. ASSUME NEW f \in Path, PullRefused(a, f) PROVE Goal
  BY <1>20 DEF PullRefused
<1> QED BY ActorSteps, <1>1, <1>2, <1>3, <1>4, <1>5, <1>6, <1>7, <1>8, <1>9,
           <1>10, <1>11, <1>12, <1>13, <1>14, <1>15, <1>16, <1>17, <1>18,
           <1>19, <1>20

\* SameFilesEverywhere says that all folders come to hold the same set of files,
\* this says that they keep to it: no order of transfers, and no failed, torn or
\* killed one, ends it; only an edit of a user can.
THEOREM SameFilesStay ==
  Spec => [][SameFiles /\ UNCHANGED edits => SameFiles']_vars
<1>1. TypeOK /\ PhaseInv /\ PresentInv /\ [Next]_vars
        => [SameFiles /\ UNCHANGED edits => SameFiles']_vars
  <2> SUFFICES ASSUME TypeOK, PhaseInv, PresentInv, Next, SameFiles, UNCHANGED edits
               PROVE  SameFiles'
    OBVIOUS
  <2>1. ~UserStep
    BY BoundAssumption DEF UserStep, Save, Delete, TypeOK
  <2>2. PICK a \in Actor : StartRun(a) \/ Advance(a) \/ Break(a)
    BY <2>1 DEF Next
  <2>3. \A d \in Folder, f \in Path : local'[d][f] # NoFile <=> remote'[f] # NoFile
    BY <2>2, FilesStep DEF SameFiles
  <2>4. ASSUME NEW b \in Actor, pc'[b] = "pushing" PROVE remote'[file'[b]] # NoFile
    <3>1. file'[b] \in Path
      <4>1. TypeOK' /\ PhaseInv'
        BY PhaseStep
      <4> QED BY <2>4, <4>1, TopologyAssumption DEF TypeOK, PhaseInv
    <3>2. remote[file'[b]] # NoFile
      BY <2>2, <2>4, FilesStep, OtherActors DEF SameFiles
    <3> QED BY <2>2, <3>1, <3>2, FilesStep
  <2> QED BY <2>3, <2>4 DEF SameFiles
<1> QED BY <1>1, TypeCorrect, TransfersCarryFiles, PTL DEF Spec
-----------------------------------------------------------------------------
(* How long a run can be                                                   *)

\* Where an actor is with a config, or after it.
Stage(a) ==
  CASE pc[a] = "walk"                -> 1
    [] pc[a] \in {"push", "pushing"} -> 2
    [] pc[a] = "list"                -> 3
    [] pc[a] \in {"pull", "pulling"} -> 4
    [] pc[a] = "next"                -> 5
    [] OTHER                         -> 6

\* The files its loop is not done with.
Left(a) == todo[a] \cup InFlight(a)

\* The run of a gets shorter: a config less to come, or the same ones and a later
\* stage, or the same stage and a file less, or the transfer of one begun.
Further(a) ==
  /\ queue'[a] \subseteq queue[a]
  /\ queue'[a] = queue[a] =>
       \/ Stage(a) < Stage(a)'
       \/ /\ Stage(a)' = Stage(a)
          /\ Left(a)' \subseteq Left(a) /\ todo'[a] \subseteq todo[a]
          /\ Left(a)' # Left(a) \/ todo'[a] # todo[a]

LEMMA StepFurther ==
  ASSUME TypeOK, PhaseInv, EveryListedFileTried,
         NEW a \in Actor, Advance(a) \/ Break(a)
  PROVE  Further(a)
<1> USE DEF TypeOK, Goto
<1>0. pc[a] \in {"pushing", "pulling"} <=> file[a] \in Path
  BY AtWork
<1>a. file[a] \in Path \cup {NoPath} /\ NoPath \notin Path
  BY TopologyAssumption
\* The stage grows.
<1>1. ASSUME queue'[a] \subseteq queue[a], Stage(a) < Stage(a)' PROVE Further(a)
  BY <1>1 DEF Further
\* A file less to come, which may be under way.
<1>2. ASSUME queue' = queue, NEW f \in todo[a], todo' = [todo EXCEPT ![a] = @ \ {f}],
             \/ pc' = pc /\ file' = file /\ file[a] = NoPath
             \/ pc[a] = "push" /\ pc'[a] = "pushing" /\ file'[a] = f /\ file[a] = NoPath
             \/ pc[a] = "pull" /\ pc'[a] = "pulling" /\ file'[a] = f /\ file[a] = NoPath
      PROVE  Further(a)
  <2>1. Stage(a)' = Stage(a)
    BY <1>2 DEF Stage
  <2>2. todo'[a] = todo[a] \ {f} /\ Left(a) = todo[a]
    BY <1>2 DEF Left, InFlight
  <2>3. Left(a)' \subseteq todo[a]
    BY <1>2, <2>2 DEF Left, InFlight
  <2> QED BY <1>2, <2>1, <2>2, <2>3 DEF Further
\* The transfer is over.
<1>3. ASSUME queue' = queue, todo' = todo, file' = [file EXCEPT ![a] = NoPath],
             todo[a] \cap {file[a]} = {},
             \/ pc[a] = "pushing" /\ pc'[a] = "push"
             \/ pc[a] = "pulling" /\ pc'[a] = "pull"
      PROVE  Further(a)
  <2>1. Stage(a)' = Stage(a)
    BY <1>3 DEF Stage
  <2>2. Left(a) = todo[a] \cup {file[a]} /\ Left(a)' = todo[a]
    BY <1>0, <1>3, <1>a DEF Left, InFlight
  <2> QED BY <1>3, <2>1, <2>2 DEF Further
<1>4. CASE Walk(a) \/ WalkFails(a) \/ ListRemote(a) \/ ListFails(a)
  BY <1>1, <1>4 DEF Walk, WalkFails, ListRemote, ListFails, BeginLoop, EndLoop, Stage
<1>5. CASE EndPush(a) \/ EndPull(a) \/ EndRun(a)
  BY <1>1, <1>5 DEF EndPush, EndPull, EndRun, EndLoop, Stage
<1>6. ASSUME NEW c \in Config, TakeConfig(a, c) \/ SkipConfig(a, c) PROVE Further(a)
  BY <1>6 DEF TakeConfig, SkipConfig, Further
<1>7. ASSUME NEW f \in Path, PushMissing(a, f) \/ PushRefused(a, f) \/ PullRefused(a, f)
      PROVE  Further(a)
  BY <1>0, <1>2, <1>7, <1>a DEF PushMissing, PushRefused, PullRefused, RefuseTransfer
<1>8. ASSUME NEW f \in Path, PushBegin(a, f) \/ PullBegin(a, f) PROVE Further(a)
  BY <1>0, <1>2, <1>8, <1>a DEF PushBegin, PullBegin, BeginTransfer
<1>9. CASE PushDone(a) \/ PushFails(a) \/ PullDone(a) \/ PullFails(a)
  <2>1. todo[a] \cap {file[a]} = {}
    BY <1>0, <1>9, <1>a DEF EveryListedFileTried, AccountedFor, InFlight,
                             PushDone, PushFails, PullDone, PullFails
  <2> QED BY <1>3, <1>9, <2>1 DEF PushDone, PushFails, PullDone, PullFails, EndTransfer
<1>10. CASE Crash(a)
  <2>1. queue'[a] = {} /\ pc'[a] = "idle" /\ pc[a] # "idle"
    BY <1>10 DEF Crash, EndLoop
  <2>2. Stage(a) < Stage(a)'
    BY <2>1 DEF Stage, PCs
  <2>3. queue'[a] \subseteq queue[a]
    BY <2>1
  <2> QED BY <1>1, <2>2, <2>3
<1> QED BY ActorSteps, <1>4, <1>5, <1>6, <1>7, <1>8, <1>9, <1>10 DEF Advance, Break

LEMMA OtherQueues ==
  ASSUME TypeOK, NEW a \in Actor, NEW b \in Actor, b # a,
         Advance(b) \/ Break(b) \/ StartRun(b)
  PROVE  queue'[a] = queue[a]
<1> USE DEF TypeOK
<1>1. CASE StartRun(b) \/ EndRun(b) \/ Crash(b)
  BY <1>1 DEF StartRun, EndRun, Crash
<1>2. CASE \E c \in Config : TakeConfig(b, c) \/ SkipConfig(b, c)
  BY <1>2 DEF TakeConfig, SkipConfig
<1>3. CASE Walk(b) \/ WalkFails(b) \/ PushDone(b) \/ PushFails(b) \/ EndPush(b)
  BY <1>3 DEF Walk, WalkFails, PushDone, PushFails, EndPush
<1>4. CASE ListRemote(b) \/ ListFails(b) \/ PullDone(b) \/ PullFails(b) \/ EndPull(b)
  BY <1>4 DEF ListRemote, ListFails, PullDone, PullFails, EndPull
<1>5. CASE \E f \in Path : \/ PushBegin(b, f) \/ PushMissing(b, f) \/ PushRefused(b, f)
                           \/ PullBegin(b, f) \/ PullRefused(b, f)
  BY <1>5 DEF PushBegin, PushMissing, PushRefused, PullBegin, PullRefused
<1> QED BY ActorSteps, <1>1, <1>2, <1>3, <1>4, <1>5

\* The safety half of every "in the end": each step of an actor, a failed one too,
\* brings its run nearer to the end, and no step of anyone else takes it back; what
\* users and other machines add while a run is on waits for the next run
\* (the loops of push and pull range over a list that is made once, core/engine.go).
THEOREM RunsMoveOn ==
  Spec => [][\A a \in Actor :
               /\ Advance(a) \/ Break(a) => Further(a)
               /\ \/ Advance(a) \/ Break(a) \/ StartRun(a)
                  \/ UNCHANGED <<pc[a], queue[a], todo[a], file[a]>>]_vars
<1>1. ASSUME TypeOK, PhaseInv, EveryListedFileTried, Next, NEW a \in Actor
      PROVE  /\ Advance(a) \/ Break(a) => Further(a)
             /\ \/ Advance(a) \/ Break(a) \/ StartRun(a)
                \/ UNCHANGED <<pc[a], queue[a], todo[a], file[a]>>
  <2>1. Advance(a) \/ Break(a) => Further(a)
    BY <1>1, StepFurther
  <2>2. CASE UserStep
    BY <2>1, <2>2 DEF UserStep, Save, Delete, actorVars
  <2>3. ASSUME NEW b \in Actor, b # a, StartRun(b) \/ Advance(b) \/ Break(b)
        PROVE  UNCHANGED <<pc[a], queue[a], todo[a], file[a]>>
    <3>1. queue'[a] = queue[a]
      BY <1>1, <2>3, OtherQueues
    <3> QED BY <1>1, <2>3, <3>1, OtherActors
  <2> QED BY <1>1, <2>1, <2>2, <2>3 DEF Next
<1>2. TypeOK /\ PhaseInv /\ EveryListedFileTried /\ [Next]_vars
        => [\A a \in Actor :
              /\ Advance(a) \/ Break(a) => Further(a)
              /\ \/ Advance(a) \/ Break(a) \/ StartRun(a)
                 \/ UNCHANGED <<pc[a], queue[a], todo[a], file[a]>>]_vars
  BY <1>1
<1> QED BY <1>2, TypeCorrect, NoFileIsSkipped, PTL DEF Spec

=============================================================================
