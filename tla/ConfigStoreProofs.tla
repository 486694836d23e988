------------------------- MODULE ConfigStoreProofs -------------------------
(* Proofs about ConfigStore: what a loop runs while the tables are edited. *)
EXTENDS ConfigStore, TLAPS

USE DEF tableVars, loopVars, clearVars, historyVars

-----------------------------------------------------------------------------
(* Types.                                                                  *)

LEMMA RowTypes ==
  ASSUME TypeOK
  PROVE  /\ ConfigRows \subseteq Pending
         /\ FolderRows \subseteq Folder \X Path
         /\ \A r \in ConfigRows : r.name \in Name /\ configs[r.name] = r.content
         /\ \A r \in ConfigRows : configs[r.name] # None
BY StoreAssumption DEF TypeOK, ConfigRows, FolderRows, Pending

LEMMA InitType == Init => TypeOK
<1> SUFFICES ASSUME Init PROVE TypeOK
  OBVIOUS
<1>1. folders \in [Folder -> Path \cup {None}] /\ configs \in [Name -> Content \cup {None}]
  BY StoreAssumption DEF Init
<1>2. 0 \in 0 .. MaxEdits /\ 0 \in 0 .. MaxFaults
  BY StoreAssumption
<1>3. heldConfigs \in [Loop -> SUBSET Pending] /\ todo \in [Loop -> SUBSET Pending]
      /\ heldFolders \in [Loop -> SUBSET (Folder \X Path)]
  BY DEF Init
<1> QED BY <1>1, <1>2, <1>3 DEF Init, TypeOK

LEMMA EditsType == ASSUME TypeOK, Edit PROVE edits' \in 0 .. MaxEdits
BY StoreAssumption DEF TypeOK, Edit

LEMMA AddFolderType ==
  ASSUME TypeOK, NEW f \in Folder, NEW p \in Path, AddFolder(f, p)
  PROVE  TypeOK'
<1>1. heldFolders' \in [Loop -> SUBSET (Folder \X Path)]
  BY DEF TypeOK, AddFolder
<1>2. added' \subseteq Folder
  BY DEF TypeOK, AddFolder
<1> QED BY <1>1, <1>2, EditsType DEF TypeOK, AddFolder

LEMMA RemoveFolderType ==
  ASSUME TypeOK, NEW f \in Folder, RemoveFolder(f) PROVE TypeOK'
BY EditsType DEF TypeOK, RemoveFolder

LEMMA AddConfigType ==
  ASSUME TypeOK, NEW n \in Name, NEW c \in Content, AddConfig(n, c)
  PROVE  TypeOK'
<1>1. [name |-> n, content |-> c] \in Pending
  BY DEF Pending
<1>2. heldConfigs' \in [Loop -> SUBSET Pending]
  BY <1>1 DEF TypeOK, AddConfig
<1>3. late' \in [Loop -> [Name -> Nat]]
  BY DEF TypeOK, AddConfig
<1> QED BY <1>2, <1>3, EditsType DEF TypeOK, AddConfig

LEMMA RemoveConfigType ==
  ASSUME TypeOK, NEW n \in Name, RemoveConfig(n) PROVE TypeOK'
BY EditsType DEF TypeOK, RemoveConfig

LEMMA ClearType ==
  ASSUME TypeOK, ClearBegin \/ Clear \/ ClearOneFails
  PROVE  TypeOK'
<1>1. CASE ClearBegin
  <2>1. edits' \in 0 .. MaxEdits /\ faults' \in 0 .. MaxFaults
    BY <1>1, StoreAssumption DEF TypeOK, ClearBegin, Edit
  <2>2. left' \subseteq Folder /\ kept' \subseteq Folder
    BY <1>1 DEF ClearBegin, Registered
  <2> QED BY <1>1, <2>1, <2>2 DEF TypeOK, ClearBegin
<1>2. CASE ClearOne
  BY <1>2 DEF TypeOK, ClearOne
<1>3. CASE ClearEnd
  BY <1>3 DEF TypeOK, ClearEnd
<1>4. CASE ClearOneFails
  BY <1>4, StoreAssumption DEF TypeOK, ClearOneFails
<1> QED BY <1>1, <1>2, <1>3, <1>4 DEF Clear

LEMMA BeginType ==
  ASSUME TypeOK, NEW l \in Loop, Start(l) \/ (l \in Daemon /\ Tick(l))
  PROVE  TypeOK'
<1>1. /\ heldConfigs' \in [Loop -> SUBSET Pending]
      /\ heldFolders' \in [Loop -> SUBSET (Folder \X Path)]
  BY RowTypes DEF Start, Tick, Begin, TypeOK
<1>2. CASE Start(l)
  BY <1>1, <1>2 DEF TypeOK, Start, Begin, Goto
<1>3. CASE l \in Daemon /\ Tick(l)
  BY <1>1, <1>3 DEF TypeOK, Tick, Begin, Goto
<1> QED BY <1>2, <1>3

LEMMA RoundType ==
  ASSUME TypeOK, NEW l \in Loop, Load(l) \/ Take(l) \/ NewEngine(l) \/ NoEngine(l) \/ RunEnd(l)
  PROVE  TypeOK'
<1>1. CASE Load(l)
  <2>1. todo' \in [Loop -> SUBSET Pending]
    BY <1>1, RowTypes DEF Load, TypeOK
  <2>2. \A k \in Loop : k # l => todo'[k] = todo[k] /\ pc'[k] = pc[k]
    BY <1>1 DEF Load, TypeOK, Goto
  <2>3. pc' = [pc EXCEPT ![l] = "next"] /\ cur[l] = None
    BY <1>1 DEF Load, TypeOK, Goto
  <2> QED BY <1>1, <2>1, <2>2, <2>3 DEF Load, TypeOK
<1>2. CASE Take(l)
  <2>1. PICK r \in todo[l] : /\ cur' = [cur EXCEPT ![l] = r]
                             /\ todo' = [todo EXCEPT ![l] = @ \ {r}]
    BY <1>2 DEF Take
  <2>2. r \in Pending /\ r # None
    BY StoreAssumption DEF TypeOK
  <2> QED BY <1>2, <2>1, <2>2 DEF Take, TypeOK, Goto
<1>3. CASE NewEngine(l)
  <2>1. cur[l] \in Pending
    BY <1>3 DEF NewEngine, TypeOK
  <2>2. cur[l].content.folder \in Folder /\ cur[l].name \in Name
    BY <2>1 DEF Pending, Content
  <2>3. folders[cur[l].content.folder] \in Path /\ folders[cur[l].content.folder] # None
    BY <1>3, <2>2 DEF NewEngine, Usable, TypeOK
  <2>4. late' \in [Loop -> [Name -> Nat]]
    BY <1>3, <2>2 DEF NewEngine, TypeOK
  <2> QED BY <1>3, <2>3, <2>4 DEF NewEngine, TypeOK, Goto
<1>4. CASE NoEngine(l)
  <2>1. faults' \in 0 .. MaxFaults
    BY <1>4, StoreAssumption DEF NoEngine, TypeOK
  <2> QED BY <1>4, <2>1 DEF NoEngine, TypeOK, Goto
<1>5. CASE RunEnd(l)
  BY <1>5 DEF RunEnd, TypeOK, Goto
<1> QED BY <1>1, <1>2, <1>3, <1>4, <1>5

LEMMA EndType ==
  ASSUME TypeOK, NEW l \in Loop, RoundEnd(l) \/ LoadFails(l) \/ Kill(l)
  PROVE  TypeOK'
<1>0. /\ heldConfigs' \in [Loop -> SUBSET Pending]
      /\ heldFolders' \in [Loop -> SUBSET (Folder \X Path)]
      /\ late' = late
  BY DEF RoundEnd, LoadFails, Kill, Forget, TypeOK
<1>1. CASE RoundEnd(l)
  BY <1>0, <1>1 DEF RoundEnd, TypeOK, Goto, Rest, Loop
<1>2. CASE LoadFails(l)
  <2>1. faults' \in 0 .. MaxFaults
    BY <1>2, StoreAssumption DEF LoadFails, TypeOK
  <2> QED BY <1>0, <1>2, <2>1 DEF LoadFails, TypeOK, Goto
<1>3. CASE Kill(l)
  <2>1. faults' \in 0 .. MaxFaults
    BY <1>3, StoreAssumption DEF Kill, TypeOK
  <2> QED BY <1>0, <1>3, <2>1 DEF Kill, TypeOK, Goto
<1> QED BY <1>1, <1>2, <1>3

LEMMA NextType == TypeOK /\ [Next]_vars => TypeOK'
<1> SUFFICES ASSUME TypeOK, [Next]_vars PROVE TypeOK'
  OBVIOUS
<1>1. CASE \E f \in Folder, p \in Path : AddFolder(f, p)
  BY <1>1, AddFolderType
<1>2. CASE \E f \in Folder : RemoveFolder(f)
  BY <1>2, RemoveFolderType
<1>3. CASE \E n \in Name, c \in Content : AddConfig(n, c)
  BY <1>3, AddConfigType
<1>4. CASE \E n \in Name : RemoveConfig(n)
  BY <1>4, RemoveConfigType
<1>5. CASE ClearBegin \/ Clear \/ ClearOneFails
  BY <1>5, ClearType
<1>6. ASSUME NEW l \in Loop, Start(l) \/ Step(l) \/ LoadFails(l) \/ Kill(l)
      PROVE  TypeOK'
  BY <1>6, BeginType, RoundType, EndType DEF Step
<1>7. CASE UNCHANGED vars
  BY <1>7 DEF TypeOK, vars
<1> QED BY <1>1, <1>2, <1>3, <1>4, <1>5, <1>6, <1>7 DEF Next

\* Every variable keeps its type: TypeOK (db/config.go, core/engine.go).
THEOREM TypeCorrect == Spec => []TypeOK
<1>1. Init => TypeOK
  BY InitType
<1>2. TypeOK /\ [Next]_vars => TypeOK'
  BY NextType
<1> QED BY <1>1, <1>2, PTL DEF Spec

-----------------------------------------------------------------------------
(* What a round holds: Fresh.                                              *)

LEMMA EditKeepsFresh ==
  ASSUME TypeOK, NEW k \in Loop, Fresh(k),
         UNCHANGED <<pc, todo, cur, path>>,
         heldConfigs[k] \subseteq heldConfigs'[k], heldFolders[k] \subseteq heldFolders'[k],
         InRound(k) => ConfigRows' \subseteq heldConfigs'[k] /\ FolderRows' \subseteq heldFolders'[k]
  PROVE  Fresh(k)'
BY DEF Fresh, InRound

LEMMA AddFolderFresh ==
  ASSUME TypeOK, NEW k \in Loop, Fresh(k), NEW f \in Folder, NEW p \in Path, AddFolder(f, p)
  PROVE  Fresh(k)'
<1>1. ConfigRows' = ConfigRows /\ FolderRows' \subseteq FolderRows \cup {<<f, p>>}
  BY DEF AddFolder, ConfigRows, FolderRows, TypeOK
<1>2. /\ heldConfigs'[k] = heldConfigs[k]
      /\ heldFolders'[k] = heldFolders[k] \cup IF InRound(k) THEN {<<f, p>>} ELSE {}
  BY DEF AddFolder
<1>3. InRound(k) => ConfigRows' \subseteq heldConfigs'[k] /\ FolderRows' \subseteq heldFolders'[k]
  BY <1>1, <1>2 DEF Fresh
<1>4. UNCHANGED <<pc, todo, cur, path>>
  BY DEF AddFolder
<1> QED BY <1>2, <1>3, <1>4, EditKeepsFresh

LEMMA AddConfigFresh ==
  ASSUME TypeOK, NEW k \in Loop, Fresh(k), NEW n \in Name, NEW c \in Content, AddConfig(n, c)
  PROVE  Fresh(k)'
<1> DEFINE row == [name |-> n, content |-> c]
<1>1. FolderRows' = FolderRows
  BY DEF AddConfig, FolderRows
<1>2. ConfigRows' \subseteq ConfigRows \cup {row}
  BY DEF AddConfig, ConfigRows, TypeOK
<1>3. /\ heldFolders'[k] = heldFolders[k]
      /\ heldConfigs'[k] = heldConfigs[k] \cup IF InRound(k) THEN {row} ELSE {}
  BY DEF AddConfig
<1> HIDE DEF row
<1>4. InRound(k) => ConfigRows' \subseteq heldConfigs'[k] /\ FolderRows' \subseteq heldFolders'[k]
  BY <1>1, <1>2, <1>3 DEF Fresh
<1>5. UNCHANGED <<pc, todo, cur, path>>
  BY DEF AddConfig
<1>6. heldConfigs[k] \subseteq heldConfigs'[k]
  BY <1>3
<1> QED BY <1>3, <1>4, <1>5, <1>6, EditKeepsFresh

\* Rows that go leave what a round holds as it is.
LEMMA RemoveFresh ==
  ASSUME TypeOK, NEW k \in Loop, Fresh(k),
         ClearBegin \/ Clear \/ ClearOneFails \/ (\E f \in Folder : RemoveFolder(f))
           \/ (\E n \in Name : RemoveConfig(n))
  PROVE  Fresh(k)'
<1>1. UNCHANGED <<pc, todo, cur, path, heldConfigs, heldFolders>>
  BY DEF ClearBegin, Clear, ClearOne, ClearOneFails, ClearEnd, RemoveFolder, RemoveConfig
<1>2. ConfigRows' \subseteq ConfigRows
  <2>1. CASE \E n \in Name : RemoveConfig(n)
    BY <2>1 DEF RemoveConfig, ConfigRows, TypeOK
  <2>2. CASE configs' = configs
    BY <2>2 DEF ConfigRows
  <2> QED BY <2>1, <2>2 DEF ClearBegin, Clear, ClearOne, ClearOneFails, ClearEnd, RemoveFolder
<1>3. FolderRows' \subseteq FolderRows
  <2>1. CASE \E f \in Folder : RemoveFolder(f)
    BY <2>1 DEF RemoveFolder, FolderRows, TypeOK
  <2>2. CASE ClearOne
    BY <2>2 DEF ClearOne, FolderRows, TypeOK
  <2>3. CASE folders' = folders
    BY <2>3 DEF FolderRows
  <2> QED BY <2>1, <2>2, <2>3 DEF ClearBegin, Clear, ClearOneFails, ClearEnd, RemoveConfig
<1> QED BY <1>1, <1>2, <1>3, EditKeepsFresh DEF Fresh

LEMMA OthersFresh ==
  ASSUME NEW k \in Loop, Fresh(k), UNCHANGED <<folders, configs>>,
         pc'[k] = pc[k], todo'[k] = todo[k], cur'[k] = cur[k], path'[k] = path[k],
         heldConfigs'[k] = heldConfigs[k], heldFolders'[k] = heldFolders[k]
  PROVE  Fresh(k)'
BY DEF Fresh, InRound, ConfigRows, FolderRows

LEMMA BeginFresh ==
  ASSUME TypeOK, NEW k \in Loop, Fresh(k), NEW l \in Loop, Start(l) \/ (l \in Daemon /\ Tick(l))
  PROVE  Fresh(k)'
<1>1. PICK label \in {"load", "reload"} : Begin(l, label)
  BY DEF Start, Tick
<1>2. CASE k = l
  <2>1. ConfigRows' = ConfigRows /\ FolderRows' = FolderRows
    BY <1>1 DEF Begin, ConfigRows, FolderRows
  <2>2. /\ pc'[l] = label /\ todo'[l] = {} /\ cur'[l] = None
        /\ heldConfigs'[l] = ConfigRows /\ heldFolders'[l] = FolderRows
    BY <1>1 DEF Begin, Goto, TypeOK, Start, Tick
  <2> QED BY <1>2, <2>1, <2>2 DEF Fresh, InRound
<1>3. CASE k # l
  <2>1. /\ UNCHANGED <<folders, configs>> /\ pc'[k] = pc[k] /\ todo'[k] = todo[k]
        /\ cur'[k] = cur[k] /\ path'[k] = path[k]
        /\ heldConfigs'[k] = heldConfigs[k] /\ heldFolders'[k] = heldFolders[k]
    BY <1>1, <1>3 DEF Begin, Goto, TypeOK
  <2> QED BY <2>1, OthersFresh
<1> QED BY <1>2, <1>3

LEMMA RoundFresh ==
  ASSUME TypeOK, NEW k \in Loop, Fresh(k), NEW l \in Loop,
         Load(l) \/ Take(l) \/ NewEngine(l) \/ NoEngine(l) \/ RunEnd(l)
  PROVE  Fresh(k)'
<1>0. UNCHANGED <<folders, configs, heldConfigs, heldFolders>>
  BY DEF Load, Take, NewEngine, NoEngine, RunEnd
<1>1. ConfigRows' = ConfigRows /\ FolderRows' = FolderRows
  BY <1>0 DEF ConfigRows, FolderRows
<1>2. CASE k # l
  <2>1. pc'[k] = pc[k] /\ todo'[k] = todo[k] /\ cur'[k] = cur[k] /\ path'[k] = path[k]
    BY <1>2 DEF Load, Take, NewEngine, NoEngine, RunEnd, Goto, TypeOK
  <2> QED BY <1>0, <2>1, OthersFresh
<1>3. CASE k = l /\ Load(l)
  <2>1. todo'[l] \subseteq ConfigRows /\ pc'[l] = "next" /\ cur' = cur /\ InRound(l)
    BY <1>3 DEF Load, TypeOK, Goto, InRound
  <2> QED BY <1>0, <1>1, <1>3, <2>1 DEF Fresh, InRound
<1>4. CASE k = l /\ Take(l)
  <2>1. cur'[l] \in todo[l] /\ todo'[l] \subseteq todo[l] /\ pc'[l] = "engine" /\ InRound(l)
    BY <1>4 DEF Take, TypeOK, Goto, InRound
  <2> QED BY <1>0, <1>1, <1>4, <2>1 DEF Fresh, InRound
<1>5. CASE k = l /\ NewEngine(l)
  <2>1. cur[l] \in Pending /\ cur[l] # None
    BY <1>5 DEF NewEngine, TypeOK
  <2>2. cur[l].content.folder \in Folder
    BY <2>1 DEF Pending, Content
  <2>3. <<cur[l].content.folder, folders[cur[l].content.folder]>> \in FolderRows
    BY <1>5, <2>2 DEF NewEngine, Usable, FolderRows
  <2>4. /\ pc'[l] = "run" /\ UNCHANGED <<todo, cur>> /\ InRound(l)
        /\ path'[l] = folders[cur[l].content.folder]
    BY <1>5 DEF NewEngine, TypeOK, Goto, InRound
  <2>5. <<cur'[l].content.folder, path'[l]>> \in heldFolders'[l]
    BY <1>0, <1>5, <2>3, <2>4 DEF Fresh
  <2> QED BY <1>0, <1>1, <1>5, <2>4, <2>5 DEF Fresh, InRound
<1>6. CASE k = l /\ (NoEngine(l) \/ RunEnd(l))
  <2>1. pc'[l] = "next" /\ todo' = todo /\ cur'[l] = None /\ InRound(l)
    BY <1>6 DEF NoEngine, RunEnd, TypeOK, Goto, InRound
  <2> QED BY <1>0, <1>1, <1>6, <2>1 DEF Fresh, InRound
<1> QED BY <1>2, <1>3, <1>4, <1>5, <1>6

LEMMA EndFresh ==
  ASSUME TypeOK, NEW k \in Loop, Fresh(k), NEW l \in Loop,
         RoundEnd(l) \/ LoadFails(l) \/ Kill(l)
  PROVE  Fresh(k)'
<1>1. CASE k # l
  <2>1. /\ UNCHANGED <<folders, configs>> /\ pc'[k] = pc[k] /\ todo'[k] = todo[k]
        /\ cur'[k] = cur[k] /\ path'[k] = path[k]
        /\ heldConfigs'[k] = heldConfigs[k] /\ heldFolders'[k] = heldFolders[k]
    BY <1>1 DEF RoundEnd, LoadFails, Kill, Forget, Goto, TypeOK
  <2> QED BY <2>1, OthersFresh
<1>2. CASE k = l
  <2>1. pc'[l] \in {"off", "wait"} /\ todo'[l] = {} /\ cur'[l] = None
    BY DEF RoundEnd, LoadFails, Kill, Rest, Goto, TypeOK
  <2> QED BY <1>2, <2>1 DEF Fresh, InRound
<1> QED BY <1>1, <1>2

LEMMA NextFresh ==
  ASSUME TypeOK, NEW k \in Loop, Fresh(k), [Next]_vars PROVE Fresh(k)'
<1>1. CASE \E f \in Folder, p \in Path : AddFolder(f, p)
  BY <1>1, AddFolderFresh
<1>2. CASE \E n \in Name, c \in Content : AddConfig(n, c)
  BY <1>2, AddConfigFresh
<1>3. CASE ClearBegin \/ Clear \/ ClearOneFails \/ (\E f \in Folder : RemoveFolder(f))
             \/ (\E n \in Name : RemoveConfig(n))
  BY <1>3, RemoveFresh
<1>4. ASSUME NEW l \in Loop, Start(l) \/ Step(l) \/ LoadFails(l) \/ Kill(l)
      PROVE  Fresh(k)'
  BY <1>4, BeginFresh, RoundFresh, EndFresh DEF Step
<1>5. CASE UNCHANGED vars
  BY <1>5, OthersFresh DEF vars
<1> QED BY <1>1, <1>2, <1>3, <1>4, <1>5 DEF Next

-----------------------------------------------------------------------------
(* What is left of a round: Once, and the runs counted by Late.            *)

LEMMA OthersOnce ==
  ASSUME NEW k \in Loop, Once(k), pc'[k] = pc[k], todo'[k] = todo[k], cur'[k] = cur[k]
  PROVE  Once(k)'
BY DEF Once

LEMMA NextOnce ==
  ASSUME TypeOK, NEW k \in Loop, Once(k), [Next]_vars PROVE Once(k)'
<1>1. CASE UNCHANGED <<pc, todo, cur>>
  BY <1>1, OthersOnce
<1>2. ASSUME NEW l \in Loop, Start(l) \/ Step(l) \/ LoadFails(l) \/ Kill(l)
      PROVE  Once(k)'
  <2>1. CASE k # l
    <3>1. pc'[k] = pc[k] /\ todo'[k] = todo[k] /\ cur'[k] = cur[k]
      <4>1. CASE Start(l) \/ (l \in Daemon /\ Tick(l))
        BY <2>1, <4>1 DEF Start, Tick, Begin, Goto, TypeOK
      <4>2. CASE Load(l) \/ Take(l) \/ NewEngine(l)
        BY <2>1, <4>2 DEF Load, Take, NewEngine, Goto, TypeOK
      <4>3. CASE NoEngine(l) \/ RunEnd(l)
        BY <2>1, <4>3 DEF NoEngine, RunEnd, Goto, TypeOK
      <4>4. CASE RoundEnd(l) \/ LoadFails(l) \/ Kill(l)
        BY <2>1, <4>4 DEF RoundEnd, LoadFails, Kill, Goto, TypeOK
      <4> QED BY <1>2, <4>1, <4>2, <4>3, <4>4 DEF Step
    <3> QED BY <3>1, OthersOnce
  <2>2. CASE k = l /\ Load(l)
    <3>1. \A r, s \in ConfigRows : r.name = s.name => r = s
      BY DEF ConfigRows
    <3>2. todo'[l] \subseteq ConfigRows /\ pc'[l] = "next"
      BY <2>2 DEF Load, TypeOK, Goto
    <3> QED BY <2>2, <3>1, <3>2 DEF Once
  <2>3. CASE k = l /\ Take(l)
    <3>1. PICK r \in todo[l] : cur'[l] = r /\ todo'[l] = todo[l] \ {r}
      BY <2>3 DEF Take, TypeOK
    <3> QED BY <2>3, <3>1 DEF Once
  <2>4. CASE k = l /\ (NewEngine(l) \/ NoEngine(l) \/ RunEnd(l))
    <3>1. todo'[l] = todo[l] /\ pc'[l] \in {"run", "next"}
      BY <2>4 DEF NewEngine, NoEngine, RunEnd, TypeOK, Goto
    <3> QED BY <2>4, <3>1 DEF Once
  <2>5. CASE k = l /\ (Start(l) \/ (l \in Daemon /\ Tick(l)) \/ RoundEnd(l) \/ LoadFails(l) \/ Kill(l))
    <3>1. todo'[l] = {} /\ pc'[l] # "engine"
      <4>1. CASE Start(l) \/ (l \in Daemon /\ Tick(l))
        BY <4>1 DEF Start, Tick, Begin, Goto, TypeOK
      <4>2. CASE RoundEnd(l) \/ LoadFails(l) \/ Kill(l)
        BY <4>2 DEF RoundEnd, LoadFails, Kill, Rest, Goto, TypeOK
      <4> QED BY <2>5, <4>1, <4>2
    <3> QED BY <2>5, <3>1 DEF Once
  <2> QED BY <1>2, <2>1, <2>2, <2>3, <2>4, <2>5 DEF Step
<1>3. CASE UNCHANGED vars
  BY <1>1, <1>3 DEF vars
<1> QED BY <1>1, <1>2, <1>3
     DEF Next, AddFolder, RemoveFolder, AddConfig, RemoveConfig, ClearBegin, Clear,
         ClearOne, ClearOneFails, ClearEnd

LEMMA OthersLate ==
  ASSUME NEW k \in Loop, Late(k), configs' = configs, late'[k] = late[k],
         \A n \in Name : DueRun(k, n)' => DueRun(k, n)
  PROVE  Late(k)'
BY DEF Late

LEMMA EditLate ==
  ASSUME TypeOK, NEW k \in Loop, Late(k), NEW n \in Name,
         RemoveConfig(n) \/ (\E c \in Content : AddConfig(n, c))
  PROVE  Late(k)'
<1>1. \A m \in Name : DueRun(k, m)' = DueRun(k, m)
  BY DEF RemoveConfig, AddConfig, DueRun
<1>2. \A m \in Name : m # n => configs'[m] = configs[m] /\ late'[k][m] = late[k][m]
  BY DEF RemoveConfig, AddConfig, TypeOK
<1>3. late'[k][n] = 0
  <2>1. CASE RemoveConfig(n)
    BY <2>1 DEF RemoveConfig, Late
  <2>2. CASE \E c \in Content : AddConfig(n, c)
    BY <2>2 DEF AddConfig, TypeOK
  <2> QED BY <2>1, <2>2
<1> QED BY <1>1, <1>2, <1>3 DEF Late

LEMMA StepLate ==
  ASSUME TypeOK, NEW k \in Loop, Late(k), Once(k), NEW l \in Loop,
         Start(l) \/ Step(l) \/ LoadFails(l) \/ Kill(l)
  PROVE  Late(k)'
<1>0. configs' = configs
  BY DEF Step, Start, Tick, Begin, Load, Take, NewEngine, NoEngine, RunEnd, RoundEnd,
         LoadFails, Kill
<1>1. CASE Load(l)
  <2>1. late' = late
    BY <1>1 DEF Load
  <2>2. \A n \in Name : k = l /\ DueRun(k, n)' => configs[n] # None
    <3>1. todo'[l] \subseteq ConfigRows /\ pc'[l] = "next"
      BY <1>1 DEF Load, TypeOK, Goto
    <3> QED BY <3>1, RowTypes DEF DueRun
  <2>3. \A n \in Name : k # l /\ DueRun(k, n)' => DueRun(k, n)
    BY <1>1 DEF Load, DueRun, TypeOK, Goto
  <2> QED BY <1>0, <2>1, <2>2, <2>3 DEF Late
<1>2. CASE NewEngine(l)
  <2>1. cur[l] \in Pending /\ cur[l].name \in Name
    BY <1>2 DEF NewEngine, TypeOK, Pending
  <2>2. CASE k # l
    <3>1. late'[k] = late[k] /\ \A n \in Name : DueRun(k, n)' => DueRun(k, n)
      BY <1>2, <2>2 DEF NewEngine, DueRun, TypeOK, Goto
    <3> QED BY <1>0, <3>1, OthersLate
  <2>3. CASE k = l
    <3>1. PICK m \in Name : m = cur[l].name
      BY <2>1
    <3>2. late[l][m] = 0
      BY <1>2, <2>3, <3>1 DEF NewEngine, DueRun, Late
    <3>3. ~DueRun(l, m)'
      BY <1>2, <2>3, <3>1 DEF NewEngine, DueRun, Once, TypeOK, Goto
    <3>4. late'[l][m] = IF configs[m] = None THEN 1 ELSE 0
      BY <1>2, <3>1, <3>2 DEF NewEngine, TypeOK
    <3>5. \A n \in Name : n # m =>
            late'[l][n] = late[l][n] /\ (DueRun(l, n)' => DueRun(l, n))
      BY <1>2, <3>1 DEF NewEngine, DueRun, TypeOK, Goto
    <3>6. ASSUME NEW n \in Name
          PROVE  late'[l][n] <= 1 /\ (configs'[n] # None \/ DueRun(l, n)' => late'[l][n] = 0)
      <4>1. CASE n = m
        BY <1>0, <3>3, <3>4, <4>1
      <4>2. CASE n # m
        BY <1>0, <2>3, <3>5, <4>2 DEF Late
      <4> QED BY <4>1, <4>2
    <3> QED BY <2>3, <3>6 DEF Late
  <2> QED BY <2>2, <2>3
<1>3. CASE Take(l)
  <2>1. PICK r \in todo[l] : cur' = [cur EXCEPT ![l] = r] /\ todo'[l] = todo[l] \ {r}
    BY <1>3 DEF Take, TypeOK
  <2>2. late' = late
    BY <1>3 DEF Take
  <2>3. \A n \in Name : DueRun(k, n)' => DueRun(k, n)
    BY <1>3, <2>1 DEF Take, DueRun, TypeOK, Goto
  <2> QED BY <1>0, <2>2, <2>3, OthersLate
<1>4. CASE Start(l) \/ (l \in Daemon /\ Tick(l))
  <2>1. late' = late /\ \A n \in Name : DueRun(k, n)' => DueRun(k, n)
    BY <1>4 DEF Start, Tick, Begin, DueRun, TypeOK, Goto
  <2> QED BY <1>0, <2>1, OthersLate
<1>5. CASE NoEngine(l) \/ RunEnd(l)
  <2>1. late' = late /\ \A n \in Name : DueRun(k, n)' => DueRun(k, n)
    BY <1>5 DEF NoEngine, RunEnd, DueRun, TypeOK, Goto
  <2> QED BY <1>0, <2>1, OthersLate
<1>6. CASE RoundEnd(l) \/ LoadFails(l) \/ Kill(l)
  <2>1. late' = late /\ \A n \in Name : DueRun(k, n)' => DueRun(k, n)
    BY <1>6 DEF RoundEnd, LoadFails, Kill, Forget, Rest, DueRun, TypeOK, Goto
  <2> QED BY <1>0, <2>1, OthersLate
<1> QED BY <1>1, <1>2, <1>3, <1>4, <1>5, <1>6 DEF Step

LEMMA NextLate ==
  ASSUME TypeOK, NEW k \in Loop, Late(k), Once(k), [Next]_vars PROVE Late(k)'
<1>1. CASE \E n \in Name : RemoveConfig(n) \/ (\E c \in Content : AddConfig(n, c))
  BY <1>1, EditLate
<1>2. CASE UNCHANGED <<configs, late, pc, todo, cur>>
  BY <1>2, OthersLate DEF DueRun
<1>3. ASSUME NEW l \in Loop, Start(l) \/ Step(l) \/ LoadFails(l) \/ Kill(l)
      PROVE  Late(k)'
  BY <1>3, StepLate
<1> QED BY <1>1, <1>2, <1>3
     DEF Next, AddFolder, RemoveFolder, ClearBegin, Clear, ClearOne, ClearOneFails, ClearEnd, vars

-----------------------------------------------------------------------------
(* What the clearing has still to remove, and the invariant as a whole.    *)

LEMMA NextClear == TypeOK /\ ClearInv /\ [Next]_vars => ClearInv'
<1> SUFFICES ASSUME TypeOK, ClearInv, [Next]_vars PROVE ClearInv'
  OBVIOUS
<1>1. CASE \E f \in Folder, p \in Path : AddFolder(f, p)
  BY <1>1 DEF AddFolder, ClearInv, Registered, TypeOK
<1>2. CASE \E f \in Folder : RemoveFolder(f)
  BY <1>2 DEF RemoveFolder, ClearInv, Registered, TypeOK
<1>3. CASE ClearBegin
  BY <1>3 DEF ClearBegin, ClearInv, Registered
<1>4. CASE Clear \/ ClearOneFails
  BY <1>4 DEF Clear, ClearOne, ClearOneFails, ClearEnd, ClearInv, Registered, TypeOK
<1>5. CASE UNCHANGED <<folders, clearing, left, added, kept>>
  BY <1>5 DEF ClearInv, Registered
<1> QED BY <1>1, <1>2, <1>3, <1>4, <1>5
     DEF Next, AddConfig, RemoveConfig, Start, Step, Tick, Begin, Load, Take, NewEngine,
         NoEngine, RunEnd, RoundEnd, LoadFails, Kill, vars

LEMMA InitRound == Init => RoundInv
BY DEF Init, RoundInv, ClearInv, Fresh, Once, Late, DueRun, InRound

LEMMA NextRound == TypeOK /\ RoundInv /\ [Next]_vars => RoundInv'
<1> SUFFICES ASSUME TypeOK, RoundInv, [Next]_vars PROVE RoundInv'
  OBVIOUS
<1>1. ClearInv'
  BY NextClear DEF RoundInv
<1>2. ASSUME NEW k \in Loop PROVE Fresh(k)' /\ Once(k)' /\ Late(k)'
  BY NextFresh, NextOnce, NextLate DEF RoundInv
<1> QED BY <1>1, <1>2 DEF RoundInv

LEMMA Invariance == Spec => [](TypeOK /\ RoundInv)
<1>1. Init => TypeOK /\ RoundInv
  BY InitType, InitRound
<1>2. TypeOK /\ RoundInv /\ [Next]_vars => (TypeOK /\ RoundInv)'
  BY NextType, NextRound
<1> QED BY <1>1, <1>2, PTL DEF Spec

\* Whatever is edited meanwhile, the config and the path of a run were
\* registered during its round: RunIsFresh (Daemon, NewSyncEngine).
THEOREM NothingStaleRuns == Spec => []RunIsFresh
<1>1. TypeOK /\ RoundInv => RunIsFresh
  BY DEF TypeOK, RoundInv, Fresh, RunIsFresh
<1> QED BY <1>1, Invariance, PTL

\* A loop begins at most one run of a config that was removed: AtMostOnceMore
\* (Daemon, RemoveSyncConfig).
THEOREM RemovedRunsOnce == Spec => []AtMostOnceMore
<1>1. RoundInv => AtMostOnceMore
  BY DEF RoundInv, Late, AtMostOnceMore
<1> QED BY <1>1, Invariance, PTL

\* "Clear folders" leaves only what was added meanwhile, and what it failed to
\* list or to remove without a word: ClearsWhatWasListed
\* (handleFolderClear).
THEOREM ClearLeavesNothing == Spec => ClearsWhatWasListed
<1>1. TypeOK /\ RoundInv /\ [Next]_vars =>
        [clearing /\ ~clearing' => Registered \subseteq added \cup kept]_vars
  <2> SUFFICES ASSUME RoundInv, [Next]_vars, clearing, ~clearing'
               PROVE  Registered \subseteq added \cup kept
    OBVIOUS
  <2>1. ClearEnd
    <3>1. CASE UNCHANGED vars
      BY <3>1 DEF vars
    <3>2. ASSUME NEW l \in Loop, Start(l) \/ Step(l) \/ LoadFails(l) \/ Kill(l)
          PROVE  FALSE
      BY <3>2 DEF Start, Step, Tick, Begin, Load, Take, NewEngine, NoEngine, RunEnd, RoundEnd,
                  LoadFails, Kill
    <3>3. CASE ClearBegin \/ Clear \/ ClearOneFails \/ \E f \in Folder : RemoveFolder(f)
      BY <3>3 DEF ClearBegin, Clear, ClearOne, ClearOneFails, RemoveFolder
    <3>4. ASSUME NEW f \in Folder, NEW p \in Path, AddFolder(f, p) PROVE FALSE
      BY <3>4 DEF AddFolder
    <3>5. ASSUME NEW n \in Name, NEW c \in Content, AddConfig(n, c) PROVE FALSE
      BY <3>5 DEF AddConfig
    <3>6. ASSUME NEW n \in Name, RemoveConfig(n) PROVE FALSE
      BY <3>6 DEF RemoveConfig
    <3> QED BY <3>1, <3>2, <3>3, <3>4, <3>5, <3>6 DEF Next
  <2> QED BY <2>1 DEF ClearEnd, RoundInv, ClearInv
<1> QED BY <1>1, Invariance, PTL DEF Spec, ClearsWhatWasListed

-----------------------------------------------------------------------------
(* What a round has yet to run, and how long it can be.                    *)

\* Where a loop is with a config, or behind its round.
Stage(l) ==
  CASE pc[l] \in {"load", "reload"} -> 1
    [] pc[l] = "engine"             -> 2
    [] pc[l] = "run"                -> 3
    [] pc[l] = "next"               -> 4
    [] OTHER                        -> 5

\* The round of l gets shorter: the configs are loaded, or one of them is taken, or
\* the one that was taken comes further.
Nearer(l) ==
  \/ pc[l] \in {"load", "reload"} /\ pc'[l] = "next"
  \/ todo'[l] \subseteq todo[l] /\ todo'[l] # todo[l]
  \/ todo'[l] = todo[l] /\ Stage(l) < Stage(l)'

\* A config leaves what a round has to do only because its run begins, because it
\* cannot be run, or because of a failure.
Dropped(l, n) ==
  \/ pc'[l] = "run" /\ cur'[l].name = n
  \/ pc[l] = "engine" /\ cur[l].name = n /\ ~Usable(cur[l].content)
  \/ faults < faults'

LEMMA OtherLoops ==
  ASSUME TypeOK, NEW l \in Loop, NEW k \in Loop, k # l,
         Start(l) \/ Step(l) \/ LoadFails(l) \/ Kill(l)
  PROVE  UNCHANGED <<pc[k], todo[k], cur[k]>>
<1> USE DEF TypeOK, Goto
<1>1. CASE Start(l) \/ (l \in Daemon /\ Tick(l))
  BY <1>1 DEF Start, Tick, Begin
<1>2. CASE Load(l) \/ Take(l) \/ NewEngine(l)
  BY <1>2 DEF Load, Take, NewEngine
<1>3. CASE NoEngine(l) \/ RunEnd(l)
  BY <1>3 DEF NoEngine, RunEnd
<1>4. CASE RoundEnd(l) \/ LoadFails(l) \/ Kill(l)
  BY <1>4 DEF RoundEnd, LoadFails, Kill
<1> QED BY <1>1, <1>2, <1>3, <1>4 DEF Step

LEMMA StepNearer ==
  ASSUME TypeOK, NEW l \in Loop, Step(l), InRound(l)
  PROVE  /\ Nearer(l)
         /\ \A n \in Name : DueRun(l, n) => DueRun(l, n)' \/ Dropped(l, n)
<1> USE DEF TypeOK, Goto
<1>1. CASE Load(l)
  <2>1. pc'[l] = "next" /\ \A n \in Name : ~DueRun(l, n)
    BY <1>1 DEF Load, DueRun
  <2> QED BY <1>1, <2>1 DEF Nearer, Load
<1>2. CASE Take(l)
  <2>1. PICK r \in todo[l] : cur'[l] = r /\ todo'[l] = todo[l] \ {r}
    BY <1>2 DEF Take
  <2>2. pc'[l] = "engine" /\ \A n \in Name : DueRun(l, n) => DueRun(l, n)'
    BY <1>2, <2>1 DEF Take, DueRun
  <2> QED BY <2>1, <2>2 DEF Nearer
<1>3. CASE NewEngine(l)
  <2>1. pc[l] = "engine" /\ pc'[l] = "run" /\ cur' = cur /\ todo' = todo
    BY <1>3 DEF NewEngine
  <2>2. Stage(l) < Stage(l)'
    BY <2>1 DEF Stage
  <2> QED BY <2>1, <2>2 DEF Nearer, DueRun, Dropped
<1>4. CASE NoEngine(l)
  <2>1. pc[l] = "engine" /\ pc'[l] = "next" /\ todo' = todo
    BY <1>4 DEF NoEngine
  <2>2. Stage(l) < Stage(l)'
    BY <2>1 DEF Stage
  <2>3. ~Usable(cur[l].content) \/ faults < faults'
    BY <1>4, StoreAssumption DEF NoEngine
  <2> QED BY <2>1, <2>2, <2>3 DEF Nearer, DueRun, Dropped
<1>5. CASE RunEnd(l)
  <2>1. pc[l] = "run" /\ pc'[l] = "next" /\ todo' = todo
    BY <1>5 DEF RunEnd
  <2>2. Stage(l) < Stage(l)'
    BY <2>1 DEF Stage
  <2> QED BY <2>1, <2>2 DEF Nearer, DueRun
<1>6. CASE RoundEnd(l)
  <2>1. pc[l] = "next" /\ pc'[l] \in {"wait", "off"} /\ todo' = todo /\ todo[l] = {}
    BY <1>6 DEF RoundEnd, Rest
  <2>2. Stage(l) < Stage(l)'
    BY <2>1 DEF Stage
  <2> QED BY <2>1, <2>2 DEF Nearer, DueRun
<1>7. CASE l \in Daemon /\ Tick(l)
  BY <1>7 DEF Tick, InRound
<1> QED BY <1>1, <1>2, <1>3, <1>4, <1>5, <1>6, <1>7 DEF Step

\* The safety half of RunsAgain.  A daemon that loads its configs has all of them to
\* run, whatever ran or failed before; from then on none leaves the round but by its
\* run, by having no folder or transport when its turn comes, or by a failure; each
\* step of the loop brings the round nearer to its end, and nothing that commands,
\* handlers and other loops do takes it back (the loop of Daemon, core/engine.go:228).
THEOREM NothingPassedOver ==
  Spec => [][\A l \in Loop :
               /\ Step(l) /\ InRound(l) => Nearer(l)
               /\ \/ Start(l) \/ Step(l) \/ LoadFails(l) \/ Kill(l)
                  \/ UNCHANGED <<pc[l], todo[l], cur[l]>>
               /\ \A n \in Name :
                    /\ DueRun(l, n) => DueRun(l, n)' \/ Dropped(l, n)
                    /\ Load(l) /\ l \in Daemon /\ configs[n] # None => DueRun(l, n)']_vars
<1>1. ASSUME TypeOK, Next, NEW l \in Loop
      PROVE  /\ Step(l) /\ InRound(l) => Nearer(l)
             /\ \/ Start(l) \/ Step(l) \/ LoadFails(l) \/ Kill(l)
                \/ UNCHANGED <<pc[l], todo[l], cur[l]>>
             /\ \A n \in Name :
                  /\ DueRun(l, n) => DueRun(l, n)' \/ Dropped(l, n)
                  /\ Load(l) /\ l \in Daemon /\ configs[n] # None => DueRun(l, n)'
  <2>1. Step(l) /\ InRound(l) => Nearer(l)
    BY <1>1, StepNearer
  <2>2. \/ Start(l) \/ Step(l) \/ LoadFails(l) \/ Kill(l)
        \/ UNCHANGED <<pc[l], todo[l], cur[l]>>
    <3>1. ASSUME NEW k \in Loop, k # l, Start(k) \/ Step(k) \/ LoadFails(k) \/ Kill(k)
          PROVE  UNCHANGED <<pc[l], todo[l], cur[l]>>
      BY <1>1, <3>1, OtherLoops
    <3> QED BY <1>1, <3>1
         DEF Next, AddFolder, RemoveFolder, AddConfig, RemoveConfig, ClearBegin, Clear,
             ClearOne, ClearOneFails, ClearEnd
  <2>3. ASSUME NEW n \in Name, DueRun(l, n) PROVE DueRun(l, n)' \/ Dropped(l, n)
    <3>1. InRound(l)
      BY <1>1, <2>3 DEF DueRun, InRound, TypeOK
    <3>2. CASE Step(l)
      BY <1>1, <2>3, <3>1, <3>2, StepNearer
    <3>3. CASE LoadFails(l) \/ Kill(l)
      BY <1>1, <3>3, StoreAssumption DEF LoadFails, Kill, Dropped, TypeOK
    <3>4. CASE Start(l)
      BY <3>1, <3>4 DEF Start, InRound
    <3>5. CASE UNCHANGED <<pc[l], todo[l], cur[l]>>
      BY <2>3, <3>5 DEF DueRun
    <3> QED BY <2>2, <3>2, <3>3, <3>4, <3>5
  <2>4. ASSUME NEW n \in Name, Load(l), l \in Daemon, configs[n] # None
        PROVE  DueRun(l, n)'
    <3>1. todo'[l] = ConfigRows
      BY <1>1, <2>4, StoreAssumption DEF Load, TypeOK
    <3>2. [name |-> n, content |-> configs[n]] \in ConfigRows
      BY <2>4 DEF ConfigRows
    <3> QED BY <3>1, <3>2 DEF DueRun
  <2> QED BY <2>1, <2>2, <2>3, <2>4
<1>2. TypeOK /\ [Next]_vars
        => [\A l \in Loop :
              /\ Step(l) /\ InRound(l) => Nearer(l)
              /\ \/ Start(l) \/ Step(l) \/ LoadFails(l) \/ Kill(l)
                 \/ UNCHANGED <<pc[l], todo[l], cur[l]>>
              /\ \A n \in Name :
                   /\ DueRun(l, n) => DueRun(l, n)' \/ Dropped(l, n)
                   /\ Load(l) /\ l \in Daemon /\ configs[n] # None => DueRun(l, n)']_vars
  BY <1>1
<1> QED BY <1>2, TypeCorrect, PTL DEF Spec

=============================================================================
