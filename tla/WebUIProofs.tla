---------------------------- MODULE WebUIProofs ----------------------------
(* Proofs about WebUI: one UI at a time, and a UI that is used stays.      *)
EXTENDS WebUI, TLAPS

USE DEF lifeVars, settingVars

-----------------------------------------------------------------------------
(* Types.                                                                  *)

\* What a listener means: who holds a port and where it stands.
Held(g) == pc[g] \in {"save", "bound", "serving"}

LEMMA InitType == Init => TypeOK
<1> SUFFICES ASSUME Init PROVE TypeOK
  OBVIOUS
<1>1. /\ 0 \in 0 .. LastPort /\ 0 \in 0 .. Silence + 1 /\ 0 \in 0 .. Beat
      /\ Window \in 0 .. Window /\ 0 \in 0 .. MaxStarts /\ 0 \in 0 .. MaxForeign
      /\ 0 \in 0 .. MaxMissed
  BY WebAssumption
<1>2. listener \in [Ports -> Gui \cup {Free, Foreign}]
  BY DEF Init
<1>3. \A g \in Gui : \A p \in Ports : listener[p] # g /\ pc[g] = "off"
  BY WebAssumption DEF Init
<1> QED BY <1>1, <1>2, <1>3 DEF Init, TypeOK

LEMMA StartType ==
  ASSUME TypeOK, NEW g \in Gui, Start(g) \/ StartUnread(g)
  PROVE  TypeOK'
<1>1. starts' \in 0 .. MaxStarts
  BY WebAssumption DEF Start, StartUnread, TypeOK
<1>2. port' \in [Gui -> 0 .. LastPort]
  BY WebAssumption DEF Start, StartUnread, TypeOK
<1>3. CASE Start(g)
  BY <1>1, <1>2, <1>3 DEF Start, TypeOK, Goto
<1>4. CASE StartUnread(g)
  <2>1. blind' = blind \/ blind' = blind \cup {g}
    BY <1>4 DEF StartUnread
  <2>2. blind' \subseteq Gui
    BY <2>1 DEF TypeOK
  <2>3. dbOk' \in BOOLEAN
    BY <1>4, Zenon DEF StartUnread
  <2>4. /\ UNCHANGED <<listener, saved, lifeVars, foreigns, missed>>
        /\ pc[g] = "off" /\ pc' = [pc EXCEPT ![g] = "bind"]
        /\ port' = [port EXCEPT ![g] = 1]
    BY <1>4 DEF StartUnread, Goto
  <2>5. \A h \in Gui : \A p \in Ports : listener'[p] = h <=> Held(h)' /\ p = port'[h]
    BY <2>4 DEF TypeOK, Held
  <2> QED BY <1>1, <1>2, <2>2, <2>3, <2>4, <2>5 DEF TypeOK, Held
<1> QED BY <1>3, <1>4

LEMMA SearchType ==
  ASSUME TypeOK, NEW g \in Gui, BindSaved(g) \/ PingSaved(g) \/ BindNext(g) \/ PingNext(g),
         port[g] \in Ports
  PROVE  TypeOK'
<1>1. CASE BindSaved(g)
  BY <1>1, WebAssumption DEF BindSaved, Bind, TypeOK, Goto
<1>2. CASE PingSaved(g)
  <2>1. port' \in [Gui -> 0 .. LastPort]
    BY <1>2, WebAssumption DEF PingSaved, TypeOK
  <2> QED BY <1>2, <2>1 DEF PingSaved, TypeOK, Goto
<1>3. CASE BindNext(g)
  BY <1>3, WebAssumption DEF BindNext, Bind, TypeOK, Goto
<1>4. CASE PingNext(g)
  <2>1. port' \in [Gui -> 0 .. LastPort]
    <3>1. CASE Brother(g) \/ port[g] = LastPort
      BY <1>4, <3>1 DEF PingNext, TypeOK
    <3>2. CASE ~(Brother(g) \/ port[g] = LastPort)
      <4>1. port' = [port EXCEPT ![g] = @ + 1]
        BY <1>4, <3>2 DEF PingNext
      <4>2. port[g] + 1 \in 0 .. LastPort
        BY <3>2, WebAssumption DEF Ports
      <4> QED BY <4>1, <4>2 DEF TypeOK
    <3> QED BY <3>1, <3>2
  <2> QED BY <1>4, <2>1 DEF PingNext, TypeOK, Goto
<1> QED BY <1>1, <1>2, <1>3, <1>4

LEMMA ServeType ==
  ASSUME TypeOK, NEW g \in Gui, Save(g) \/ SaveFails(g) \/ Serve(g) \/ ServeUnheard(g)
  PROVE  TypeOK'
<1>1. CASE Save(g)
  BY <1>1 DEF Save, TypeOK, Goto
<1>3. CASE SaveFails(g)
  <2>1. dbOk' \in BOOLEAN
    BY <1>3, Zenon DEF SaveFails
  <2>2. /\ UNCHANGED <<listener, saved, port, lifeVars, starts, foreigns, missed>>
        /\ pc[g] = "save" /\ pc' = [pc EXCEPT ![g] = "bound"] /\ blind' = blind \ {g}
    BY <1>3 DEF SaveFails, Goto
  <2> QED BY <2>1, <2>2 DEF TypeOK
<1>2. CASE Serve(g) \/ ServeUnheard(g)
  BY <1>2, WebAssumption DEF Serve, ServeUnheard, TypeOK, Goto
<1> QED BY <1>1, <1>2, <1>3

LEMMA LifeType ==
  ASSUME TypeOK, NEW g \in Gui,
         Open(g) \/ Close(g) \/ Ping(g) \/ Heartbeat(g) \/ MissHeartbeat(g)
  PROVE  TypeOK'
<1>1. CASE Open(g) \/ Close(g)
  BY <1>1 DEF Open, Close, TypeOK
<1>2. CASE Ping(g)
  BY <1>2, WebAssumption DEF Ping, TypeOK
<1>3. CASE Heartbeat(g) \/ MissHeartbeat(g)
  BY <1>3, WebAssumption DEF Heartbeat, MissHeartbeat, TypeOK
<1> QED BY <1>1, <1>2, <1>3

LEMMA EndType == ASSUME TypeOK, NEW g \in Gui, End(g) PROVE TypeOK'
<1>1. /\ silent' \in [Gui -> 0 .. Silence + 1] /\ due' \in [Gui -> 0 .. Beat]
      /\ port' \in [Gui -> 0 .. LastPort] /\ age' \in [Gui -> 0 .. Window]
  BY WebAssumption DEF End, TypeOK
<1>2. listener' \in [Ports -> Gui \cup {Free, Foreign}]
  BY DEF End, TypeOK
<1>3. \A h \in Gui : \A p \in Ports : listener'[p] = h <=> Held(h)' /\ p = port'[h]
  BY WebAssumption DEF End, TypeOK, Goto, Held
<1> QED BY <1>1, <1>2, <1>3 DEF End, TypeOK, Held

LEMMA OtherType ==
  ASSUME TypeOK, Tick \/ \E p \in Ports : TakePort(p) \/ LetGo(p)
  PROVE  TypeOK'
<1>1. CASE Tick
  <2>1. /\ silent' \in [Gui -> 0 .. Silence + 1] /\ due' \in [Gui -> 0 .. Beat]
        /\ age' \in [Gui -> 0 .. Window]
    BY <1>1, WebAssumption DEF Tick, TypeOK, Serving
  <2> QED BY <1>1, <2>1 DEF Tick, TypeOK
<1>2. ASSUME NEW p \in Ports, TakePort(p) PROVE TypeOK'
  BY <1>2, WebAssumption DEF TakePort, TypeOK
<1>3. ASSUME NEW p \in Ports, LetGo(p) PROVE TypeOK'
  BY <1>3, WebAssumption DEF LetGo, TypeOK
<1> QED BY <1>1, <1>2, <1>3

\* The steps of a UI, as they are grouped below.
LEMMA NextCases ==
  ASSUME [Next]_vars
  PROVE  \/ \E g \in Gui : \/ Start(g) \/ StartUnread(g)
                           \/ BindSaved(g) \/ PingSaved(g) \/ BindNext(g) \/ PingNext(g)
                           \/ Save(g) \/ SaveFails(g) \/ Serve(g) \/ ServeUnheard(g)
                           \/ Open(g) \/ Close(g) \/ Ping(g) \/ Heartbeat(g) \/ MissHeartbeat(g)
                           \/ Exit(g) \/ Leave(g) \/ Kill(g)
         \/ \E p \in Ports : TakePort(p) \/ LetGo(p)
         \/ Tick
         \/ UNCHANGED vars
BY DEF Next, Step

LEMMA PortNext ==
  ASSUME TypeOK, PortInv, TypeOK', [Next]_vars
  PROVE  PortInv'
<1>0. 1 \in Ports
  BY WebAssumption DEF Ports
<1>1. ASSUME NEW g \in Gui, Start(g) \/ StartUnread(g) PROVE PortInv'
  <2>1. port'[g] \in Ports /\ \A h \in Gui : h # g => port'[h] = port[h] /\ pc'[h] = pc[h]
    BY <1>0, <1>1 DEF Start, StartUnread, TypeOK, Goto, Ports
  <2> QED BY <2>1 DEF PortInv
<1>2. ASSUME NEW g \in Gui, BindSaved(g) \/ PingSaved(g) \/ BindNext(g)
      PROVE  PortInv'
  <2>1. /\ port'[g] = port[g] \/ port'[g] = 1
        /\ \A h \in Gui : h # g => port'[h] = port[h] /\ pc'[h] = pc[h]
    BY <1>2 DEF BindSaved, PingSaved, BindNext, TypeOK, Goto
  <2>2. port[g] \in Ports
    BY <1>2 DEF PortInv, BindSaved, PingSaved, BindNext
  <2> QED BY <1>0, <2>1, <2>2 DEF PortInv
<1>3. ASSUME NEW g \in Gui, PingNext(g) PROVE PortInv'
  <2>1. port[g] \in Ports
    BY <1>3 DEF PortInv, PingNext
  <2>2. CASE Brother(g) \/ port[g] = LastPort
    BY <1>3, <2>2 DEF PingNext, PortInv, TypeOK, Goto
  <2>3. CASE ~(Brother(g) \/ port[g] = LastPort)
    <3>1. port' = [port EXCEPT ![g] = @ + 1] /\ pc' = [pc EXCEPT ![g] = "bind"]
      BY <1>3, <2>3 DEF PingNext, Goto
    <3>2. port[g] + 1 \in Ports
      BY <2>1, <2>3, WebAssumption DEF Ports
    <3> QED BY <3>1, <3>2, <1>3 DEF PortInv, TypeOK, PingNext
  <2> QED BY <2>2, <2>3
<1>4. ASSUME NEW g \in Gui, Save(g) \/ SaveFails(g) \/ Serve(g) \/ ServeUnheard(g)
      PROVE  PortInv'
  BY <1>4 DEF Save, SaveFails, Serve, ServeUnheard, PortInv, TypeOK, Goto
<1>5. CASE UNCHANGED <<pc, port>>
  BY <1>5 DEF PortInv
<1>6. ASSUME NEW g \in Gui, End(g) PROVE PortInv'
  BY <1>6 DEF End, PortInv, TypeOK
<1> QED BY <1>1, <1>2, <1>3, <1>4, <1>5, <1>6, NextCases
     DEF Open, Close, Ping, Heartbeat, MissHeartbeat, Exit, Leave, Kill, TakePort, LetGo, Tick, vars

LEMMA NextType == TypeOK /\ PortInv /\ [Next]_vars => TypeOK'
<1> SUFFICES ASSUME TypeOK, PortInv, [Next]_vars PROVE TypeOK'
  OBVIOUS
<1>1. ASSUME NEW g \in Gui, BindSaved(g) \/ PingSaved(g) \/ BindNext(g) \/ PingNext(g)
      PROVE  TypeOK'
  <2>1. port[g] \in Ports
    BY <1>1 DEF PortInv, BindSaved, PingSaved, BindNext, PingNext
  <2> QED BY <1>1, <2>1, SearchType
<1>2. CASE UNCHANGED vars
  BY <1>2 DEF TypeOK, vars
<1>3. ASSUME NEW g \in Gui, Exit(g) \/ Leave(g) \/ Kill(g) PROVE TypeOK'
  BY <1>3, EndType DEF Exit, Leave, Kill
<1> QED BY <1>1, <1>2, <1>3, StartType, ServeType, LifeType, OtherType, NextCases

LEMMA TypeInvariance == Spec => [](TypeOK /\ PortInv)
<1>1. Init => TypeOK /\ PortInv
  BY InitType DEF Init, PortInv
<1>2. TypeOK /\ PortInv /\ [Next]_vars => (TypeOK /\ PortInv)'
  BY NextType, PortNext
<1> QED BY <1>1, <1>2, PTL DEF Spec

\* Every variable keeps its type, and a UI listens at the port it believes to
\* have: TypeOK (cmd/webgui.go).
THEOREM TypeCorrect == Spec => []TypeOK
BY TypeInvariance, PTL

-----------------------------------------------------------------------------
(* The election of a single UI: SearchInv and HolderInv.                   *)

LEMMA HolderIs ==
  ASSUME TypeOK, PortInv
  PROVE  /\ Holding = {g \in Gui : Held(g)}
         /\ \A h \in Holding : port[h] \in Ports /\ listener[port[h]] = h
BY DEF TypeOK, PortInv, Holding, Held

LEMMA HolderWillBe ==
  ASSUME TypeOK', PortInv'
  PROVE  /\ Holding' = {g \in Gui : Held(g)'}
         /\ \A h \in Holding' : port'[h] \in Ports /\ listener'[port'[h]] = h
BY DEF TypeOK, PortInv, Holding, Held

Elect == SearchInv /\ VacantInv /\ HolderInv

LEMMA StartElects ==
  ASSUME TypeOK, PortInv, Elect, TypeOK', PortInv', NEW g \in Gui, Start(g)
  PROVE  Elect'
<1>1. Holding' = Holding
  BY DEF Start, Holding
<1>2. \A h \in Gui : h # g => pc'[h] = pc[h] /\ port'[h] = port[h]
  BY DEF Start, Goto, TypeOK
<1>3. UNCHANGED <<listener, saved>>
  BY DEF Start
<1>4. \/ saved > 0 /\ pc'[g] = "bindSaved" /\ port'[g] = saved
      \/ saved = 0 /\ pc'[g] = "bind" /\ port'[g] = 1
  BY DEF Start, Goto, TypeOK
<1>5. pc[g] = "off" /\ g \notin Holding
  BY HolderIs DEF Start, Held
<1>6. Passed(1)
  BY DEF Passed, Ports
<1>7. (SearchInv /\ VacantInv)'
  <2>1. \A k \in InRange' : Passed(port'[k])
    <3> SUFFICES ASSUME NEW k \in InRange' PROVE Passed(port'[k])
      OBVIOUS
    <3>1. CASE k = g
      BY <1>4, <1>6, <3>1 DEF InRange
    <3>2. CASE k # g
      BY <1>2, <3>2 DEF InRange, Elect, SearchInv, VacantInv
    <3> QED BY <3>1, <3>2
  <2>2. Holding = {} => /\ \A k \in AtSaved' : port'[k] = saved
                        /\ InRange' # {} => SavedForeign
    BY <1>2, <1>4 DEF InRange, AtSaved, Elect, SearchInv, VacantInv, SavedForeign
  <2>3. \A k \in Gui : pc'[k] \in {"pingSaved", "ping"} => listener[port'[k]] # Free
    BY <1>2, <1>4 DEF Elect, SearchInv, VacantInv
  <2> QED BY <1>1, <1>3, <2>1, <2>2, <2>3 DEF SearchInv, VacantInv, Passed, SavedForeign
<1>8. ASSUME NEW h \in Holding
      PROVE  /\ IF pc[h] = "save" THEN Passed(port[h]) /\ SavedForeign ELSE saved = port[h]
             /\ InRange' # {} => Passed(port[h])
             /\ \A k \in AtSaved' : \/ port'[k] = port[h]
                                    \/ Passed(port[h]) /\ listener[port'[k]] = Foreign
  <2>1. port[h] \in Ports /\ h \in Gui
    BY HolderIs DEF Holding
  <2>2. IF pc[h] = "save" THEN Passed(port[h]) /\ SavedForeign ELSE saved = port[h]
    BY DEF Elect, HolderInv
  <2>3. saved = 0 => Passed(port[h])
    BY <2>1, <2>2 DEF Ports
  <2>4. InRange' # {} => Passed(port[h])
    BY <1>2, <1>4, <2>3 DEF InRange, Elect, HolderInv
  <2>5. \A k \in AtSaved' : \/ port'[k] = port[h]
                            \/ Passed(port[h]) /\ listener[port'[k]] = Foreign
    <3> SUFFICES ASSUME NEW k \in AtSaved'
                 PROVE  \/ port'[k] = port[h]
                        \/ Passed(port[h]) /\ listener[port'[k]] = Foreign
      OBVIOUS
    <3>1. CASE k = g
      BY <1>4, <2>2, <3>1 DEF AtSaved, SavedForeign
    <3>2. CASE k # g
      BY <1>2, <3>2 DEF AtSaved, Elect, HolderInv
    <3> QED BY <3>1, <3>2
  <2> QED BY <2>2, <2>4, <2>5
<1>9. HolderInv'
  <2>1. \A h \in Holding : Holding = {h} /\ h \in Gui /\ h # g /\ port[h] \in Ports
    BY <1>5, HolderIs DEF Elect, HolderInv, Holding
  <2> QED BY <1>1, <1>2, <1>3, <1>6, <1>8, <2>1 DEF HolderInv, Passed, SavedForeign
<1> QED BY <1>7, <1>9 DEF Elect

\* Nobody holds a port when a UI finds one to bind.
LEMMA NobodyHolds ==
  ASSUME TypeOK, PortInv, Elect, NEW g \in AtSaved \cup InRange, listener[port[g]] = Free
  PROVE  Holding = {}
<1> SUFFICES ASSUME NEW h \in Holding PROVE FALSE
  OBVIOUS
<1>1. port[h] \in Ports /\ listener[port[h]] = h /\ h \in Gui
  BY HolderIs DEF Holding
<1>2. port[g] \in Ports
  BY DEF AtSaved, InRange, PortInv
<1>3. CASE g \in AtSaved
  BY <1>1, <1>3, WebAssumption DEF Elect, HolderInv
<1>4. CASE g \in InRange
  <2>1. Passed(port[g]) /\ Passed(port[h])
    BY <1>4 DEF Elect, SearchInv, VacantInv, HolderInv
  <2> QED BY <1>1, <1>2, <2>1, WebAssumption DEF Passed, Ports
<1> QED BY <1>3, <1>4

LEMMA BindSavedElects ==
  ASSUME TypeOK, PortInv, Elect, TypeOK', PortInv', NEW g \in Gui, BindSaved(g)
  PROVE  Elect'
<1>1. g \in AtSaved /\ port[g] \in Ports /\ UNCHANGED <<saved, port>>
  BY DEF BindSaved, AtSaved, PortInv
<1>2. \A h \in Gui : h # g => pc'[h] = pc[h]
  BY DEF BindSaved, Goto, TypeOK
<1>3. CASE listener[port[g]] = Free
  <2>1. Holding = {} /\ port[g] = saved
    BY <1>1, <1>3, NobodyHolds DEF Elect, SearchInv, VacantInv
  <2>2. InRange = {}
    BY <1>1, <1>3, <2>1, WebAssumption DEF Elect, SearchInv, VacantInv, SavedForeign, Ports
  <2>3. listener' = [listener EXCEPT ![port[g]] = g] /\ pc'[g] = "bound"
    BY <1>3 DEF BindSaved, Bind, Goto, TypeOK
  <2>4. InRange' = {} /\ AtSaved' \subseteq AtSaved
    BY <1>2, <2>2, <2>3 DEF InRange, AtSaved
  <2>5. Holding' = {g}
    BY <1>1, <2>1, <2>3 DEF Holding, TypeOK
  <2>6. \A k \in Gui : pc'[k] \in {"pingSaved", "ping"} => listener'[port[k]] # Free
    <3>1. \A k \in Gui : pc'[k] \in {"pingSaved", "ping"} => listener[port[k]] # Free /\ port[k] \in Ports
      BY <1>2, <2>3 DEF Elect, SearchInv, VacantInv, PortInv
    <3> QED BY <2>3, <3>1, WebAssumption DEF TypeOK
  <2>7. \A k \in AtSaved' : port[k] = port[g]
    BY <2>1, <2>4 DEF Elect, SearchInv, VacantInv
  <2> QED BY <1>1, <2>1, <2>3, <2>4, <2>5, <2>6, <2>7 DEF Elect, SearchInv, VacantInv, HolderInv
<1>4. CASE listener[port[g]] # Free
  <2>1. listener' = listener /\ pc'[g] = "pingSaved" /\ pc[g] = "bindSaved"
    BY <1>4 DEF BindSaved, Goto, TypeOK
  <2>2. AtSaved' = AtSaved /\ InRange' = InRange /\ Holding' = Holding
    BY <1>2, <2>1 DEF AtSaved, InRange, Holding
  <2>3. \A h \in Holding : pc'[h] = "save" <=> pc[h] = "save"
    BY <1>2, <2>1 DEF Holding
  <2>4. (SearchInv /\ VacantInv)'
    BY <1>1, <1>2, <1>4, <2>1, <2>2 DEF Elect, SearchInv, VacantInv, Passed, SavedForeign
  <2>5. HolderInv'
    BY <1>1, <2>1, <2>2, <2>3 DEF Elect, HolderInv, Passed, SavedForeign
  <2> QED BY <2>4, <2>5 DEF Elect
<1> QED BY <1>3, <1>4

LEMMA PingSavedElects ==
  ASSUME TypeOK, PortInv, Elect, TypeOK', PortInv', NEW g \in Gui, PingSaved(g)
  PROVE  Elect'
<1>1. /\ g \in AtSaved /\ port[g] \in Ports /\ UNCHANGED <<saved, listener>>
      /\ listener[port[g]] # Free /\ g \notin Holding
  BY HolderIs DEF PingSaved, AtSaved, PortInv, Elect, SearchInv, VacantInv, Held
<1>2. \A h \in Gui : h # g => pc'[h] = pc[h] /\ port'[h] = port[h]
  BY DEF PingSaved, Goto, TypeOK
<1>3. Holding' = Holding /\ Passed(1)
  BY <1>1 DEF Holding, Passed, Ports
<1>4. \A h \in Holding : h # g /\ h \in Gui
  BY <1>1 DEF Holding
<1>5. CASE Brother(g)
  <2>1. pc'[g] = "already" /\ port' = port
    BY <1>5 DEF PingSaved, Goto, TypeOK
  <2>2. AtSaved' \subseteq AtSaved /\ InRange' = InRange
    BY <1>1, <1>2, <2>1 DEF AtSaved, InRange
  <2>3. (SearchInv /\ VacantInv)'
    BY <1>1, <1>2, <1>3, <2>1, <2>2 DEF Elect, SearchInv, VacantInv, Passed, SavedForeign
  <2>4. HolderInv'
    BY <1>1, <1>2, <1>3, <1>4, <2>1, <2>2 DEF Elect, HolderInv, Passed, SavedForeign
  <2> QED BY <2>3, <2>4 DEF Elect
<1>6. CASE ~Brother(g)
  <2>1. pc'[g] = "bind" /\ port'[g] = 1
    BY <1>6 DEF PingSaved, Goto, TypeOK
  <2>2. listener[port[g]] = Foreign
    BY <1>1, <1>6 DEF Brother, TypeOK
  <2>3. AtSaved' \subseteq AtSaved \ {g} /\ InRange' = InRange \cup {g}
    BY <1>1, <1>2, <2>1 DEF AtSaved, InRange
  <2>4. Holding = {} => SavedForeign
    BY <1>1, <2>2 DEF Elect, SearchInv, VacantInv, SavedForeign
  <2>5. \A h \in Holding : Passed(port[h])
    <3> SUFFICES ASSUME NEW h \in Holding PROVE Passed(port[h])
      OBVIOUS
    <3>1. listener[port[h]] \in Gui
      BY HolderIs DEF Holding
    <3> QED BY <1>1, <2>2, <3>1, WebAssumption DEF Elect, HolderInv
  <2>6. (SearchInv /\ VacantInv)'
    <3>1. \A k \in InRange' : Passed(port'[k])
      BY <1>2, <1>3, <2>1, <2>3 DEF Elect, SearchInv, VacantInv, InRange
    <3>2. \A k \in Gui : pc'[k] \in {"pingSaved", "ping"} => listener[port'[k]] # Free
      BY <1>2, <2>1 DEF Elect, SearchInv, VacantInv
    <3>3. Holding = {} => /\ \A k \in AtSaved' : port'[k] = saved
                          /\ SavedForeign
      BY <1>2, <2>3, <2>4 DEF Elect, SearchInv, VacantInv, AtSaved
    <3> QED BY <1>1, <1>3, <3>1, <3>2, <3>3 DEF SearchInv, VacantInv, Passed, SavedForeign
  <2>7. HolderInv'
    <3>1. \A k \in AtSaved' : k # g /\ k \in AtSaved /\ port'[k] = port[k]
      BY <1>2, <2>3 DEF AtSaved
    <3>2. \A h \in Holding : /\ Holding = {h} /\ port'[h] = port[h]
                             /\ pc'[h] = pc[h]
                             /\ IF pc[h] = "save" THEN Passed(port[h]) /\ SavedForeign
                                ELSE saved = port[h]
      BY <1>2, <1>4 DEF Elect, HolderInv
    <3>3. \A h \in Holding : \A k \in AtSaved' :
             \/ port'[k] = port[h]
             \/ Passed(port[h]) /\ listener[port'[k]] = Foreign
      BY <3>1 DEF Elect, HolderInv
    <3> QED BY <1>1, <1>3, <2>5, <3>2, <3>3 DEF HolderInv, Passed, SavedForeign
  <2> QED BY <2>6, <2>7 DEF Elect
<1> QED BY <1>5, <1>6

LEMMA BindNextElects ==
  ASSUME TypeOK, PortInv, Elect, TypeOK', PortInv', NEW g \in Gui, BindNext(g)
  PROVE  Elect'
<1>1. g \in InRange /\ port[g] \in Ports /\ UNCHANGED <<saved, port>>
  BY DEF BindNext, InRange, PortInv
<1>2. \A h \in Gui : h # g => pc'[h] = pc[h]
  BY DEF BindNext, Goto, TypeOK
<1>3. CASE listener[port[g]] = Free
  <2>1. Holding = {} /\ SavedForeign /\ Passed(port[g])
    BY <1>1, <1>3, NobodyHolds DEF Elect, SearchInv, VacantInv
  <2>2. listener' = [listener EXCEPT ![port[g]] = g] /\ pc'[g] = "save"
    BY <1>3 DEF BindNext, Bind, Goto, TypeOK
  <2>3. InRange' \subseteq InRange /\ AtSaved' = AtSaved
    BY <1>1, <1>2, <2>2 DEF InRange, AtSaved
  <2>4. Holding' = {g}
    BY <1>1, <2>1, <2>2 DEF Holding, TypeOK
  <2>5. \A q \in Ports : listener[q] = Foreign => listener'[q] = Foreign
    BY <1>1, <1>3, <2>2, WebAssumption DEF TypeOK
  <2>6. \A p \in Ports : Passed(p) => Passed(p)'
    BY <2>5 DEF Passed
  <2>7. SavedForeign'
    BY <1>1, <2>1, <2>5 DEF SavedForeign, TypeOK, Ports
  <2>8. \A k \in Gui : pc'[k] \in {"pingSaved", "ping"} => listener'[port[k]] # Free
    <3>1. \A k \in Gui : pc'[k] \in {"pingSaved", "ping"} => listener[port[k]] # Free /\ port[k] \in Ports
      BY <1>2, <2>2 DEF Elect, SearchInv, VacantInv, PortInv
    <3> QED BY <2>2, <3>1, WebAssumption DEF TypeOK
  <2>9. \A k \in AtSaved : listener'[port[k]] = Foreign
    <3> SUFFICES ASSUME NEW k \in AtSaved PROVE listener'[port[k]] = Foreign
      OBVIOUS
    <3>1. port[k] = saved /\ port[k] \in Ports
      BY <2>1 DEF Elect, SearchInv, VacantInv, AtSaved, PortInv
    <3> QED BY <2>1, <2>5, <3>1 DEF SavedForeign, Ports
  <2>10. \A k \in InRange : port[k] \in Ports /\ Passed(port[k])
    BY DEF InRange, PortInv, Elect, SearchInv, VacantInv
  <2>11. Passed(port[g])'
    BY <1>1, <2>1, <2>5 DEF Passed
  <2>12. \A k \in InRange' : Passed(port[k])'
    BY <2>3, <2>5, <2>10, <1>1 DEF Passed
  <2>13. (SearchInv /\ VacantInv)'
    BY <1>1, <2>4, <2>8, <2>12 DEF SearchInv, VacantInv, Passed
  <2>14. HolderInv'
    BY <1>1, <2>2, <2>3, <2>4, <2>7, <2>9, <2>11 DEF HolderInv
  <2> QED BY <2>13, <2>14 DEF Elect
<1>4. CASE listener[port[g]] # Free
  <2>1. listener' = listener /\ pc'[g] = "ping" /\ pc[g] = "bind"
    BY <1>4 DEF BindNext, Goto, TypeOK
  <2>2. AtSaved' = AtSaved /\ InRange' = InRange /\ Holding' = Holding
    BY <1>2, <2>1 DEF AtSaved, InRange, Holding
  <2>3. \A h \in Holding : pc'[h] = "save" <=> pc[h] = "save"
    BY <1>2, <2>1 DEF Holding
  <2>4. (SearchInv /\ VacantInv)'
    BY <1>1, <1>2, <1>4, <2>1, <2>2 DEF Elect, SearchInv, VacantInv, Passed, SavedForeign
  <2>5. HolderInv'
    BY <1>1, <2>1, <2>2, <2>3 DEF Elect, HolderInv, Passed, SavedForeign
  <2> QED BY <2>4, <2>5 DEF Elect
<1> QED BY <1>3, <1>4

LEMMA PingNextElects ==
  ASSUME TypeOK, PortInv, Elect, TypeOK', PortInv', NEW g \in Gui, PingNext(g)
  PROVE  Elect'
<1>1. /\ g \in InRange /\ port[g] \in Ports /\ UNCHANGED <<saved, listener>>
      /\ listener[port[g]] # Free /\ g \notin Holding /\ Passed(port[g])
  BY HolderIs DEF PingNext, InRange, PortInv, Elect, SearchInv, VacantInv, Held
<1>2. \A h \in Gui : h # g => pc'[h] = pc[h] /\ port'[h] = port[h]
  BY DEF PingNext, Goto, TypeOK
<1>3. Holding' = Holding /\ \A h \in Holding : h # g /\ h \in Gui
  BY <1>1 DEF Holding
<1>4. AtSaved' = AtSaved /\ InRange' \subseteq InRange
  BY <1>1, <1>2 DEF AtSaved, InRange, PingNext, Goto, TypeOK
<1>5. \A h \in Holding : port'[h] = port[h] /\ pc'[h] = pc[h]
  BY <1>2, <1>3
<1>6. \A k \in AtSaved : port'[k] = port[k]
  BY <1>2 DEF AtSaved, PingNext
<1>7. HolderInv'
  BY <1>1, <1>3, <1>4, <1>5, <1>6 DEF Elect, HolderInv, Passed, SavedForeign
<1>8. \A k \in InRange' : Passed(port'[k])
  <2> SUFFICES ASSUME NEW k \in InRange' PROVE Passed(port'[k])
    OBVIOUS
  <2>1. CASE k # g
    BY <1>2, <1>4, <2>1 DEF InRange, Elect, SearchInv, VacantInv
  <2>2. CASE k = g
    <3>1. ~Brother(g) /\ port'[g] = port[g] + 1
      BY <2>2 DEF InRange, PingNext, Goto, TypeOK
    <3>2. listener[port[g]] = Foreign
      BY <1>1, <3>1 DEF Brother, TypeOK
    <3> QED BY <1>1, <2>2, <3>1, <3>2 DEF Passed, Ports
  <2> QED BY <2>1, <2>2
<1>9. \A k \in Gui : pc'[k] \in {"pingSaved", "ping"} => listener[port'[k]] # Free
  BY <1>2 DEF PingNext, Goto, TypeOK, Elect, SearchInv, VacantInv
<1>10. (SearchInv /\ VacantInv)'
  BY <1>1, <1>3, <1>4, <1>6, <1>8, <1>9 DEF Elect, SearchInv, VacantInv, Passed, SavedForeign
<1> QED BY <1>7, <1>10 DEF Elect

LEMMA SaveElects ==
  ASSUME TypeOK, PortInv, Elect, TypeOK', PortInv', NEW g \in Gui, Save(g)
  PROVE  Elect'
<1>1. g \in Holding /\ UNCHANGED <<listener, port>> /\ saved' = port[g]
  BY HolderIs DEF Save, Held
<1>2. Holding = {g} /\ Holding' = {g}
  BY <1>1 DEF Elect, HolderInv, Holding
<1>3. \A h \in Gui : h # g => pc'[h] = pc[h]
  BY DEF Save, Goto, TypeOK
<1>4. pc[g] = "save" /\ pc'[g] = "bound"
  BY DEF Save, Goto, TypeOK
<1>5. AtSaved' = AtSaved /\ InRange' = InRange
  BY <1>3, <1>4 DEF AtSaved, InRange
<1>6. (SearchInv /\ VacantInv)'
  BY <1>1, <1>2, <1>3, <1>4, <1>5 DEF Elect, SearchInv, VacantInv, Passed
<1>7. HolderInv'
  BY <1>1, <1>2, <1>4, <1>5 DEF Elect, HolderInv, Passed
<1> QED BY <1>6, <1>7 DEF Elect

LEMMA SameElects ==
  ASSUME Elect, listener' = listener, saved' = saved, port' = port,
         \A g \in Gui : pc'[g] = pc[g] \/ (pc[g] = "bound" /\ pc'[g] = "serving")
  PROVE  Elect'
<1>1. AtSaved' = AtSaved /\ InRange' = InRange /\ Holding' = Holding
  BY DEF AtSaved, InRange, Holding
<1>2. (SearchInv /\ VacantInv)'
  BY <1>1 DEF Elect, SearchInv, VacantInv, Passed, SavedForeign
<1>3. HolderInv'
  <2>1. \A h \in Holding : pc'[h] = "save" <=> pc[h] = "save"
    BY DEF Holding
  <2> QED BY <1>1, <2>1 DEF Elect, HolderInv, Passed, SavedForeign
<1> QED BY <1>2, <1>3 DEF Elect

LEMMA EndElects ==
  ASSUME TypeOK, PortInv, Elect, TypeOK', PortInv', Calm, NEW g \in Gui, End(g)
  PROVE  Elect'
<1>1. Searching = {} /\ \A h \in Gui : h # g => pc'[h] = pc[h] /\ port'[h] = port[h]
  BY DEF End, Quiet, TypeOK
<1>2. pc'[g] = "off" /\ saved' = saved
  BY DEF End, TypeOK
<1>3. \A h \in Gui : pc'[h] \notin {"bindSaved", "pingSaved", "bind", "ping", "save"}
  BY <1>1, <1>2 DEF Searching
<1>4. AtSaved' = {} /\ InRange' = {}
  BY <1>3 DEF AtSaved, InRange
<1>5. Holding' = Holding \ {g}
  BY <1>1, <1>2, HolderIs, HolderWillBe DEF Held
<1>6. \A h \in Holding' : h # g /\ h \in Holding /\ h \in Gui
  BY <1>5 DEF Holding
<1>7. HolderInv'
  BY <1>1, <1>2, <1>3, <1>4, <1>5, <1>6 DEF Elect, HolderInv
<1>8. (SearchInv /\ VacantInv)'
  BY <1>3, <1>4 DEF SearchInv, VacantInv
<1> QED BY <1>7, <1>8 DEF Elect

LEMMA ForeignElects ==
  ASSUME TypeOK, Elect, Calm, NEW p \in Ports, TakePort(p) \/ LetGo(p)
  PROVE  Elect'
<1>1. UNCHANGED <<saved, pc, port>>
  BY DEF TakePort, LetGo
<1>2. AtSaved' = AtSaved /\ InRange' = InRange
  BY <1>1 DEF AtSaved, InRange
<1>3. Holding' = Holding
  BY WebAssumption DEF Holding, TakePort, LetGo, TypeOK
<1>4. CASE TakePort(p)
  <2>1. \A q \in Ports : listener[q] = Foreign => listener'[q] = Foreign
    BY <1>4 DEF TakePort, TypeOK
  <2>2. \A q \in Ports : listener[q] # Free => listener'[q] # Free
    BY <1>4, WebAssumption DEF TakePort, TypeOK
  <2>3. SavedForeign => SavedForeign'
    <3>1. saved > 0 => saved \in Ports
      BY WebAssumption DEF TypeOK, Ports
    <3> QED BY <1>1, <2>1, <3>1 DEF SavedForeign
  <2>4. \A k \in Gui : Passed(port[k]) => Passed(port[k])'
    BY <1>1, <2>1 DEF Passed
  <2>5. \A k \in AtSaved : listener[port[k]] = Foreign => listener'[port[k]] = Foreign
    BY <1>4, WebAssumption DEF TakePort, TypeOK
  <2>6. \A k \in Gui : pc[k] \in {"pingSaved", "ping"} => listener'[port[k]] # Free
    BY <1>4, WebAssumption DEF TakePort, TypeOK, Elect, SearchInv, VacantInv
  <2>7. (SearchInv /\ VacantInv)'
    BY <1>1, <1>2, <1>3, <2>3, <2>4, <2>6 DEF Elect, SearchInv, VacantInv, InRange
  <2>8. \A h \in Holding : h \in Gui
    BY DEF Holding
  <2>9. HolderInv'
    BY <1>1, <1>2, <1>3, <2>3, <2>4, <2>5, <2>8 DEF Elect, HolderInv
  <2> QED BY <2>7, <2>9 DEF Elect
<1>5. CASE LetGo(p)
  <2>1. \A k \in Gui : pc[k] \notin {"bindSaved", "pingSaved", "bind", "ping", "save"}
    BY <1>5 DEF LetGo, Quiet, Searching
  <2>2. AtSaved = {} /\ InRange = {}
    BY <2>1 DEF AtSaved, InRange
  <2>3. \A h \in Holding : h \in Gui
    BY DEF Holding
  <2>4. (SearchInv /\ VacantInv)'
    BY <1>1, <1>2, <2>1, <2>2 DEF SearchInv, VacantInv
  <2>5. HolderInv'
    BY <1>1, <1>2, <1>3, <2>1, <2>2, <2>3 DEF Elect, HolderInv
  <2> QED BY <2>4, <2>5 DEF Elect
<1> QED BY <1>4, <1>5

\* What a search has passed stays with programs that are not ours while it goes
\* on, whatever becomes of the saved port.
LEMMA NextSearches ==
  ASSUME TypeOK, TypeOK', PortInv, SearchInv, Calm, [Next]_vars
  PROVE  SearchInv'
<1>t. pc \in [Gui -> {"off", "bindSaved", "pingSaved", "bind", "ping", "save",
                      "bound", "serving", "already"}] /\ port \in [Gui -> 0 .. LastPort]
  BY DEF TypeOK
<1> DEFINE Kept ==
             \A q \in Ports : /\ listener[q] = Foreign => listener'[q] = Foreign
                              /\ listener[q] # Free => listener'[q] # Free
           Found(k) ==
             /\ pc'[k] \in {"bind", "ping"} => Passed(port'[k])
             /\ pc'[k] \in {"pingSaved", "ping"} => listener[port'[k]] # Free
\* It is enough that ports are kept and that who moves knows what it says.
<1>q. (/\ Kept
       /\ \A k \in Gui : Found(k)
       /\ \A k \in Gui : pc'[k] \in {"pingSaved", "ping"} => port'[k] \in Ports) => SearchInv'
  <2> SUFFICES ASSUME Kept, \A k \in Gui : Found(k),
                      \A k \in Gui : pc'[k] \in {"pingSaved", "ping"} => port'[k] \in Ports
               PROVE  SearchInv'
    OBVIOUS
  <2>1. \A p : Passed(p) => Passed(p)'
    BY DEF Passed
  <2>2. \A k \in InRange' : Passed(port[k])'
    BY <2>1 DEF InRange, Passed
  <2>3. \A k \in Gui : pc'[k] \in {"pingSaved", "ping"} => listener'[port'[k]] # Free
    OBVIOUS
  <2> QED BY <2>2, <2>3 DEF SearchInv
<1>s. \A k \in Gui : pc'[k] = pc[k] /\ port'[k] = port[k]
        => Found(k) /\ (pc'[k] \in {"pingSaved", "ping"} => port'[k] \in Ports)
  BY DEF SearchInv, InRange, PortInv
<1>1. ASSUME NEW g \in Gui, Start(g) \/ StartUnread(g) PROVE SearchInv'
  <2>1. /\ listener' = listener
        /\ \A k \in Gui : k # g => pc'[k] = pc[k] /\ port'[k] = port[k]
        /\ pc'[g] \in {"bindSaved", "bind"}
        /\ pc'[g] = "bind" => port'[g] = 1
    BY <1>t, <1>1 DEF Start, StartUnread, Goto
  <2>2. Passed(1)
    BY DEF Passed, Ports
  <2>3. Found(g) /\ pc'[g] \notin {"pingSaved", "ping"}
    BY <2>1, <2>2
  <2>4. Kept
    BY <2>1
  <2> QED BY <1>q, <1>s, <2>1, <2>3, <2>4
<1>2. ASSUME NEW g \in Gui, BindSaved(g) \/ BindNext(g) PROVE SearchInv'
  <2>1. port' = port /\ port[g] \in Ports /\ \A k \in Gui : k # g => pc'[k] = pc[k]
    BY <1>t, <1>2 DEF BindSaved, BindNext, Goto, PortInv
  <2>2. Kept
    BY <1>2, <2>1, WebAssumption DEF BindSaved, BindNext, Bind, TypeOK
  <2>3. Found(g)
    BY <1>t, <1>2 DEF BindSaved, BindNext, Goto, SearchInv, InRange
  <2> QED BY <1>q, <1>s, <2>1, <2>2, <2>3
<1>3. ASSUME NEW g \in Gui, PingSaved(g) \/ PingNext(g) PROVE SearchInv'
  <2>1. /\ listener' = listener /\ port[g] \in Ports /\ listener[port[g]] # Free
        /\ \A k \in Gui : k # g => pc'[k] = pc[k] /\ port'[k] = port[k]
    BY <1>t, <1>3 DEF PingSaved, PingNext, Goto, SearchInv, PortInv
  <2>2. CASE pc'[g] = "already"
    BY <1>q, <1>s, <2>1, <2>2
  <2>3. CASE pc'[g] # "already" /\ PingSaved(g)
    <3>1. pc'[g] = "bind" /\ port'[g] = 1 /\ Passed(1)
      BY <1>t, <2>3 DEF PingSaved, Goto, Passed, Ports
    <3> QED BY <1>q, <1>s, <2>1, <3>1
  <2>4. CASE pc'[g] # "already" /\ PingNext(g)
    <3>1. ~Brother(g) /\ pc'[g] = "bind" /\ port'[g] = port[g] + 1
      BY <1>t, <2>4 DEF PingNext, Goto
    <3>2. listener[port[g]] = Foreign /\ Passed(port[g])
      BY <2>1, <2>4, <3>1 DEF Brother, TypeOK, PingNext, SearchInv, InRange
    <3>3. Passed(port[g] + 1)
      BY <2>1, <3>2 DEF Passed, Ports
    <3> QED BY <1>q, <1>s, <2>1, <3>1, <3>3
  <2> QED BY <1>3, <2>2, <2>3, <2>4
<1>4. ASSUME NEW g \in Gui, Save(g) \/ SaveFails(g) \/ Serve(g) \/ ServeUnheard(g)
      PROVE  SearchInv'
  <2>1. /\ listener' = listener /\ port' = port /\ pc'[g] \in {"bound", "serving"}
        /\ \A k \in Gui : k # g => pc'[k] = pc[k]
    BY <1>t, <1>4 DEF Save, SaveFails, Serve, ServeUnheard, Goto
  <2> QED BY <1>q, <1>s, <2>1
<1>5. ASSUME NEW g \in Gui, Exit(g) \/ Leave(g) \/ Kill(g) PROVE SearchInv'
  <2>1. \A k \in Gui : pc'[k] \notin {"bindSaved", "pingSaved", "bind", "ping", "save"}
    BY <1>t, <1>5 DEF Exit, Leave, Kill, End, Quiet, Searching
  <2> QED BY <2>1 DEF SearchInv, InRange
<1>6. ASSUME NEW p \in Ports, LetGo(p) PROVE SearchInv'
  <2>1. \A k \in Gui : pc'[k] \notin {"bindSaved", "pingSaved", "bind", "ping", "save"}
    BY <1>6 DEF LetGo, Quiet, Searching
  <2> QED BY <2>1 DEF SearchInv, InRange
<1>7. ASSUME NEW p \in Ports, TakePort(p) PROVE SearchInv'
  <2>1. Kept
    BY <1>7, WebAssumption DEF TakePort, TypeOK
  <2> QED BY <1>q, <1>s, <1>7, <2>1 DEF TakePort
<1>8. CASE UNCHANGED <<listener, pc, port>>
  BY <1>q, <1>s, <1>8
<1> QED BY <1>1, <1>2, <1>3, <1>4, <1>5, <1>6, <1>7, <1>8, NextCases
     DEF Open, Close, Ping, Heartbeat, MissHeartbeat, Tick, vars

\* While the setting is read and written, its steps keep Elect.
LEMMA NextElects ==
  ASSUME TypeOK, PortInv, ElectionInv, TypeOK', PortInv', [Next]_vars
  PROVE  ElectionInv'
<1> SUFFICES ASSUME Calm, dbOk' = TRUE PROVE Elect'
  BY NextSearches DEF ElectionInv, Elect, TypeOK
<1>t. pc \in [Gui -> {"off", "bindSaved", "pingSaved", "bind", "ping", "save",
                      "bound", "serving", "already"}]
  BY DEF TypeOK
<1>d. dbOk = TRUE
  BY NextCases DEF Start, StartUnread, BindSaved, PingSaved, BindNext, PingNext, Save, SaveFails,
     Serve, ServeUnheard, Open, Close, Ping, Heartbeat, MissHeartbeat, Exit, Leave, Kill, End,
     TakePort, LetGo, Tick, vars
<1>0. Elect
  BY <1>d DEF ElectionInv, Elect
<1>1. ASSUME NEW g \in Gui, Serve(g) \/ ServeUnheard(g) PROVE Elect'
  <2>1. listener' = listener /\ saved' = saved /\ port' = port
    BY <1>1 DEF Serve, ServeUnheard
  <2>2. \A h \in Gui : pc'[h] = pc[h] \/ (pc[h] = "bound" /\ pc'[h] = "serving")
    BY <1>t, <1>1 DEF Serve, ServeUnheard, Goto
  <2> QED BY <1>0, <2>1, <2>2, SameElects
<1>2. CASE UNCHANGED <<listener, saved, pc, port>>
  <2>1. \A h \in Gui : pc'[h] = pc[h] \/ (pc[h] = "bound" /\ pc'[h] = "serving")
    BY <1>2
  <2> QED BY <1>0, <1>2, <2>1, SameElects
<1>3. ASSUME NEW g \in Gui, Exit(g) \/ Leave(g) \/ Kill(g) PROVE Elect'
  BY <1>0, <1>3, EndElects DEF Exit, Leave, Kill
<1>4. ASSUME NEW g \in Gui,
             Start(g) \/ BindSaved(g) \/ PingSaved(g) \/ BindNext(g) \/ PingNext(g) \/ Save(g)
      PROVE  Elect'
  BY <1>0, <1>4, StartElects, BindSavedElects, PingSavedElects, BindNextElects,
     PingNextElects, SaveElects
<1>5. ASSUME NEW p \in Ports, TakePort(p) \/ LetGo(p) PROVE Elect'
  BY <1>0, <1>5, ForeignElects
<1>6. \A g \in Gui : ~StartUnread(g) /\ ~SaveFails(g)
  BY DEF StartUnread, SaveFails
<1> QED BY <1>1, <1>2, <1>3, <1>4, <1>5, <1>6, NextCases
     DEF Open, Close, Ping, Heartbeat, MissHeartbeat, Tick, vars

LEMMA InitElects == Init => ElectionInv
BY WebAssumption
   DEF Init, ElectionInv, SearchInv, VacantInv, HolderInv, AtSaved, InRange, Holding

LEMMA Election == Spec => [](TypeOK /\ PortInv /\ ElectionInv)
<1>1. TypeOK /\ PortInv /\ ElectionInv /\ TypeOK' /\ PortInv' /\ [Next]_vars => ElectionInv'
  BY NextElects
<1> QED BY <1>1, InitElects, TypeInvariance, PTL DEF Spec

\* Two UIs never run side by side, as long as the setting is read and written:
\* AtMostOneUI (findAndBindPort).
THEOREM OneUI == Spec => []AtMostOneUI
<1>1. ElectionInv => AtMostOneUI
  BY DEF ElectionInv, HolderInv, AtMostOneUI
<1> QED BY <1>1, Election, PTL

\* A UI gives up its search for another one, or when no port is left, with the
\* database or without: LeavesForBrother (findAndBindPort).
THEOREM GivesUpRightly == Spec => LeavesForBrother
<1>1. TypeOK /\ PortInv /\ ElectionInv /\ [Next]_vars =>
        [Calm => \A g \in Gui : pc[g] # "already" /\ pc'[g] = "already" =>
           Holding # {} \/ \A p \in Ports : listener[p] # Free]_vars
  <2> SUFFICES ASSUME TypeOK, PortInv, ElectionInv, [Next]_vars, Calm, NEW g \in Gui,
                      pc[g] # "already", pc'[g] = "already"
               PROVE  Holding # {} \/ \A p \in Ports : listener[p] # Free
    OBVIOUS
  <2>1. PingSaved(g) \/ PingNext(g)
    <3>1. ASSUME NEW k \in Gui, Start(k) \/ StartUnread(k) \/ BindSaved(k) \/ BindNext(k)
                                  \/ Save(k) \/ SaveFails(k) \/ Serve(k) \/ ServeUnheard(k)
                                  \/ Exit(k) \/ Leave(k) \/ Kill(k)
          PROVE  FALSE
      BY <3>1 DEF Start, StartUnread, BindSaved, BindNext, Save, SaveFails, Serve, ServeUnheard,
                  Exit, Leave, Kill, End, Goto, TypeOK
    <3>2. ASSUME NEW k \in Gui, PingSaved(k) \/ PingNext(k)
          PROVE  k = g
      BY <3>2 DEF PingSaved, PingNext, Goto, TypeOK
    <3>3. pc' # pc
      OBVIOUS
    <3> QED BY <3>1, <3>2, <3>3, NextCases
         DEF Open, Close, Ping, Heartbeat, MissHeartbeat, Tick, TakePort, LetGo, vars
  <2>2. CASE Brother(g)
    BY <2>1, <2>2 DEF Brother, Holding, PortInv, PingSaved, PingNext
  <2>3. CASE ~Brother(g)
    <3>1. PingNext(g) /\ port[g] = LastPort
      BY <2>1, <2>3 DEF PingSaved, PingNext, Goto, TypeOK
    <3>2. Passed(LastPort) /\ listener[LastPort] # Free
      BY <3>1 DEF ElectionInv, SearchInv, InRange, PingNext
    <3> QED BY <3>2, WebAssumption DEF Passed, Ports
  <2> QED BY <2>2, <2>3
<1> QED BY <1>1, Election, PTL DEF Spec, LeavesForBrother

-----------------------------------------------------------------------------
(* A UI that is used stays, and one that runs is listed.                   *)

\* The steps of findAndBindPort.
Look(g) ==
  \/ Start(g) \/ StartUnread(g) \/ BindSaved(g) \/ PingSaved(g) \/ BindNext(g) \/ PingNext(g)
  \/ Save(g) \/ SaveFails(g)

LEMMA PingNexts ==
  ASSUME TypeOK, PingInv, [Next]_vars
  PROVE  PingInv'
<1> SUFFICES ASSUME ~Throttle, NEW h \in Gui, pc'[h] = "serving"
             PROVE  /\ h \in pinged' => silent'[h] = 0
                    /\ tab'[h] = "open" => silent'[h] <= 1
  BY DEF PingInv, Serving
<1>t. silent[h] \in Nat /\ pc \in [Gui -> {"off", "bindSaved", "pingSaved", "bind", "ping", "save",
                                           "bound", "serving", "already"}]
      /\ silent \in [Gui -> 0 .. Silence + 1] /\ tab \in [Gui -> {"none", "loaded", "open", "closed"}]
  BY WebAssumption DEF TypeOK
<1>0. pc[h] = "serving" => /\ h \in pinged => silent[h] = 0
                           /\ tab[h] = "open" => silent[h] <= 1
  BY DEF PingInv, Serving
<1>1. ASSUME NEW g \in Gui, Ping(g)
      PROVE  /\ h \in pinged' => silent'[h] = 0
             /\ tab'[h] = "open" => silent'[h] <= 1
  <2>1. pc'[h] = pc[h]
    BY <1>1 DEF Ping
  <2> QED BY <1>t, <1>0, <1>1, <2>1 DEF Ping
<1>2. ASSUME NEW g \in Gui, Open(g) \/ Close(g)
      PROVE  /\ h \in pinged' => silent'[h] = 0
             /\ tab'[h] = "open" => silent'[h] <= 1
  <2>1. pc'[h] = pc[h]
    BY <1>2 DEF Open, Close
  <2> QED BY <1>t, <1>0, <1>2, <2>1 DEF Open, Close
<1>3. ASSUME NEW g \in Gui, Serve(g) \/ ServeUnheard(g)
      PROVE  /\ h \in pinged' => silent'[h] = 0
             /\ tab'[h] = "open" => silent'[h] <= 1
  BY <1>t, <1>0, <1>3 DEF Serve, ServeUnheard, Goto
<1>4. CASE Tick
  <2>1. /\ pc[h] = "serving" /\ tab' = tab /\ h \notin pinged' /\ silent'[h] = silent[h] + 1
        /\ tab[h] = "open" => h \in pinged
    BY <1>t, <1>4 DEF Tick, Serving
  <2> QED BY <1>t, <1>0, <2>1
<1>5. ASSUME NEW g \in Gui, Exit(g) \/ Leave(g) \/ Kill(g)
      PROVE  /\ h \in pinged' => silent'[h] = 0
             /\ tab'[h] = "open" => silent'[h] <= 1
  BY <1>t, <1>0, <1>5 DEF Exit, Leave, Kill, End
<1>6. CASE pc'[h] = pc[h] /\ UNCHANGED <<silent, tab, pinged>>
  BY <1>t, <1>0, <1>6
<1>7. ASSUME NEW g \in Gui, Look(g)
      PROVE  pc'[h] = pc[h] /\ UNCHANGED <<silent, tab, pinged>>
  BY <1>t, <1>7 DEF Look, Start, StartUnread, BindSaved, PingSaved, BindNext, PingNext, Save,
                    SaveFails, Goto
<1> QED BY <1>1, <1>2, <1>3, <1>4, <1>5, <1>6, <1>7, NextCases
     DEF Look, Heartbeat, MissHeartbeat, TakePort, LetGo, vars

LEMMA PingInvariance == Spec => [](TypeOK /\ PingInv)
<1>1. Init => PingInv
  BY DEF Init, PingInv, Serving
<1>2. TypeOK /\ PingInv /\ [Next]_vars => PingInv'
  BY PingNexts
<1> QED BY <1>1, <1>2, TypeInvariance, PTL DEF Spec

\* A UI with a visible tab that has pinged it does not end: OpenTabKeepsUI
\* (RunGUI).
THEOREM TabKeepsUI == Spec => OpenTabKeepsUI
<1>1. TypeOK /\ PingInv /\ [Next]_vars =>
        [~Throttle => \A g \in Gui : Exit(g) => tab[g] # "open"]_vars
  BY WebAssumption DEF Exit, PingInv, TypeOK
<1> QED BY <1>1, PingInvariance, PTL DEF Spec, OpenTabKeepsUI

LEMMA BeatNexts ==
  ASSUME TypeOK, BeatInv, [Next]_vars
  PROVE  BeatInv'
<1> DEFINE allowance == Beat * missed
           Fresh == \A h \in heard' : age'[h] <= due'[h] + allowance
<1>0. /\ Beat \in Nat /\ missed \in Nat /\ allowance \in Nat
      /\ \A g \in Gui : age[g] \in Nat /\ due[g] \in Nat
  BY WebAssumption DEF TypeOK
<1>1. heard \subseteq Serving /\ \A g \in heard : g \in Gui /\ age[g] <= due[g] + allowance
  BY DEF BeatInv, TypeOK
<1>2. ASSUME NEW g \in Gui, MissHeartbeat(g) \/ ServeUnheard(g) PROVE BeatInv'
  <2>1. missed' = missed + 1 /\ age' = age /\ heard' = heard /\ due' = [due EXCEPT ![g] = 0]
    BY <1>2 DEF MissHeartbeat, ServeUnheard
  <2>2. Beat * missed' = allowance + Beat
    BY <1>0, <2>1
  <2>3. ASSUME NEW h \in heard PROVE age[h] <= due'[h] + (allowance + Beat)
    <3>1. h \in Gui /\ age[h] <= due[h] + allowance /\ due[h] <= Beat
      BY <1>1, WebAssumption DEF TypeOK
    <3>2. due'[h] = due[h] \/ due'[h] = 0
      BY <2>1, <3>1 DEF TypeOK
    <3> QED BY <1>0, <3>1, <3>2
  <2>4. heard' \subseteq Serving'
    <3>1. \A h \in Gui : pc[h] = "serving" => pc'[h] = "serving"
      BY <1>2 DEF MissHeartbeat, ServeUnheard, Goto, TypeOK
    <3> QED BY <1>1, <2>1, <3>1 DEF Serving
  <2> QED BY <2>1, <2>2, <2>3, <2>4 DEF BeatInv
<1>3. ASSUME missed' = missed, heard' \subseteq Serving', Fresh PROVE BeatInv'
  BY <1>3 DEF BeatInv
<1> HIDE DEF allowance
<1>4. ASSUME NEW g \in Gui, Heartbeat(g) \/ Serve(g) PROVE BeatInv'
  <2>1. /\ missed' = missed /\ heard' = heard \cup {g}
        /\ age' = [age EXCEPT ![g] = 0] /\ due' = [due EXCEPT ![g] = 0]
    BY <1>4 DEF Heartbeat, Serve
  <2>2. pc'[g] = "serving" /\ \A h \in Gui : h # g => pc'[h] = pc[h]
    BY <1>4 DEF Heartbeat, Serve, Serving, Goto, TypeOK
  <2>3. Fresh
    BY <1>0, <1>1, <2>1 DEF TypeOK
  <2> QED BY <1>1, <1>3, <2>1, <2>2, <2>3 DEF Serving
<1>5. CASE Tick
  <2>1. pc' = pc /\ missed' = missed /\ heard' = heard
    BY <1>5 DEF Tick
  <2>2. \A h \in heard : /\ age'[h] <= age[h] + 1 /\ due'[h] = due[h] + 1
                         /\ age'[h] \in Nat /\ due'[h] \in Nat
    BY <1>0, <1>1, <1>5, WebAssumption DEF Tick, Serving, TypeOK
  <2>3. Fresh
    BY <1>0, <1>1, <2>1, <2>2
  <2> QED BY <1>1, <1>3, <2>1, <2>3 DEF Serving
<1>6. ASSUME NEW g \in Gui, Exit(g) \/ Leave(g) \/ Kill(g) PROVE BeatInv'
  <2>1. /\ missed' = missed /\ heard' = heard \ {g}
        /\ \A h \in Gui : h # g => pc'[h] = pc[h] /\ age'[h] = age[h] /\ due'[h] = due[h]
    BY <1>6 DEF Exit, Leave, Kill, End, TypeOK
  <2> QED BY <1>1, <1>3, <2>1 DEF Serving
<1>7. ASSUME NEW g \in Gui, Look(g) PROVE BeatInv'
  <2>1. missed' = missed /\ heard' = heard /\ age' = age /\ due' = due
    BY <1>7 DEF Look, Start, StartUnread, BindSaved, PingSaved, BindNext, PingNext, Save, SaveFails
  <2>2. \A h \in Gui : pc[h] = "serving" => pc'[h] = "serving"
    BY <1>7 DEF Look, Start, StartUnread, BindSaved, PingSaved, BindNext, PingNext, Save, SaveFails,
                Goto, TypeOK
  <2> QED BY <1>1, <1>3, <2>1, <2>2 DEF Serving
<1>8. ASSUME UNCHANGED <<pc, age, due, heard, missed>> PROVE BeatInv'
  BY <1>1, <1>3, <1>8 DEF Serving
<1>9. ASSUME NEW g \in Gui, Open(g) \/ Close(g) \/ Ping(g) PROVE BeatInv'
  BY <1>8, <1>9 DEF Open, Close, Ping
<1>10. ASSUME NEW p \in Ports, TakePort(p) \/ LetGo(p) PROVE BeatInv'
  BY <1>8, <1>10 DEF TakePort, LetGo
<1> QED BY <1>2, <1>4, <1>5, <1>6, <1>7, <1>8, <1>9, <1>10, NextCases DEF Look, vars

\* A UI that runs is listed from its first heartbeat on, although MaxMissed of them
\* fail: RunningIsListed (Heartbeat, GetActiveProcesses).
THEOREM Listed == Spec => []RunningIsListed
<1>1. Init => BeatInv
  BY DEF Init, BeatInv, Serving
<1>2. TypeOK /\ BeatInv /\ [Next]_vars => BeatInv'
  BY BeatNexts
<1>3. TypeOK /\ BeatInv => RunningIsListed
  <2> SUFFICES ASSUME TypeOK, BeatInv, NEW g \in Gui, g \in heard
               PROVE  age[g] < Window
    BY DEF RunningIsListed, Serving
  <2>1. age[g] <= due[g] + Beat * missed
    BY DEF BeatInv, Serving
  <2>2. PICK spare \in Nat : MaxMissed = missed + spare
    <3>1. missed \in Nat /\ MaxMissed \in Nat /\ missed <= MaxMissed
      BY WebAssumption DEF TypeOK
    <3>2. MaxMissed - missed \in Nat /\ MaxMissed = missed + (MaxMissed - missed)
      BY <3>1
    <3> QED BY <3>2
  <2>3. /\ Beat \in Nat /\ missed \in Nat /\ Beat * missed \in Nat /\ Beat * spare \in Nat
        /\ (1 + (missed + spare)) * Beat = Beat + Beat * missed + Beat * spare
    BY WebAssumption DEF TypeOK
  <2>4. (1 + (missed + spare)) * Beat < Window
    BY <2>2, WebAssumption
  <2>5. age[g] \in Nat /\ due[g] \in Nat /\ due[g] <= Beat /\ Window \in Nat
    BY WebAssumption DEF TypeOK
  <2> QED BY <2>1, <2>3, <2>4, <2>5
<1> QED BY <1>1, <1>2, <1>3, TypeInvariance, PTL DEF Spec

-----------------------------------------------------------------------------
(* How long a UI searches, and how long it stays without a page.           *)

\* How far the search has come.
Place(g) ==
  CASE pc[g] = "bindSaved"           -> 0
    [] pc[g] = "pingSaved"           -> 1
    [] pc[g] = "bind"                -> 2 * port[g]
    [] pc[g] = "ping"                -> 2 * port[g] + 1
    [] pc[g] \in {"save", "already"} -> 2 * LastPort + 2
    [] pc[g] = "bound"               -> 2 * LastPort + 3
    [] OTHER                         -> 2 * LastPort + 4

SearchStep(g) ==
  \/ BindSaved(g) \/ PingSaved(g) \/ BindNext(g) \/ PingNext(g)
  \/ Save(g) \/ SaveFails(g) \/ Serve(g) \/ ServeUnheard(g)

\* No page is shown, as far as the UI can know it.
Unseen(g) == pc[g] = "serving" /\ tab[g] \notin {"loaded", "open"}

LEMMA SearchPlace ==
  ASSUME TypeOK, PortInv, NEW g \in Gui, SearchStep(g)
  PROVE  Place(g) < Place(g)' /\ Place(g)' <= 2 * LastPort + 4
<1> USE WebAssumption DEF TypeOK, Goto
<1>0. port[g] \in Nat /\ 1 <= port[g] /\ port[g] <= LastPort /\ LastPort \in Nat
  BY DEF PortInv, Ports, SearchStep, BindSaved, PingSaved, BindNext, PingNext, Save,
     SaveFails, Serve, ServeUnheard
<1>1. CASE BindSaved(g)
  <2>1. pc[g] = "bindSaved" /\ pc'[g] \in {"bound", "pingSaved"}
    BY <1>1 DEF BindSaved
  <2> QED BY <1>0, <2>1 DEF Place
<1>2. CASE PingSaved(g)
  <2>1. /\ pc[g] = "pingSaved"
        /\ \/ pc'[g] = "already"
           \/ pc'[g] = "bind" /\ port'[g] = 1
    BY <1>2 DEF PingSaved
  <2> QED BY <1>0, <2>1 DEF Place
<1>3. CASE BindNext(g)
  <2>1. pc[g] = "bind" /\ pc'[g] \in {"save", "ping"} /\ port'[g] = port[g]
    BY <1>3 DEF BindNext
  <2> QED BY <1>0, <2>1 DEF Place
<1>4. CASE PingNext(g)
  <2>1. /\ pc[g] = "ping"
        /\ \/ pc'[g] = "already"
           \/ pc'[g] = "bind" /\ port'[g] = port[g] + 1 /\ port[g] # LastPort
    BY <1>4 DEF PingNext
  <2> QED BY <1>0, <2>1 DEF Place
<1>5. CASE Save(g) \/ SaveFails(g)
  BY <1>0, <1>5 DEF Save, SaveFails, Place
<1>6. CASE Serve(g) \/ ServeUnheard(g)
  BY <1>0, <1>6 DEF Serve, ServeUnheard, Place
<1> QED BY <1>1, <1>2, <1>3, <1>4, <1>5, <1>6 DEF SearchStep

\* The safety half of ClosedTabEnds.  A search takes at most twice as many steps as
\* there are ports, and a few, whatever other UIs and programs do to the ports
\* meanwhile (findAndBindPort, cmd/webgui.go); a UI without a page only waits: its
\* silence grows with the time and nothing shortens it but a page that is opened.
THEOREM UIsMoveOn ==
  Spec => [][\A g \in Gui :
               /\ SearchStep(g) => Place(g) < Place(g)' /\ Place(g)' <= 2 * LastPort + 4
               /\ \/ Start(g) \/ StartUnread(g) \/ SearchStep(g) \/ Exit(g) \/ Leave(g) \/ Kill(g)
                  \/ UNCHANGED <<pc[g], port[g]>>
               /\ Unseen(g) => \/ Unseen(g)' /\ silent[g] <= silent'[g]
                               \/ Open(g) \/ pc'[g] = "off"
               /\ Unseen(g) /\ Tick => silent[g] < silent'[g]]_vars
<1>1. ASSUME TypeOK, PortInv, Next, NEW g \in Gui
      PROVE  /\ SearchStep(g) => Place(g) < Place(g)' /\ Place(g)' <= 2 * LastPort + 4
             /\ \/ Start(g) \/ StartUnread(g) \/ SearchStep(g) \/ Exit(g) \/ Leave(g) \/ Kill(g)
                \/ UNCHANGED <<pc[g], port[g]>>
             /\ Unseen(g) => \/ Unseen(g)' /\ silent[g] <= silent'[g]
                             \/ Open(g) \/ pc'[g] = "off"
             /\ Unseen(g) /\ Tick => silent[g] < silent'[g]
  <2> USE DEF TypeOK, Goto
  <2>0. silent[g] \in Nat
    BY <1>1, WebAssumption
  <2>1. SearchStep(g) => Place(g) < Place(g)' /\ Place(g)' <= 2 * LastPort + 4
    BY <1>1, SearchPlace
  <2>2. \/ Start(g) \/ StartUnread(g) \/ SearchStep(g) \/ Exit(g) \/ Leave(g) \/ Kill(g)
        \/ UNCHANGED <<pc[g], port[g]>>
    <3>1. ASSUME NEW h \in Gui, h # g,
                 Start(h) \/ StartUnread(h) \/ SearchStep(h) \/ Exit(h) \/ Leave(h) \/ Kill(h)
          PROVE  UNCHANGED <<pc[g], port[g]>>
      BY <1>1, <3>1 DEF Start, StartUnread, SearchStep, BindSaved, PingSaved, BindNext,
                        PingNext, Save, SaveFails, Serve, ServeUnheard, Exit, Leave, Kill, End
    <3> QED BY <1>1, <3>1, NextCases
         DEF SearchStep, Open, Close, Ping, Heartbeat, MissHeartbeat, TakePort, LetGo, Tick, vars
  <2>3. ASSUME Unseen(g)
        PROVE  \/ Unseen(g)' /\ silent[g] <= silent'[g]
               \/ Open(g) \/ pc'[g] = "off"
    <3> USE <2>3 DEF Unseen
    <3>1. CASE pc'[g] = pc[g] /\ tab'[g] = tab[g] /\ silent'[g] = silent[g]
      BY <2>0, <3>1
    <3>2. CASE Start(g) \/ StartUnread(g) \/ SearchStep(g)
      BY <3>2 DEF Start, StartUnread, SearchStep, BindSaved, PingSaved, BindNext, PingNext,
                  Save, SaveFails, Serve, ServeUnheard
    <3>3. CASE Exit(g) \/ Leave(g) \/ Kill(g)
      BY <1>1, <3>3 DEF Exit, Leave, Kill, End
    <3>4. CASE Close(g) \/ Ping(g)
      BY <3>4 DEF Close, Ping
    <3>5. ASSUME NEW h \in Gui, h # g, Open(h) \/ Close(h) \/ Ping(h) \/ Serve(h) \/ ServeUnheard(h)
          PROVE  pc'[g] = pc[g] /\ tab'[g] = tab[g] /\ silent'[g] = silent[g]
      BY <1>1, <3>5 DEF Open, Close, Ping, Serve, ServeUnheard
    <3>6. ASSUME NEW h \in Gui, h # g, Exit(h) \/ Leave(h) \/ Kill(h)
          PROVE  pc'[g] = pc[g] /\ tab'[g] = tab[g] /\ silent'[g] = silent[g]
      BY <1>1, <3>6 DEF Exit, Leave, Kill, End
    <3>7. ASSUME NEW h \in Gui, h # g, Look(h)
          PROVE  pc'[g] = pc[g] /\ tab'[g] = tab[g] /\ silent'[g] = silent[g]
      BY <1>1, <3>7 DEF Look, Start, StartUnread, BindSaved, PingSaved, BindNext, PingNext, Save,
                        SaveFails
    <3>8. ASSUME NEW h \in Gui, Heartbeat(h) \/ MissHeartbeat(h)
          PROVE  pc'[g] = pc[g] /\ tab'[g] = tab[g] /\ silent'[g] = silent[g]
      BY <3>8 DEF Heartbeat, MissHeartbeat
    <3>9. ASSUME NEW p \in Ports, TakePort(p) \/ LetGo(p)
          PROVE  pc'[g] = pc[g] /\ tab'[g] = tab[g] /\ silent'[g] = silent[g]
      BY <3>9 DEF TakePort, LetGo
    <3>10. CASE Tick
      BY <1>1, <2>0, <3>10 DEF Tick, Serving
    <3> QED BY <1>1, <3>1, <3>2, <3>3, <3>4, <3>5, <3>6, <3>7, <3>8, <3>9, <3>10, NextCases
         DEF Look, SearchStep, vars
  <2>4. Unseen(g) /\ Tick => silent[g] < silent'[g]
    BY <1>1, <2>0 DEF Unseen, Tick, Serving
  <2> QED BY <2>1, <2>2, <2>3, <2>4
<1>2. TypeOK /\ PortInv /\ [Next]_vars
        => [\A g \in Gui :
              /\ SearchStep(g) => Place(g) < Place(g)' /\ Place(g)' <= 2 * LastPort + 4
              /\ \/ Start(g) \/ StartUnread(g) \/ SearchStep(g) \/ Exit(g) \/ Leave(g) \/ Kill(g)
                 \/ UNCHANGED <<pc[g], port[g]>>
              /\ Unseen(g) => \/ Unseen(g)' /\ silent[g] <= silent'[g]
                              \/ Open(g) \/ pc'[g] = "off"
              /\ Unseen(g) /\ Tick => silent[g] < silent'[g]]_vars
  BY <1>1
<1> QED BY <1>2, TypeInvariance, PTL DEF Spec

=============================================================================
