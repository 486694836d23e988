------------------------------- MODULE WebUI -------------------------------
(* The processes of the Web UI (cmd/webgui.go): how each looks for a port  *)
(* and for another UI, lives on the pings of the browser and marks itself  *)
(* as alive in the journal (db/journal.go).  Time passes in ticks of 15 s; *)
(* what takes milliseconds happens between two of them.                    *)
EXTENDS Integers

CONSTANTS
  Gui,          \* processes; a number for the pid would do as well
  LastPort,     \* ports are 1 .. LastPort, for 9123 .. 9149
  Silence,      \* ticks without a ping after which a UI ends
  Beat,         \* ticks between two heartbeats
  Window,       \* ticks for which a heartbeat counts
  Calm,         \* are ports let go only when no UI is looking for one?
  Throttle,     \* may the browser hold back the pings of a hidden tab?
  MaxStarts,    \* bound on the starts of a UI
  MaxForeign,   \* bound on the ports other programs take or let go
  MaxMissed,    \* bound on heartbeats that fail
  Free, Foreign

Ports == 1 .. LastPort

ASSUME WebAssumption ==
  /\ {LastPort, Silence, Beat, Window} \subseteq Nat \ {0}
  /\ {MaxStarts, MaxForeign, MaxMissed} \subseteq Nat
  /\ (1 + MaxMissed) * Beat < Window
  /\ {Calm, Throttle} \subseteq BOOLEAN
  /\ Free # Foreign /\ {Free, Foreign} \cap Gui = {}

VARIABLES
  listener,   \* who listens at each port
  saved,      \* setting webui_port, 0 if there is none
  blind,      \* the UIs that look for a port without the database
  dbOk,       \* has the setting always been read and written so far?
  pc,         \* where a UI stands in RunGUI and findAndBindPort
  port,       \* savedPort, then the port it is looking at, then its own
  silent,     \* ticks since lastPing
  tab,        \* is the UI open in a browser?
  pinged,     \* the UIs whose tab has pinged in this tick
  age,        \* ticks since last_beat of a UI that runs
  due,        \* ticks since the heartbeat ticker last fired
  heard,      \* the UIs that have written a heartbeat since they serve
  starts, foreigns, missed

lifeVars == <<silent, tab, pinged, age, due, heard>>
settingVars == <<saved, blind, dbOk>>
vars == <<listener, saved, blind, dbOk, pc, port, silent, tab, pinged, age, due,
          heard, starts, foreigns, missed>>

Init ==
  /\ listener \in [Ports -> {Free, Foreign}]
  /\ saved = 0 /\ blind = {} /\ dbOk = TRUE
  /\ pc = [g \in Gui |-> "off"]
  /\ port = [g \in Gui |-> 0]
  /\ silent = [g \in Gui |-> 0]
  /\ tab = [g \in Gui |-> "none"]
  /\ pinged = {}
  /\ age = [g \in Gui |-> Window] /\ due = [g \in Gui |-> 0] /\ heard = {}
  /\ starts = 0 /\ foreigns = 0 /\ missed = 0

\* The saved port is tried first, the others in turn; at each the UI tries to
\* bind and, if it cannot, asks whether it is one of ours that listens.
Searching == {g \in Gui : pc[g] \in {"bindSaved", "pingSaved", "bind", "ping", "save"}}
Serving   == {g \in Gui : pc[g] = "serving"}
Holding   == {g \in Gui : \E p \in Ports : listener[p] = g}

Goto(g, label) == pc' = [pc EXCEPT ![g] = label]

\* May a port be let go now?
Quiet == Calm => Searching = {}

-----------------------------------------------------------------------------
(* findAndBindPort                                                         *)

Start(g) ==
  /\ pc[g] = "off"
  /\ starts < MaxStarts /\ starts' = starts + 1
  /\ port' = [port EXCEPT ![g] = IF saved > 0 THEN saved ELSE 1]
  /\ Goto(g, IF saved > 0 THEN "bindSaved" ELSE "bind")
  /\ UNCHANGED <<listener, settingVars, lifeVars, foreigns, missed>>

\* The saved port is not read: the query fails, or the database cannot be opened
\* and nothing will be saved in it either.  The search begins with the range.
StartUnread(g) ==
  /\ pc[g] = "off"
  /\ starts < MaxStarts /\ starts' = starts + 1
  /\ port' = [port EXCEPT ![g] = 1]
  /\ Goto(g, "bind")
  /\ blind' \in {blind, blind \cup {g}} /\ dbOk' = FALSE
  /\ UNCHANGED <<listener, saved, lifeVars, foreigns, missed>>

Bind(g) == listener' = [listener EXCEPT ![port[g]] = g]

BindSaved(g) ==
  /\ pc[g] = "bindSaved"
  /\ IF listener[port[g]] = Free THEN Bind(g) /\ Goto(g, "bound")
     ELSE Goto(g, "pingSaved") /\ UNCHANGED listener
  /\ UNCHANGED <<settingVars, port, lifeVars, starts, foreigns, missed>>

\* A brother that holds the port answers once it serves; a program that is not
\* ours does not answer as a brother would, and a dead one not at all.
Answered(g) == listener[port[g]] \notin Gui \/ listener[port[g]] \in Serving

Brother(g) == listener[port[g]] \in Gui

PingSaved(g) ==
  /\ pc[g] = "pingSaved" /\ Answered(g)
  /\ IF Brother(g) THEN Goto(g, "already") /\ UNCHANGED port
     ELSE Goto(g, "bind") /\ port' = [port EXCEPT ![g] = 1]
  /\ UNCHANGED <<listener, settingVars, lifeVars, starts, foreigns, missed>>

BindNext(g) ==
  /\ pc[g] = "bind"
  /\ IF listener[port[g]] = Free THEN Bind(g) /\ Goto(g, "save")
     ELSE Goto(g, "ping") /\ UNCHANGED listener
  /\ UNCHANGED <<settingVars, port, lifeVars, starts, foreigns, missed>>

\* Mutant: the last port of the range is never tried.
PingNextShort(g) ==
  /\ pc[g] = "ping" /\ Answered(g)
  /\ IF Brother(g) \/ port[g] >= LastPort - 1
     THEN Goto(g, "already") /\ UNCHANGED port
     ELSE Goto(g, "bind") /\ port' = [port EXCEPT ![g] = @ + 1]
  /\ UNCHANGED <<listener, settingVars, lifeVars, starts, foreigns, missed>>

\* Mutant: the search goes one port too far.
PingNextBeyond(g) ==
  /\ pc[g] = "ping" /\ Answered(g)
  /\ IF Brother(g) \/ port[g] > LastPort
     THEN Goto(g, "already") /\ UNCHANGED port
     ELSE Goto(g, "bind") /\ port' = [port EXCEPT ![g] = @ + 1]
  /\ UNCHANGED <<listener, settingVars, lifeVars, starts, foreigns, missed>>

\* Behind the last port the search ends as if a brother had been found.
PingNext(g) ==
  /\ pc[g] = "ping" /\ Answered(g)
  /\ IF Brother(g) \/ port[g] = LastPort
     THEN Goto(g, "already") /\ UNCHANGED port
     ELSE Goto(g, "bind") /\ port' = [port EXCEPT ![g] = @ + 1]
  /\ UNCHANGED <<listener, settingVars, lifeVars, starts, foreigns, missed>>

\* Mutant: the port that was found is not saved.
SaveNothing(g) ==
  /\ pc[g] = "save" /\ g \notin blind
  /\ Goto(g, "bound")
  /\ UNCHANGED <<listener, settingVars, port, lifeVars, starts, foreigns, missed>>

Save(g) ==
  /\ pc[g] = "save" /\ g \notin blind
  /\ saved' = port[g]
  /\ Goto(g, "bound")
  /\ UNCHANGED <<listener, blind, dbOk, port, lifeVars, starts, foreigns, missed>>

\* The setting is not written, for want of a database or with an error that
\* nobody looks at; the UI has its port all the same.
SaveFails(g) ==
  /\ pc[g] = "save"
  /\ blind' = blind \ {g} /\ dbOk' = FALSE
  /\ Goto(g, "bound")
  /\ UNCHANGED <<listener, saved, port, lifeVars, starts, foreigns, missed>>

\* The server runs, lastPing is now, and the first heartbeat is written.
Serve(g) ==
  /\ pc[g] = "bound"
  /\ Goto(g, "serving")
  /\ silent' = [silent EXCEPT ![g] = 0]
  /\ age' = [age EXCEPT ![g] = 0] /\ due' = [due EXCEPT ![g] = 0]
  /\ heard' = heard \cup {g}
  /\ UNCHANGED <<listener, settingVars, port, tab, pinged, starts, foreigns, missed>>

\* The same, but the first heartbeat is not written.
ServeUnheard(g) ==
  /\ pc[g] = "bound"
  /\ missed < MaxMissed /\ missed' = missed + 1
  /\ Goto(g, "serving")
  /\ silent' = [silent EXCEPT ![g] = 0] /\ due' = [due EXCEPT ![g] = 0]
  /\ UNCHANGED <<listener, settingVars, port, tab, pinged, age, heard, starts, foreigns>>

-----------------------------------------------------------------------------
(* A UI that runs, its browser and its heartbeats.                         *)

\* The page sends its first ping five seconds after it was loaded.
Open(g) ==
  /\ g \in Serving /\ tab[g] \in {"none", "closed"}
  /\ tab' = [tab EXCEPT ![g] = "loaded"]
  /\ UNCHANGED <<listener, settingVars, pc, port, silent, pinged, age, due, heard,
                 starts, foreigns, missed>>

Close(g) ==
  /\ g \in Serving /\ tab[g] \in {"loaded", "open"}
  /\ tab' = [tab EXCEPT ![g] = "closed"]
  /\ UNCHANGED <<listener, settingVars, pc, port, silent, pinged, age, due, heard,
                 starts, foreigns, missed>>

\* Mutant: the handler of the ping answers and does no more.
PingUnheard(g) ==
  /\ g \in Serving /\ tab[g] \in {"loaded", "open"} /\ g \notin pinged
  /\ pinged' = pinged \cup {g}
  /\ tab' = [tab EXCEPT ![g] = "open"]
  /\ UNCHANGED <<listener, settingVars, pc, port, silent, age, due, heard,
                 starts, foreigns, missed>>

Ping(g) ==
  /\ g \in Serving /\ tab[g] \in {"loaded", "open"} /\ g \notin pinged
  /\ pinged' = pinged \cup {g}
  /\ tab' = [tab EXCEPT ![g] = "open"]
  /\ silent' = [silent EXCEPT ![g] = 0]
  /\ UNCHANGED <<listener, settingVars, pc, port, age, due, heard, starts, foreigns, missed>>

\* Mutant: the row that is there is left as it is.
HeartbeatOnce(g) ==
  /\ g \in Serving /\ due[g] >= Beat
  /\ due' = [due EXCEPT ![g] = 0]
  /\ age' = [age EXCEPT ![g] = IF @ < Window THEN @ ELSE 0]
  /\ heard' = heard \cup {g}
  /\ UNCHANGED <<listener, settingVars, pc, port, silent, tab, pinged, starts, foreigns, missed>>

Heartbeat(g) ==
  /\ g \in Serving /\ due[g] >= Beat
  /\ due' = [due EXCEPT ![g] = 0]
  /\ age' = [age EXCEPT ![g] = 0] /\ heard' = heard \cup {g}
  /\ UNCHANGED <<listener, settingVars, pc, port, silent, tab, pinged, starts, foreigns, missed>>

\* The database cannot be opened or written: this heartbeat is left out.
MissHeartbeat(g) ==
  /\ g \in Serving /\ due[g] >= Beat
  /\ missed < MaxMissed /\ missed' = missed + 1
  /\ due' = [due EXCEPT ![g] = 0]
  /\ UNCHANGED <<listener, settingVars, pc, port, silent, tab, pinged, age, heard,
                 starts, foreigns>>

\* What a process holds goes with it; its pid is free for another UI.  The row of
\* its last heartbeat stays, and is looked at no more: age is that of a running UI.
End(g) ==
  /\ Quiet
  /\ listener' = [p \in Ports |-> IF listener[p] = g THEN Free ELSE listener[p]]
  /\ pc' = [pc EXCEPT ![g] = "off"]
  /\ port' = [port EXCEPT ![g] = 0]
  /\ silent' = [silent EXCEPT ![g] = 0]
  /\ tab' = [tab EXCEPT ![g] = "none"]
  /\ pinged' = pinged \ {g} /\ blind' = blind \ {g} /\ heard' = heard \ {g}
  /\ age' = [age EXCEPT ![g] = Window] /\ due' = [due EXCEPT ![g] = 0]
  /\ UNCHANGED <<saved, dbOk, starts, foreigns, missed>>

\* Mutant: a UI whose browser never opened waits for it.
ExitAfterTab(g) ==
  g \in Serving /\ silent[g] > Silence /\ tab[g] # "none" /\ End(g)

Exit(g) == g \in Serving /\ silent[g] > Silence /\ End(g)

Kill(g) == g \in Serving /\ End(g)

\* "Web UI already running": the process ends.
Leave(g) == pc[g] = "already" /\ End(g)

\* Other programs take ports and let them go.
TakePort(p) ==
  /\ foreigns < MaxForeign /\ foreigns' = foreigns + 1
  /\ listener[p] = Free
  /\ listener' = [listener EXCEPT ![p] = Foreign]
  /\ UNCHANGED <<settingVars, pc, port, lifeVars, starts, missed>>

LetGo(p) ==
  /\ foreigns < MaxForeign /\ foreigns' = foreigns + 1
  /\ listener[p] = Foreign
  /\ Quiet
  /\ listener' = [listener EXCEPT ![p] = Free]
  /\ UNCHANGED <<settingVars, pc, port, lifeVars, starts, missed>>

\* Nothing that is due is late by a whole tick: searches, the check of lastPing
\* every two seconds, the heartbeat and the ping, which a visible tab sends
\* every five seconds.
Tick ==
  /\ \A g \in Gui :
       /\ pc[g] \in {"off", "serving"}
       /\ g \in Serving => /\ silent[g] <= Silence /\ due[g] < Beat
                           /\ tab[g] \in {"loaded", "open"} /\ ~Throttle => g \in pinged
  /\ silent' = [g \in Gui |-> silent[g] + IF g \in Serving THEN 1 ELSE 0]
  /\ due' = [g \in Gui |-> due[g] + IF g \in Serving THEN 1 ELSE 0]
  /\ age' = [g \in Gui |-> IF age[g] < Window THEN age[g] + 1 ELSE Window]
  /\ pinged' = {}
  /\ UNCHANGED <<listener, settingVars, pc, port, tab, heard, starts, foreigns, missed>>

-----------------------------------------------------------------------------
Step(g) ==
  \/ BindSaved(g) \/ PingSaved(g) \/ BindNext(g) \/ PingNext(g)
  \/ Save(g) \/ SaveFails(g) \/ Serve(g) \/ ServeUnheard(g)
  \/ Heartbeat(g) \/ Exit(g) \/ Leave(g)

Next ==
  \/ \E g \in Gui : \/ Start(g) \/ StartUnread(g) \/ Step(g) \/ MissHeartbeat(g) \/ Kill(g)
                    \/ Open(g) \/ Close(g) \/ Ping(g)
  \/ \E p \in Ports : TakePort(p) \/ LetGo(p)
  \/ Tick

(* Processes run, open visible tabs ping, and time passes, although pages  *)
(* are opened and closed all the time.                                     *)
Fairness ==
  /\ SF_vars(Tick)
  /\ \A g \in Gui : WF_vars(Step(g)) /\ WF_vars(Ping(g))

Spec == Init /\ [][Next]_vars

FairSpec == Spec /\ Fairness

-----------------------------------------------------------------------------
TypeOK ==
  /\ listener \in [Ports -> Gui \cup {Free, Foreign}]
  /\ saved \in 0 .. LastPort /\ blind \subseteq Gui /\ dbOk \in BOOLEAN
  /\ pc \in [Gui -> {"off", "bindSaved", "pingSaved", "bind", "ping", "save",
                     "bound", "serving", "already"}]
  /\ port \in [Gui -> 0 .. LastPort]
  /\ silent \in [Gui -> 0 .. Silence + 1]
  /\ tab \in [Gui -> {"none", "loaded", "open", "closed"}]
  /\ pinged \subseteq Gui /\ heard \subseteq Gui
  /\ age \in [Gui -> 0 .. Window] /\ due \in [Gui -> 0 .. Beat]
  /\ starts \in 0 .. MaxStarts /\ foreigns \in 0 .. MaxForeign
  /\ missed \in 0 .. MaxMissed
  /\ \A g \in Gui : \A p \in Ports :
       listener[p] = g <=> pc[g] \in {"save", "bound", "serving"} /\ p = port[g]

\* Two UIs never run side by side, although several look for a port at the same
\* time and programs that are not ours hold some of them.  It needs Calm, and a
\* setting that has never failed to be read or written: who goes on without the
\* database finds a free port and does not tell the others.
AtMostOneUI == Calm /\ dbOk => \A g, h \in Holding : g = h

\* A UI goes away with "already running" only if another one holds a port, or
\* if there is no port left for it.  It needs Calm, and no database.
LeavesForBrother ==
  [][Calm => \A g \in Gui : pc[g] # "already" /\ pc'[g] = "already" =>
       Holding # {} \/ \A p \in Ports : listener[p] # Free]_vars

\* A UI does not end while a tab that has pinged it once is open and visible.
OpenTabKeepsUI ==
  [][~Throttle => \A g \in Gui : Exit(g) => tab[g] # "open"]_vars

\* A UI that runs is among the active processes from its first heartbeat on,
\* although later ones fail.
RunningIsListed == \A g \in Serving \cap heard : age[g] < Window

-----------------------------------------------------------------------------
(* What the steps preserve: the parts from which the above follow.         *)

\* All ports below p belong to programs that are not ours.
Passed(p) == \A q \in Ports : q < p => listener[q] = Foreign

\* The saved port, if there is one, does.
SavedForeign == saved > 0 => listener[saved] = Foreign

AtSaved == {g \in Gui : pc[g] \in {"bindSaved", "pingSaved"}}
InRange == {g \in Gui : pc[g] \in {"bind", "ping"}}

PortInv == \A g \in Gui : pc[g] # "off" => port[g] \in Ports

SearchInv ==
  /\ \A g \in InRange : Passed(port[g])
  /\ \A g \in Gui : pc[g] \in {"pingSaved", "ping"} => listener[port[g]] # Free

VacantInv ==
  Holding = {} => /\ \A g \in AtSaved : port[g] = saved
                  /\ InRange # {} => SavedForeign

HolderInv ==
  \A h \in Holding :
    /\ Holding = {h}
    /\ IF pc[h] = "save" THEN Passed(port[h]) /\ SavedForeign ELSE saved = port[h]
    /\ InRange # {} => Passed(port[h])
    /\ \A g \in AtSaved : \/ port[g] = port[h]
                          \/ Passed(port[h]) /\ listener[port[g]] = Foreign

ElectionInv == Calm => SearchInv /\ (dbOk => VacantInv /\ HolderInv)

BeatInv ==
  /\ heard \subseteq Serving
  /\ \A g \in heard : age[g] <= due[g] + Beat * missed

PingInv ==
  ~Throttle => \A g \in Serving : /\ g \in pinged => silent[g] = 0
                                  /\ tab[g] = "open" => silent[g] <= 1

-----------------------------------------------------------------------------
\* A UI that is open nowhere ends.
ClosedTabEnds ==
  \A g \in Gui : g \in Serving ~> (g \notin Serving \/ tab[g] \in {"loaded", "open"})
=============================================================================
