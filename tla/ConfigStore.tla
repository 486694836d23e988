---------------------------- MODULE ConfigStore ----------------------------
(* The registered folders and sync configs, which commands and the Web UI  *)
(* edit one SQL statement at a time (db/config.go, core/config.go), and    *)
(* the loops that work on them meanwhile (Daemon and NewSyncEngine in      *)
(* core/engine.go): each loads the configs once per round and reads the    *)
(* folders again for every engine it makes.                                *)
EXTENDS Integers

CONSTANTS
  Daemon,     \* loops that start a round again at every tick
  Command,    \* sync --all, sync <name>, and the button of the Web UI
  Name,       \* names of configs; an upload draws one of its own
  Folder,     \* names of folders
  Path,       \* paths of folders
  Folders0,   \* tables the database may hold at the beginning
  Configs0,
  MaxEdits,   \* bound on the statements that edit the two tables
  MaxFaults,  \* bound on the reads and removals that fail and on the kills
  None

Loop    == Daemon \cup Command
Content == [folder : Folder, works : BOOLEAN]   \* does Factory know its type?
Pending == [name : Name, content : Content]

ASSUME StoreAssumption ==
  /\ Daemon \cap Command = {}
  /\ {MaxEdits, MaxFaults} \subseteq Nat
  /\ Folders0 \subseteq [Folder -> Path \cup {None}]
  /\ Configs0 \subseteq [Name -> Content \cup {None}]
  /\ None \notin Path \cup Content \cup Pending

VARIABLES
  folders,   \* table folders: the path of each name, or None
  configs,   \* table sync_configs: the content of each name, or None
  pc, todo,  \* where a loop stands, and what is left of its round
  cur, path, \* the config it has taken, and the path its last engine has
  clearing,  \* is the handler of "clear folders" at work?
  left,      \* the names it has listed and not removed yet
  edits, faults,
  \* History: what was registered at some moment of a loop's round; the runs of
  \* a config that a loop began after the config was removed; the folders added
  \* since the clearing began, and those it failed to list or to remove.
  heldConfigs, heldFolders, late, added, kept

tableVars   == <<folders, configs, edits>>
loopVars    == <<pc, todo, cur, path>>
clearVars   == <<clearing, left, added, kept>>
historyVars == <<heldConfigs, heldFolders, late>>
vars == <<tableVars, loopVars, clearVars, historyVars, faults>>

ConfigRows == {[name |-> n, content |-> configs[n]] : n \in {m \in Name : configs[m] # None}}
FolderRows == {<<f, folders[f]>> : f \in {g \in Folder : folders[g] # None}}

Init ==
  /\ folders \in Folders0 /\ configs \in Configs0
  /\ pc = [l \in Loop |-> "off"] /\ todo = [l \in Loop |-> {}]
  /\ cur = [l \in Loop |-> None] /\ path = [l \in Loop |-> None]
  /\ clearing = FALSE /\ left = {} /\ added = {} /\ kept = {}
  /\ edits = 0 /\ faults = 0
  /\ heldConfigs = [l \in Loop |-> {}] /\ heldFolders = [l \in Loop |-> {}]
  /\ late = [l \in Loop |-> [n \in Name |-> 0]]

InRound(l) == pc[l] \notin {"off", "wait"}

\* What a round held is forgotten when it is over.
Forget(l) ==
  /\ heldConfigs' = [heldConfigs EXCEPT ![l] = {}]
  /\ heldFolders' = [heldFolders EXCEPT ![l] = {}]
  /\ UNCHANGED late

-----------------------------------------------------------------------------
(* Commands and handlers that edit the tables.                             *)

Edit == edits < MaxEdits /\ edits' = edits + 1

AddFolder(f, p) ==
  /\ Edit
  /\ folders' = [folders EXCEPT ![f] = p]
  /\ heldFolders' = [l \in Loop |-> heldFolders[l] \cup IF InRound(l) THEN {<<f, p>>} ELSE {}]
  /\ added' = IF clearing THEN added \cup {f} ELSE {}
  /\ UNCHANGED <<configs, loopVars, clearing, left, kept, heldConfigs, late, faults>>

RemoveFolder(f) ==
  /\ Edit /\ folders[f] # None
  /\ folders' = [folders EXCEPT ![f] = None]
  /\ UNCHANGED <<configs, loopVars, clearVars, historyVars, faults>>

\* A config that names no folder is refused; whether its folder is registered
\* and its transport known is not asked.
AddConfig(n, c) ==
  /\ Edit
  /\ configs' = [configs EXCEPT ![n] = c]
  /\ heldConfigs' = [l \in Loop |-> heldConfigs[l] \cup
                       IF InRound(l) THEN {[name |-> n, content |-> c]} ELSE {}]
  /\ late' = [l \in Loop |-> [late[l] EXCEPT ![n] = 0]]
  /\ UNCHANGED <<folders, loopVars, clearVars, heldFolders, faults>>

RemoveConfig(n) ==
  /\ Edit /\ configs[n] # None
  /\ configs' = [configs EXCEPT ![n] = None]
  /\ UNCHANGED <<folders, loopVars, clearVars, historyVars, faults>>

Registered == {f \in Folder : folders[f] # None}

\* The handler lists the folders and removes them one by one.  It looks at no
\* error: without the list it removes nothing, a folder that cannot be removed it
\* passes over, and it reports success all the same.
ClearBegin ==
  /\ ~clearing /\ Edit
  /\ clearing' = TRUE /\ added' = {}
  /\ \/ left' = Registered /\ kept' = {} /\ UNCHANGED faults
     \/ left' = {} /\ kept' = Registered /\ faults < MaxFaults /\ faults' = faults + 1
  /\ UNCHANGED <<folders, configs, loopVars, historyVars>>

ClearOne ==
  /\ clearing
  /\ \E f \in left : /\ folders' = [folders EXCEPT ![f] = None]
                     /\ left' = left \ {f}
  /\ UNCHANGED <<configs, loopVars, clearing, added, kept, edits, historyVars, faults>>

ClearOneFails ==
  /\ clearing
  /\ faults < MaxFaults /\ faults' = faults + 1
  /\ \E f \in left : left' = left \ {f} /\ kept' = kept \cup {f}
  /\ UNCHANGED <<tableVars, loopVars, clearing, added, historyVars>>

\* Mutant: the handler stops at a folder that is gone already.
ClearEndEarly ==
  /\ clearing /\ (left = {} \/ \E f \in left : folders[f] = None)
  /\ clearing' = FALSE /\ left' = {} /\ added' = {} /\ kept' = {}
  /\ UNCHANGED <<tableVars, loopVars, historyVars, faults>>

ClearEnd ==
  /\ clearing /\ left = {}
  /\ clearing' = FALSE /\ added' = {} /\ kept' = {}
  /\ UNCHANGED <<tableVars, loopVars, left, historyVars, faults>>

-----------------------------------------------------------------------------
(* Loops.                                                                  *)

Goto(l, label) == pc' = [pc EXCEPT ![l] = label]

\* What is registered now is what the round may still find.
Begin(l, label) ==
  /\ Goto(l, label)
  /\ heldConfigs' = [heldConfigs EXCEPT ![l] = ConfigRows]
  /\ heldFolders' = [heldFolders EXCEPT ![l] = FolderRows]
  /\ UNCHANGED <<tableVars, todo, cur, path, clearVars, late, faults>>

Start(l) == pc[l] = "off" /\ Begin(l, "load")

Tick(d) == pc[d] = "wait" /\ Begin(d, "reload")

\* Mutant: a command waits for a tick.
RestWaits(l) == "wait"

\* Where a loop goes when its round is over.
Rest(l) == IF l \in Daemon THEN "wait" ELSE "off"

Load(l) ==
  /\ pc[l] \in {"load", "reload"}
  /\ \/ todo' = [todo EXCEPT ![l] = ConfigRows]
     \/ l \in Command /\ \E r \in ConfigRows : todo' = [todo EXCEPT ![l] = {r}]
  /\ Goto(l, "next")
  /\ UNCHANGED <<tableVars, cur, path, clearVars, historyVars, faults>>

\* The database cannot be read, or there is no config of the name; a daemon
\* goes on if it has loaded the configs once.
LoadFails(l) ==
  /\ pc[l] \in {"load", "reload"}
  /\ faults < MaxFaults /\ faults' = faults + 1
  /\ Goto(l, IF pc[l] = "load" THEN "off" ELSE "wait") /\ Forget(l)
  /\ UNCHANGED <<tableVars, todo, cur, path, clearVars>>

\* The configs of a round come in any order.
Take(l) ==
  /\ pc[l] = "next"
  /\ \E r \in todo[l] : /\ cur' = [cur EXCEPT ![l] = r]
                        /\ todo' = [todo EXCEPT ![l] = @ \ {r}]
  /\ Goto(l, "engine")
  /\ UNCHANGED <<tableVars, path, clearVars, historyVars, faults>>

\* NewSyncEngine: the folder must be registered and the transport known.
Usable(c) == c.works /\ folders[c.folder] # None

\* Mutant: an engine keeps the path the loop has found before.
NewEngineKeepsPath(l) ==
  /\ pc[l] = "engine" /\ Usable(cur[l].content)
  /\ path' = [path EXCEPT ![l] = IF @ # None THEN @ ELSE folders[cur[l].content.folder]]
  /\ late' = [late EXCEPT ![l][cur[l].name] = IF configs[cur[l].name] = None THEN @ + 1 ELSE @]
  /\ Goto(l, "run")
  /\ UNCHANGED <<tableVars, todo, cur, clearVars, heldConfigs, heldFolders, faults>>

NewEngine(l) ==
  /\ pc[l] = "engine" /\ Usable(cur[l].content)
  /\ path' = [path EXCEPT ![l] = folders[cur[l].content.folder]]
  /\ late' = [late EXCEPT ![l][cur[l].name] = IF configs[cur[l].name] = None THEN @ + 1 ELSE @]
  /\ Goto(l, "run")
  /\ UNCHANGED <<tableVars, todo, cur, clearVars, heldConfigs, heldFolders, faults>>

\* Mutant: a config that cannot be run ends the round.
NoEngineEnds(l) ==
  /\ pc[l] = "engine"
  /\ \/ ~Usable(cur[l].content) /\ UNCHANGED faults
     \/ faults < MaxFaults /\ faults' = faults + 1
  /\ cur' = [cur EXCEPT ![l] = None]
  /\ todo' = [todo EXCEPT ![l] = {}]
  /\ Goto(l, "next")
  /\ UNCHANGED <<tableVars, path, clearVars, historyVars>>

\* A config that cannot be run is passed over.
NoEngine(l) ==
  /\ pc[l] = "engine"
  /\ \/ ~Usable(cur[l].content) /\ UNCHANGED faults
     \/ faults < MaxFaults /\ faults' = faults + 1
  /\ cur' = [cur EXCEPT ![l] = None]
  /\ Goto(l, "next")
  /\ UNCHANGED <<tableVars, todo, path, clearVars, historyVars>>

\* Mutant: a command may run a config once more.
RunEndOrRetry(l) ==
  /\ pc[l] = "run"
  /\ \/ Goto(l, "next") /\ cur' = [cur EXCEPT ![l] = None]
     \/ l \in Command /\ Goto(l, "engine") /\ UNCHANGED cur
  /\ UNCHANGED <<tableVars, todo, path, clearVars, historyVars, faults>>

\* RunOnce is over; its error is logged by the first round and else dropped.
RunEnd(l) ==
  /\ pc[l] = "run"
  /\ cur' = [cur EXCEPT ![l] = None]
  /\ Goto(l, "next")
  /\ UNCHANGED <<tableVars, todo, path, clearVars, historyVars, faults>>

RoundEnd(l) ==
  /\ pc[l] = "next" /\ todo[l] = {}
  /\ Goto(l, Rest(l)) /\ Forget(l)
  /\ path' = [path EXCEPT ![l] = IF l \in Daemon THEN @ ELSE None]
  /\ UNCHANGED <<tableVars, todo, cur, clearVars, faults>>

Kill(l) ==
  /\ pc[l] # "off"
  /\ faults < MaxFaults /\ faults' = faults + 1
  /\ Goto(l, "off") /\ Forget(l)
  /\ todo' = [todo EXCEPT ![l] = {}]
  /\ cur' = [cur EXCEPT ![l] = None] /\ path' = [path EXCEPT ![l] = None]
  /\ UNCHANGED <<tableVars, clearVars>>

-----------------------------------------------------------------------------
Step(l) ==
  \/ l \in Daemon /\ Tick(l)
  \/ Load(l) \/ Take(l) \/ NewEngine(l) \/ NoEngine(l) \/ RunEnd(l) \/ RoundEnd(l)

Clear == ClearOne \/ ClearEnd

Next ==
  \/ \E f \in Folder, p \in Path : AddFolder(f, p)
  \/ \E f \in Folder : RemoveFolder(f)
  \/ \E n \in Name, c \in Content : AddConfig(n, c)
  \/ \E n \in Name : RemoveConfig(n)
  \/ ClearBegin \/ Clear \/ ClearOneFails
  \/ \E l \in Loop : Start(l) \/ Step(l) \/ LoadFails(l) \/ Kill(l)

(* The ticker ticks, and a round goes on: every run of an engine ends.     *)
Fairness == WF_vars(Clear) /\ \A l \in Loop : WF_vars(Step(l))

Spec == Init /\ [][Next]_vars

FairSpec == Spec /\ Fairness

-----------------------------------------------------------------------------
TypeOK ==
  /\ folders \in [Folder -> Path \cup {None}]
  /\ configs \in [Name -> Content \cup {None}]
  /\ pc \in [Loop -> {"off", "load", "reload", "next", "engine", "run", "wait"}]
  /\ todo \in [Loop -> SUBSET Pending]
  /\ cur \in [Loop -> Pending \cup {None}]
  /\ path \in [Loop -> Path \cup {None}]
  /\ clearing \in BOOLEAN /\ {left, added, kept} \subseteq SUBSET Folder
  /\ edits \in 0 .. MaxEdits /\ faults \in 0 .. MaxFaults
  /\ heldConfigs \in [Loop -> SUBSET Pending]
  /\ heldFolders \in [Loop -> SUBSET (Folder \X Path)]
  /\ late \in [Loop -> [Name -> Nat]]
  /\ \A l \in Loop : /\ cur[l] # None <=> pc[l] \in {"engine", "run"}
                     /\ pc[l] = "run" => path[l] # None
                     /\ pc[l] \in {"off", "load"} => path[l] = None
                     /\ pc[l] \in {"wait", "reload"} => l \in Daemon
                     /\ todo[l] # {} => pc[l] \in {"next", "engine", "run"}
  /\ ~clearing => left = {}

\* A round works on nothing that was replaced or removed before it began,
\* whatever is edited while it loads the configs, makes its engines and runs
\* them: the config and the path of each run were registered, each at some
\* moment of the round.
RunIsFresh ==
  \A l \in Loop : pc[l] = "run" =>
    /\ cur[l] \in heldConfigs[l]
    /\ <<cur[l].content.folder, path[l]>> \in heldFolders[l]

\* A loop begins at most one run of a config that was removed: the one its
\* round had loaded.
AtMostOnceMore ==
  \A l \in Loop : \A n \in Name : configs[n] = None => late[l][n] <= 1

\* After "clear folders" a folder is registered only if it was added while the
\* handler was at work, or if the handler failed to list or to remove that one.
ClearsWhatWasListed ==
  [][clearing /\ ~clearing' => Registered \subseteq added \cup kept]_vars

-----------------------------------------------------------------------------
(* What the steps preserve: the parts from which the three above follow.   *)

Fresh(l) ==
  /\ InRound(l) => ConfigRows \subseteq heldConfigs[l] /\ FolderRows \subseteq heldFolders[l]
  /\ todo[l] \subseteq heldConfigs[l]
  /\ cur[l] # None => cur[l] \in heldConfigs[l]
  /\ pc[l] = "run" => <<cur[l].content.folder, path[l]>> \in heldFolders[l]

\* Is a run of n still to begin in the round of l?
DueRun(l, n) ==
  \/ \E r \in todo[l] : r.name = n
  \/ pc[l] = "engine" /\ cur[l].name = n

Once(l) ==
  /\ \A r, s \in todo[l] : r.name = s.name => r = s
  /\ pc[l] = "engine" => \A r \in todo[l] : r.name # cur[l].name

Late(l) ==
  \A n \in Name :
    /\ late[l][n] <= 1
    /\ configs[n] # None \/ DueRun(l, n) => late[l][n] = 0

ClearInv ==
  clearing => Registered \subseteq left \cup added \cup kept

RoundInv == ClearInv /\ \A l \in Loop : Fresh(l) /\ Once(l) /\ Late(l)

-----------------------------------------------------------------------------
\* A config that stays registered with its folder is run by every daemon again
\* and again, whatever becomes of the other configs.
Runnable(n) == configs[n] # None /\ Usable(configs[n])

RunsAgain ==
  \A d \in Daemon : \A n \in Name :
    <>[](Runnable(n) /\ pc[d] # "off") =>
      []<>(pc[d] = "run" /\ cur[d].name = n)
=============================================================================
