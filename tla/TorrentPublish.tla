--------------------------- MODULE TorrentPublish ---------------------------
(***************************************************************************)
(* The publishing half of the torrent transport: Push and Flush of         *)
(* transport/torrent.go over the staging directory of                      *)
(* transport/torrent_staging.go.  A cycle copies every file of the folder  *)
(* to staging/latest, and Flush turns staging into a torrent, moves its    *)
(* data to the seed directory, hands it to the torrent client, announces   *)
(* it in the DHT, saves the manifest and clears staging.                   *)
(*                                                                         *)
(* A snapshot is the function from paths to contents that a torrent is     *)
(* made of; its infohash and magnet are determined by it.  The content of  *)
(* a file is the number of the edit that first gave it.  The engine        *)
(* makes a new transport for each cycle, so that only the disk, the client *)
(* and the DHT connect one cycle to the next.  Several actors may push the *)
(* same config at once (the daemon and the web UI); the mutex of Flush is  *)
(* in the transport, of which each has its own.                            *)
(***************************************************************************)
EXTENDS Integers, FiniteSets

CONSTANTS
  Path,
  Actor,        \* whatever runs push cycles of the config
  Daemons,      \* the actors that are tickers
  Deletions,    \* users delete files too
  Reverts,      \* users give files contents they had before
  CopyErrors,   \* copying a file to staging may break off with an error
  LossyPut,     \* the DHT nodes may all miss a put
  SlowTicks,    \* the cycles of an actor are at least a second apart
  MaxEdits,     \* bound on the edits of users
  MaxFailures,  \* bound on failed operations and crashes
  MaxClock,     \* bound on the seconds that pass
  NoPath, NoManifest

ASSUME PublishAssumption ==
  /\ Daemons \subseteq Actor
  /\ NoPath \notin Path
  /\ MaxEdits \in Nat /\ MaxFailures \in Nat /\ MaxClock \in Nat \ {0}
  /\ {Deletions, Reverts, CopyErrors, LossyPut, SlowTicks} \subseteq BOOLEAN

Torn     == -1      \* a file of which only a part was copied
NoFile   == 0
Version  == 1 .. MaxEdits
Content  == {Torn, NoFile} \cup Version
Snapshot == [Path -> Content]
Nothing  == [f \in Path |-> NoFile]

ASSUME ManifestAssumption == NoManifest \notin Snapshot

VARIABLES
  folder,     \* the pushed folder
  stage,      \* staging/latest
  seed,       \* staging/seed/<project>
  manifest,   \* .torrent-last-manifest.ndjson, or NoManifest
  client,     \* the torrents the client was given
  item,       \* newest item under the key in the DHT; seq 0 if none
  published,  \* snapshots put to the DHT so far (history)
  clock,      \* Unix time in seconds
  edits, failures,
  pc,         \* where each actor stands in its cycle
  todo,       \* listed files it has not staged yet
  file, buf,  \* the copy under way
  snap, seq   \* the snapshot it builds and the sequence number it gave it

diskVars  == <<stage, seed, manifest>>
netVars   == <<client, item, published>>
userVars  == <<folder, edits>>
copyVars  == <<file, buf>>
vars == <<folder, stage, seed, manifest, client, item, published, clock,
          edits, failures, pc, todo, file, buf, snap, seq>>

PCs == {"idle", "stage", "copying", "build", "clearseed", "copyseed",
        "add", "put", "save", "clear"}

Init ==
  /\ folder = Nothing /\ stage = Nothing /\ seed = Nothing
  /\ manifest = NoManifest
  /\ client = {} /\ published = {}
  /\ item = [seq |-> 0, snap |-> Nothing]
  /\ clock = 1 /\ edits = 0 /\ failures = 0
  /\ pc = [a \in Actor |-> "idle"]
  /\ todo = [a \in Actor |-> {}]
  /\ file = [a \in Actor |-> NoPath]
  /\ buf = [a \in Actor |-> NoFile]
  /\ snap = [a \in Actor |-> Nothing]
  /\ seq = [a \in Actor |-> 0]

Files(s) == {f \in Path : s[f] # NoFile}

\* What is left of s when copying or removing it stopped half way.
Parts(s) == {[f \in Path |-> IF f \in F THEN s[f] ELSE NoFile] : F \in SUBSET Path}

Goto(a, label) == pc' = [pc EXCEPT ![a] = label]

Fail == failures < MaxFailures /\ failures' = failures + 1

-----------------------------------------------------------------------------
(* The user and the clock.                                                 *)

Edit(f, c) ==
  /\ edits < MaxEdits
  /\ edits' = edits + 1
  /\ folder' = [folder EXCEPT ![f] = c]
  /\ UNCHANGED <<diskVars, netVars, clock, failures,
                 pc, todo, copyVars, snap, seq>>

\* Seconds in which nothing was built are not told apart.
Tick ==
  /\ clock < MaxClock
  /\ \E a \in Actor : seq[a] = clock
  /\ clock' = clock + 1
  /\ UNCHANGED <<userVars, diskVars, netVars, failures,
                 pc, todo, copyVars, snap, seq>>

-----------------------------------------------------------------------------
(* Push of every file: Staging.Add.                                        *)

\* Mutant: files already in staging are not copied again.
WalkUnstaged(a) ==
  /\ pc[a] = "idle"
  /\ SlowTicks => seq[a] < clock
  /\ Goto(a, "stage")
  /\ todo' = [todo EXCEPT ![a] = Files(folder) \ Files(stage)]
  /\ UNCHANGED <<userVars, diskVars, netVars, clock, failures,
                 copyVars, snap, seq>>

Walk(a) ==
  /\ pc[a] = "idle"
  /\ SlowTicks => seq[a] < clock
  /\ Goto(a, "stage")
  /\ todo' = [todo EXCEPT ![a] = Files(folder)]
  /\ UNCHANGED <<userVars, diskVars, netVars, clock, failures,
                 copyVars, snap, seq>>

\* copyFile opens the source, then truncates the destination.
AddBegin(a, f) ==
  /\ pc[a] = "stage" /\ f \in todo[a]
  /\ folder[f] # NoFile
  /\ Goto(a, "copying")
  /\ todo' = [todo EXCEPT ![a] = @ \ {f}]
  /\ file' = [file EXCEPT ![a] = f]
  /\ buf' = [buf EXCEPT ![a] = folder[f]]
  /\ stage' = [stage EXCEPT ![f] = Torn]
  /\ UNCHANGED <<userVars, seed, manifest, netVars, clock, failures,
                 snap, seq>>

\* The source is gone: staging keeps what it had.
AddMissing(a, f) ==
  /\ pc[a] = "stage" /\ f \in todo[a]
  /\ folder[f] = NoFile
  /\ todo' = [todo EXCEPT ![a] = @ \ {f}]
  /\ UNCHANGED <<userVars, diskVars, netVars, clock, failures,
                 pc, copyVars, snap, seq>>

EndCopy(a) ==
  /\ pc[a] = "copying"
  /\ Goto(a, "stage")
  /\ file' = [file EXCEPT ![a] = NoPath]
  /\ buf' = [buf EXCEPT ![a] = NoFile]
  /\ UNCHANGED <<userVars, seed, manifest, netVars, clock,
                 todo, snap, seq>>

\* The copy is whole, unless another actor removed the file meanwhile.
AddDone(a) ==
  /\ EndCopy(a)
  /\ stage' = IF stage[file[a]] = NoFile THEN stage
              ELSE [stage EXCEPT ![file[a]] = buf[a]]
  /\ UNCHANGED failures

\* Push returns the error, the engine logs it and goes on.
AddFails(a) ==
  /\ CopyErrors
  /\ EndCopy(a)
  /\ Fail
  /\ UNCHANGED stage

-----------------------------------------------------------------------------
(* Flush                                                                   *)

AllStaged(a) == pc[a] = "stage" /\ todo[a] = {}

\* Mutant: only the names of the files are compared.
HasOtherFiles == manifest # NoManifest => Files(manifest) # Files(stage)

HasChanges == manifest # stage

\* Staging is what was published last: nothing to do, staging stays as it is.
NoChanges(a) ==
  /\ AllStaged(a)
  /\ ~HasChanges
  /\ Goto(a, "idle")
  /\ UNCHANGED <<userVars, diskVars, netVars, clock, failures,
                 todo, copyVars, snap, seq>>

Changed(a) ==
  /\ AllStaged(a)
  /\ HasChanges
  /\ Goto(a, "build")
  /\ UNCHANGED <<userVars, diskVars, netVars, clock, failures,
                 todo, copyVars, snap, seq>>

\* Mutant: the manifest is saved when the snapshot is built.
BuildAndSave(a) ==
  /\ pc[a] = "build"
  /\ stage # Nothing
  /\ Goto(a, "clearseed")
  /\ snap' = [snap EXCEPT ![a] = stage]
  /\ seq' = [seq EXCEPT ![a] = clock]
  /\ manifest' = stage
  /\ UNCHANGED <<userVars, stage, seed, netVars, clock, failures,
                 todo, copyVars>>

BuildSnapshot(a) ==
  /\ pc[a] = "build"
  /\ stage # Nothing
  /\ Goto(a, "clearseed")
  /\ snap' = [snap EXCEPT ![a] = stage]
  /\ seq' = [seq EXCEPT ![a] = clock]
  /\ UNCHANGED <<userVars, diskVars, netVars, clock, failures,
                 todo, copyVars>>

\* "no files in staging"
NothingStaged(a) ==
  /\ pc[a] = "build"
  /\ stage = Nothing
  /\ Goto(a, "idle")
  /\ UNCHANGED <<userVars, diskVars, netVars, clock, failures,
                 todo, copyVars, snap, seq>>

\* Mutant: a seed directory that has data is kept.
SeedOnce(a) ==
  /\ pc[a] = "clearseed"
  /\ Goto(a, IF seed = Nothing THEN "copyseed" ELSE "add")
  /\ UNCHANGED <<userVars, diskVars, netVars, clock, failures,
                 todo, copyVars, snap, seq>>

\* PromoteToSeed empties the only seed directory of the project ...
ClearSeed(a) ==
  /\ pc[a] = "clearseed"
  /\ Goto(a, "copyseed")
  /\ seed' = Nothing
  /\ UNCHANGED <<userVars, stage, manifest, netVars, clock, failures,
                 todo, copyVars, snap, seq>>

\* ... and copies staging, as it is now, into it.
CopySeed(a) ==
  /\ pc[a] = "copyseed"
  /\ Goto(a, IF stage = Nothing THEN "idle" ELSE "add")
  /\ seed' = [f \in Path |-> IF stage[f] = NoFile THEN seed[f] ELSE stage[f]]
  /\ UNCHANGED <<userVars, stage, manifest, netVars, clock, failures,
                 todo, copyVars, snap, seq>>

\* Mutant: an error of the torrent client is logged only.
AddTorrentFileAnyhow(a) ==
  /\ pc[a] = "add"
  /\ Goto(a, "put")
  /\ client' \in {client, client \cup {snap[a]}}
  /\ UNCHANGED <<userVars, diskVars, item, published, clock, failures,
                 todo, copyVars, snap, seq>>

AddTorrentFile(a) ==
  /\ pc[a] = "add"
  /\ Goto(a, "put")
  /\ client' = client \cup {snap[a]}
  /\ UNCHANGED <<userVars, diskVars, item, published, clock, failures,
                 todo, copyVars, snap, seq>>

\* Mutant: the manifest on disk is put, not the new one.
PutManifest(a) ==
  /\ pc[a] = "put"
  /\ Goto(a, "save")
  /\ published' = published \cup {manifest}
  /\ item' = [seq |-> seq[a], snap |-> manifest]
  /\ UNCHANGED <<userVars, diskVars, client, clock, failures,
                 todo, copyVars, snap, seq>>

\* The nodes that get the put keep it if its seq is greater than theirs; Put
\* does not look at their answers.
Put(a) ==
  /\ pc[a] = "put"
  /\ Goto(a, "save")
  /\ published' = published \cup {snap[a]}
  /\ \/ /\ seq[a] > item.seq
        /\ item' = [seq |-> seq[a], snap |-> snap[a]]
        /\ UNCHANGED failures
     \/ /\ seq[a] <= item.seq
        /\ UNCHANGED <<item, failures>>
     \/ /\ LossyPut /\ Fail
        /\ UNCHANGED item
  /\ UNCHANGED <<userVars, diskVars, client, clock,
                 todo, copyVars, snap, seq>>

SaveLastManifest(a) ==
  /\ pc[a] = "save"
  /\ Goto(a, "clear")
  /\ manifest' = snap[a]
  /\ UNCHANGED <<userVars, stage, seed, netVars, clock, failures,
                 todo, copyVars, snap, seq>>

Clear(a) ==
  /\ pc[a] = "clear"
  /\ Goto(a, "idle")
  /\ stage' = Nothing
  /\ UNCHANGED <<userVars, seed, manifest, netVars, clock, failures,
                 todo, copyVars, snap, seq>>

\* Flush returns an error, or the process is killed: the step under way is done
\* in part, and nothing after it.
Stop(a) ==
  /\ pc[a] # "idle"
  /\ Fail
  /\ Goto(a, "idle")
  /\ todo' = [todo EXCEPT ![a] = {}]
  /\ file' = [file EXCEPT ![a] = NoPath]
  /\ buf' = [buf EXCEPT ![a] = NoFile]
  /\ \/ UNCHANGED diskVars
     \/ pc[a] = "copyseed" /\ seed' \in Parts(stage) /\ UNCHANGED <<stage, manifest>>
     \/ /\ pc[a] = "save" /\ manifest' \in Parts(snap[a]) \cup {NoManifest}
        /\ UNCHANGED <<stage, seed>>
     \/ pc[a] = "clear" /\ stage' \in Parts(stage) /\ UNCHANGED <<seed, manifest>>
  /\ UNCHANGED <<userVars, netVars, clock, snap, seq>>

-----------------------------------------------------------------------------
UserStep ==
  \E f \in Path : \/ Edit(f, edits + 1)
                  \/ Reverts /\ \E c \in 1 .. edits : Edit(f, c)
                  \/ Deletions /\ Edit(f, NoFile)

Flush(a) ==
  \/ NoChanges(a) \/ Changed(a)
  \/ BuildSnapshot(a) \/ NothingStaged(a)
  \/ ClearSeed(a) \/ CopySeed(a)
  \/ AddTorrentFile(a) \/ Put(a) \/ SaveLastManifest(a) \/ Clear(a)

Advance(a) ==
  \/ \E f \in Path : AddBegin(a, f) \/ AddMissing(a, f)
  \/ AddDone(a)
  \/ Flush(a)

Next ==
  \/ UserStep
  \/ Tick
  \/ \E a \in Actor : Walk(a) \/ Advance(a) \/ AddFails(a) \/ Stop(a)

(* A cycle that began goes on; the ticker of a daemon fires for ever; time *)
(* passes.                                                                 *)
Fairness ==
  /\ WF_vars(Tick)
  /\ \A a \in Actor : WF_vars(Advance(a))
  /\ \A a \in Daemons : WF_vars(Walk(a))

Spec == Init /\ [][Next]_vars

FairSpec == Spec /\ Fairness

-----------------------------------------------------------------------------
TypeOK ==
  /\ {folder, stage, seed, item.snap} \cup published \cup client \subseteq Snapshot
  /\ manifest \in Snapshot \cup {NoManifest}
  /\ item.seq \in 0 .. MaxClock
  /\ clock \in 1 .. MaxClock
  /\ edits \in 0 .. MaxEdits
  /\ failures \in 0 .. MaxFailures
  /\ pc \in [Actor -> PCs]
  /\ todo \in [Actor -> SUBSET Path]
  /\ file \in [Actor -> Path \cup {NoPath}]
  /\ buf \in [Actor -> Content]
  /\ snap \in [Actor -> Snapshot]
  /\ seq \in [Actor -> 0 .. MaxClock]

Announced == item.seq # 0

\* Whoever follows the DHT never gets a magnet that nobody was asked to seed,
\* whatever fails and whoever flushes concurrently (torrent.go:111-143: the
\* torrent is added before the put).
AnnouncedIsSeeded == Announced => item.snap \in client

\* A crash in the middle of a copy leaves a truncated file in staging, and no
\* such file is ever announced: every file is staged again before Flush looks.
\* It needs one actor, and files that do not vanish or fail to copy then.
AnnouncedFilesAreWhole == Announced => \A f \in Path : item.snap[f] # Torn

\* A cycle that finds no changes staged something that was put to the DHT
\* before, also when the last manifest was left half written (HasChanges,
\* torrent_staging.go:67-95).
OnlyPublishedIsSkipped ==
  [][\A a \in Actor : AllStaged(a) /\ pc'[a] = "idle" /\ failures' = failures
                        => stage \in published]_vars

\* Between cycles the seed directory holds the data of the announced torrent:
\* receivers can download it.  It needs one actor, which has not failed so far.
AnnouncedIsDownloadable ==
  (Announced /\ failures = 0 /\ \A a \in Actor : pc[a] = "idle")
    => seed = item.snap

\* s has the files of F with their contents in the folder.
Current(s, F) == \A f \in F : s[f] = folder[f]

\* Every file of the folder is announced with its content, and the cycles under
\* way are about to announce the same.
UpToDate ==
  /\ Current(item.snap, Files(folder))
  /\ \A a \in Actor :
       /\ pc[a] = "stage" => Current(stage, Files(folder) \ todo[a])
       /\ pc[a] = "copying" =>
            /\ Current(stage, Files(folder) \ (todo[a] \cup {file[a]}))
            /\ stage[file[a]] # NoFile /\ buf[a] = folder[file[a]]
       /\ pc[a] = "build" => Current(stage, Files(folder))
       /\ pc[a] \in {"clearseed", "copyseed", "add", "put"} =>
            Current(snap[a], Files(folder))

\* When edits and failures have stopped, every file of the folder is announced
\* with its contents and stays so, whichever step of whichever cycle failed.  It
\* needs cycles a second apart, puts that arrive, and no staged file that returns
\* to an earlier content, be it that the user undoes a change or that a copy fails
\* once (README.md:509: the magnet link of the folder is published).
LatestContentAnnounced == <>[]UpToDate

-----------------------------------------------------------------------------
(* Inductive strengthenings.                                               *)

\* The torrent is with the client by the time it is put.
SeededInv ==
  /\ AnnouncedIsSeeded
  /\ \A a \in Actor : pc[a] = "put" => snap[a] \in client

Whole(s) == \A f \in Path : s[f] # Torn

\* A truncated file in staging is one that the cycle has yet to stage.
WholeInv ==
  /\ \A f \in Path : /\ folder[f] # Torn
                     /\ stage[f] # NoFile => folder[f] # NoFile
  /\ \A a \in Actor :
       /\ pc[a] = "stage" => \A f \in Path : stage[f] = Torn => f \in todo[a]
       /\ pc[a] = "copying" =>
            /\ file[a] \in Path /\ folder[file[a]] # NoFile
            /\ buf[a] # Torn
            /\ \A f \in Path : stage[f] = Torn => f \in todo[a] \cup {file[a]}
       /\ pc[a] \notin {"idle", "stage", "copying"} => Whole(stage)
       /\ pc[a] \in {"clearseed", "copyseed", "add", "put"} => Whole(snap[a])
  /\ Whole(item.snap)

\* A manifest that was left half written misses a file that the folder has, and
\* a cycle that reads the folder stages that file.
SkipInv ==
  /\ \A a \in Actor :
       /\ pc[a] \in {"stage", "copying"} => todo[a] \subseteq Files(folder)
       /\ pc[a] = "copying" => buf[a] # NoFile
       /\ pc[a] \in {"clearseed", "copyseed", "add", "put", "save"}
            => Files(snap[a]) \subseteq Files(folder)
       /\ pc[a] = "save" => snap[a] \in published
  /\ \/ manifest \in published \cup {NoManifest}
     \/ \E f \in Files(folder) :
          /\ manifest[f] = NoFile
          /\ \A a \in Actor : pc[a] \in {"stage", "copying"}
                               => f \in todo[a] \cup Files(stage)

\* Until an operation fails, a cycle of the one actor that announces anything
\* announces it with a number above the last, and what it finds in staging stays
\* there until it is seeded.
DownloadInv ==
  failures = 0 =>
    \A a \in Actor :
      /\ item.seq <= seq[a] /\ seq[a] <= clock
      /\ pc[a] \in {"stage", "copying", "build"} => seq[a] < clock
      /\ pc[a] \in {"idle", "stage", "copying", "build", "save", "clear"}
           => (Announced => seed = item.snap)
      /\ pc[a] \in {"clearseed", "copyseed", "add", "put"} => item.seq < seq[a]
      /\ pc[a] \in {"clearseed", "copyseed"} => stage = snap[a] /\ stage # Nothing
      /\ pc[a] = "copyseed" => seed = Nothing
      /\ pc[a] \in {"add", "put"} => seed = snap[a]

\* Of two contents the first is not the newer one.
NotNewer(u, v) == u \in Version /\ v \in Version => u <= v

\* On its way to the DHT a file is never older than what was published before it,
\* nor newer than what it was taken from.
AgeInv(f) ==
  /\ folder[f] <= edits /\ stage[f] <= edits /\ NotNewer(stage[f], folder[f])
  /\ \A s \in published : /\ s[f] <= edits
                          /\ NotNewer(s[f], folder[f]) /\ NotNewer(s[f], stage[f])
  /\ \A a \in Actor :
       /\ pc[a] = "copying" /\ file[a] = f =>
            /\ buf[a] <= edits /\ NotNewer(buf[a], folder[f])
            /\ \A s \in published : NotNewer(s[f], buf[a])
       /\ pc[a] \in {"clearseed", "copyseed", "add", "put"} =>
            /\ snap[a][f] <= edits
            /\ NotNewer(snap[a][f], folder[f]) /\ NotNewer(snap[a][f], stage[f])
            /\ \A s \in published : NotNewer(s[f], snap[a][f])

\* No staged file can be skipped when it is staged again.
SteadyFolder == ~Deletions /\ ~CopyErrors /\ \A a, b \in Actor : a = b
=============================================================================
