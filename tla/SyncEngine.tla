----------------------------- MODULE SyncEngine -----------------------------
(***************************************************************************)
(* The synchronisation engine, core/engine.go: RunOnce, push, pull,        *)
(* listLocal and the config loop of Daemon, run by several actors at once. *)
(* An actor is whatever runs that loop: the `daemon` process, a `sync`     *)
(* command, or a goroutine started by the Sync button of the web UI        *)
(* (handleSync); nothing in the code keeps two of them apart.              *)
(*                                                                         *)
(* The remote side is a store that keeps one content per path and lets     *)
(* every upload replace it: the mock, FTP and S3 transports, and uploads   *)
(* by SSH and WebDAV.  Stores says what the other transports do instead.   *)
(*                                                                         *)
(* The content of a file is the number of the user's edit that produced    *)
(* it, so that a greater number is a newer file.  A directory walk and a   *)
(* remote listing are one step each; a transfer is two (open, complete),   *)
(* since other actors and the user run in between.                         *)
(***************************************************************************)
EXTENDS Integers, FiniteSets

CONSTANTS
  Path,           \* relative paths of files
  Folder,         \* registered local folders, of all machines
  Edited,         \* the folders whose user edits files
  Config,         \* sync configs, of all machines
  Actor,          \* whatever runs the config loop
  Daemons,        \* the actors that are tickers: they run again and again
  ConfigsOf,      \* [Actor -> SUBSET Config]: the configs one run goes through
  FolderOf,       \* [Config -> Folder]
  Direction,      \* [Config -> {"push", "pull", "bidirectional"}]
  SendFilter,     \* [Config -> SUBSET Path]: what the send filter lets through
  ReceiveFilter,  \* [Config -> SUBSET Path]: what the receive filter lets through
  StreamPush,     \* an upload truncates the remote file first (FTP, SSH, mock)
  StreamPull,     \* a download truncates the local file first (FTP, S3, HTTP)
  QuietUser,      \* users edit only while no actor runs
  MaxEdits,       \* bound on the edits (saves and deletions) of users
  MaxFailures,    \* bound on failed operations and crashes
  NoPath, NoConfig

Directions == {"push", "pull", "bidirectional"}

ASSUME TopologyAssumption ==
  /\ Edited \subseteq Folder
  /\ Daemons \subseteq Actor
  /\ ConfigsOf \in [Actor -> SUBSET Config]
  /\ FolderOf \in [Config -> Folder]
  /\ Direction \in [Config -> Directions]
  /\ SendFilter \in [Config -> SUBSET Path]
  /\ ReceiveFilter \in [Config -> SUBSET Path]
  /\ NoPath \notin Path
  /\ NoConfig \notin Config

ASSUME BoundAssumption ==
  /\ MaxEdits \in Nat
  /\ MaxFailures \in Nat
  /\ StreamPush \in BOOLEAN
  /\ StreamPull \in BOOLEAN
  /\ QuietUser \in BOOLEAN

Torn    == -1      \* a truncated or partly written file
NoFile  == 0
Version == 1 .. MaxEdits
Content == {Torn, NoFile} \cup Version

VARIABLES
  local,     \* [Folder -> [Path -> Content]]
  remote,    \* [Path -> Content]
  edits,     \* number of edits so far, the version of the latest one
  saved,     \* <<path, version>> pairs users have saved (history)
  acked,     \* newest version of each path whose push returned no error (history)
  failures,  \* failures and crashes so far
  pc,        \* where each actor stands
  queue,     \* configs the actor's run still has to go through
  cfg,       \* the config the actor is working on
  listed,    \* what the walk or the remote listing returned, filtered
  todo,      \* the listed paths the transfer loop has not reached
  file,      \* path of the transfer under way
  buf,       \* content that transfer carries
  journal    \* what the current loop told the journal: <<path, outcome>>

userVars  == <<edits, saved>>
actorVars == <<pc, queue, cfg, listed, todo, file, buf, journal>>
vars == <<local, remote, edits, saved, acked, failures,
          pc, queue, cfg, listed, todo, file, buf, journal>>

PCs == {"idle", "next", "walk", "push", "pushing", "list", "pull", "pulling"}
Outcome == {"ok", "error", "lost"}   \* "lost": the database took no row

Init ==
  /\ local = [d \in Folder |-> [f \in Path |-> NoFile]]
  /\ remote = [f \in Path |-> NoFile]
  /\ edits = 0
  /\ saved = {}
  /\ acked = [f \in Path |-> NoFile]
  /\ failures = 0
  /\ pc = [a \in Actor |-> "idle"]
  /\ queue = [a \in Actor |-> {}]
  /\ cfg = [a \in Actor |-> NoConfig]
  /\ listed = [a \in Actor |-> {}]
  /\ todo = [a \in Actor |-> {}]
  /\ file = [a \in Actor |-> NoPath]
  /\ buf = [a \in Actor |-> NoFile]
  /\ journal = [a \in Actor |-> {}]

-----------------------------------------------------------------------------
(* The user of a folder.                                                   *)

MayEdit == /\ edits < MaxEdits
           /\ QuietUser => \A a \in Actor : pc[a] = "idle"

Save(d, f) ==
  /\ MayEdit
  /\ edits' = edits + 1
  /\ saved' = saved \cup {<<f, edits + 1>>}
  /\ local' = [local EXCEPT ![d][f] = edits + 1]
  /\ UNCHANGED <<remote, acked, failures, actorVars>>

Delete(d, f) ==
  /\ MayEdit
  /\ local[d][f] # NoFile
  /\ edits' = edits + 1
  /\ local' = [local EXCEPT ![d][f] = NoFile]
  /\ UNCHANGED <<remote, saved, acked, failures, actorVars>>

-----------------------------------------------------------------------------
(* The loop over the configs.                                              *)

Goto(a, label) == pc' = [pc EXCEPT ![a] = label]

Fail == failures < MaxFailures /\ failures' = failures + 1

Here(a) == FolderOf[cfg[a]]     \* e.localPath

\* A tick of the daemon, or the start of a `sync` run: load the configs.
StartRun(a) ==
  /\ pc[a] = "idle"
  /\ Goto(a, "next")
  /\ queue' = [queue EXCEPT ![a] = ConfigsOf[a]]
  /\ UNCHANGED <<local, remote, userVars, acked, failures,
                 cfg, listed, todo, file, buf, journal>>

\* NewSyncEngine succeeds and RunOnce starts with the half its direction names.
TakeConfig(a, c) ==
  /\ pc[a] = "next"
  /\ c \in queue[a]
  /\ queue' = [queue EXCEPT ![a] = @ \ {c}]
  /\ cfg' = [cfg EXCEPT ![a] = c]
  /\ Goto(a, IF Direction[c] = "pull" THEN "list" ELSE "walk")
  /\ UNCHANGED <<local, remote, userVars, acked, failures,
                 listed, todo, file, buf, journal>>

\* NewSyncEngine fails (folder gone from the database, transport refused).
SkipConfig(a, c) ==
  /\ pc[a] = "next"
  /\ c \in queue[a]
  /\ Fail
  /\ queue' = [queue EXCEPT ![a] = @ \ {c}]
  /\ UNCHANGED <<local, remote, userVars, acked,
                 pc, cfg, listed, todo, file, buf, journal>>

EndRun(a) ==
  /\ pc[a] = "next"
  /\ queue[a] = {}
  /\ Goto(a, "idle")
  /\ UNCHANGED <<local, remote, userVars, acked, failures,
                 queue, cfg, listed, todo, file, buf, journal>>

-----------------------------------------------------------------------------
(* What both transfer loops share.                                         *)

\* Start a loop at label over the paths of S.
BeginLoop(a, label, S) ==
  /\ Goto(a, label)
  /\ listed' = [listed EXCEPT ![a] = S]
  /\ todo' = [todo EXCEPT ![a] = S]
  /\ journal' = [journal EXCEPT ![a] = {}]

\* Leave a loop, or the whole cycle, for label.
EndLoop(a, label) ==
  /\ Goto(a, label)
  /\ listed' = [listed EXCEPT ![a] = {}]
  /\ todo' = [todo EXCEPT ![a] = {}]
  /\ journal' = [journal EXCEPT ![a] = {}]
  /\ cfg' = [cfg EXCEPT ![a] = IF label = "list" THEN @ ELSE NoConfig]

\* Open the next file of the loop and hold its content.
BeginTransfer(a, label, f, content) ==
  /\ f \in todo[a]
  /\ Goto(a, label)
  /\ todo' = [todo EXCEPT ![a] = @ \ {f}]
  /\ file' = [file EXCEPT ![a] = f]
  /\ buf' = [buf EXCEPT ![a] = content]

\* logSyncToJournal: a row for f, or silently none when the database cannot be
\* opened or refuses the row.
Log(a, f, status) ==
  \E outcome \in {status, "lost"} :
    journal' = [journal EXCEPT ![a] = @ \cup {<<f, outcome>>}]

\* Mutant: the row is written after the name of the file is gone.
EndTransferNameless(a, label, status) ==
  /\ Goto(a, label)
  /\ file' = [file EXCEPT ![a] = NoPath]
  /\ buf' = [buf EXCEPT ![a] = NoFile]
  /\ Log(a, file'[a], status)

\* Journal the transfer under way and go back to the loop.
EndTransfer(a, label, status) ==
  /\ Goto(a, label)
  /\ file' = [file EXCEPT ![a] = NoPath]
  /\ buf' = [buf EXCEPT ![a] = NoFile]
  /\ Log(a, file[a], status)

\* Mutant: a file that fails at once is dropped, without a call of the journal.
RefuseTransferSilently(a, f) ==
  /\ f \in todo[a]
  /\ todo' = [todo EXCEPT ![a] = @ \ {f}]
  /\ UNCHANGED journal

\* Journal a file whose transfer never began.
RefuseTransfer(a, f) ==
  /\ f \in todo[a]
  /\ todo' = [todo EXCEPT ![a] = @ \ {f}]
  /\ Log(a, f, "error")

-----------------------------------------------------------------------------
(* push                                                                    *)

Present(d) == {f \in Path : local[d][f] # NoFile}

Walk(a) ==
  /\ pc[a] = "walk"
  /\ BeginLoop(a, "push", Present(Here(a)) \cap SendFilter[cfg[a]])
  /\ UNCHANGED <<local, remote, userVars, acked, failures,
                 queue, cfg, file, buf>>

\* The walk or the send filter fails: the cycle ends, its pull included.
WalkFails(a) ==
  /\ pc[a] = "walk"
  /\ Fail
  /\ EndLoop(a, "next")
  /\ UNCHANGED <<local, remote, userVars, acked, queue, file, buf>>

PushBegin(a, f) ==
  /\ pc[a] = "push"
  /\ local[Here(a)][f] # NoFile
  /\ BeginTransfer(a, "pushing", f, local[Here(a)][f])
  /\ remote' = IF StreamPush THEN [remote EXCEPT ![f] = Torn] ELSE remote
  /\ UNCHANGED <<local, userVars, acked, failures, queue, cfg, listed, journal>>

\* Mutant: a file that disappeared is deleted from the store.
PushMissingDeletes(a, f) ==
  /\ pc[a] = "push"
  /\ local[Here(a)][f] = NoFile
  /\ RefuseTransfer(a, f)
  /\ remote' = [remote EXCEPT ![f] = NoFile]
  /\ UNCHANGED <<local, userVars, acked, failures,
                 pc, queue, cfg, listed, file, buf>>

\* The file was deleted after the walk.
PushMissing(a, f) ==
  /\ pc[a] = "push"
  /\ local[Here(a)][f] = NoFile
  /\ RefuseTransfer(a, f)
  /\ UNCHANGED <<local, remote, userVars, acked, failures,
                 pc, queue, cfg, listed, file, buf>>

PushDone(a) ==
  /\ pc[a] = "pushing"
  /\ remote' = [remote EXCEPT ![file[a]] = buf[a]]
  /\ acked' = [acked EXCEPT ![file[a]] = IF buf[a] > @ THEN buf[a] ELSE @]
  /\ EndTransfer(a, "push", "ok")
  /\ UNCHANGED <<local, userVars, failures, queue, cfg, listed, todo>>

\* Mutant: the error of an upload is lost.
PushFailsUnseen(a) ==
  /\ pc[a] = "pushing"
  /\ Fail
  /\ acked' = [acked EXCEPT ![file[a]] = IF buf[a] > @ THEN buf[a] ELSE @]
  /\ EndTransfer(a, "push", "ok")
  /\ UNCHANGED <<local, remote, userVars, queue, cfg, listed, todo>>

\* Mutant: what was uploaded so far replaces the stored file.
PushFailsHalfway(a) ==
  /\ pc[a] = "pushing"
  /\ Fail
  /\ remote' = [remote EXCEPT ![file[a]] = Torn]
  /\ EndTransfer(a, "push", "error")
  /\ UNCHANGED <<local, userVars, acked, queue, cfg, listed, todo>>

\* The upload breaks off and what it truncated stays truncated, or it was stored
\* and only the answer is lost.
PushFails(a) ==
  /\ pc[a] = "pushing"
  /\ Fail
  /\ remote' \in {remote, [remote EXCEPT ![file[a]] = buf[a]]}
  /\ EndTransfer(a, "push", "error")
  /\ UNCHANGED <<local, userVars, acked, queue, cfg, listed, todo>>

\* The server refuses the connection: nothing was touched.
PushRefused(a, f) ==
  /\ pc[a] = "push"
  /\ Fail
  /\ RefuseTransfer(a, f)
  /\ UNCHANGED <<local, remote, userVars, acked,
                 pc, queue, cfg, listed, file, buf>>

\* Mutant: the loop returns before its end.
EndPushEarly(a) ==
  /\ pc[a] = "push"
  /\ EndLoop(a, IF Direction[cfg[a]] = "bidirectional" THEN "list" ELSE "next")
  /\ UNCHANGED <<local, remote, userVars, acked, failures, queue, file, buf>>

\* Mutant: the two-way cycle forgets to pull.
EndPushOnly(a) ==
  /\ pc[a] = "push"
  /\ todo[a] = {}
  /\ EndLoop(a, "next")
  /\ UNCHANGED <<local, remote, userVars, acked, failures, queue, file, buf>>

EndPush(a) ==
  /\ pc[a] = "push"
  /\ todo[a] = {}
  /\ EndLoop(a, IF Direction[cfg[a]] = "bidirectional" THEN "list" ELSE "next")
  /\ UNCHANGED <<local, remote, userVars, acked, failures, queue, file, buf>>

-----------------------------------------------------------------------------
(* pull                                                                    *)

Stored == {f \in Path : remote[f] # NoFile}

\* Mutant: files that the folder has in any version are skipped.
ListMissingFiles(a) ==
  /\ pc[a] = "list"
  /\ BeginLoop(a, "pull", {f \in Stored \cap ReceiveFilter[cfg[a]] :
                             local[Here(a)][f] = NoFile})
  /\ UNCHANGED <<local, remote, userVars, acked, failures,
                 queue, cfg, file, buf>>

ListRemote(a) ==
  /\ pc[a] = "list"
  /\ BeginLoop(a, "pull", Stored \cap ReceiveFilter[cfg[a]])
  /\ UNCHANGED <<local, remote, userVars, acked, failures,
                 queue, cfg, file, buf>>

\* The listing or the receive filter fails: the cycle ends.
ListFails(a) ==
  /\ pc[a] = "list"
  /\ Fail
  /\ EndLoop(a, "next")
  /\ UNCHANGED <<local, remote, userVars, acked, queue, file, buf>>

PullBegin(a, f) ==
  /\ pc[a] = "pull"
  /\ BeginTransfer(a, "pulling", f, remote[f])
  /\ local' = IF StreamPull THEN [local EXCEPT ![Here(a)][f] = Torn] ELSE local
  /\ UNCHANGED <<remote, userVars, acked, failures, queue, cfg, listed, journal>>

\* Mutant: the download goes to whichever path the loop variable then has.
PullDoneElsewhere(a) ==
  /\ pc[a] = "pulling"
  /\ \E f \in listed[a] : local' = [local EXCEPT ![Here(a)][f] = buf[a]]
  /\ EndTransfer(a, "pull", "ok")
  /\ UNCHANGED <<remote, userVars, acked, failures, queue, cfg, listed, todo>>

PullDone(a) ==
  /\ pc[a] = "pulling"
  /\ local' = [local EXCEPT ![Here(a)][file[a]] = buf[a]]
  /\ EndTransfer(a, "pull", "ok")
  /\ UNCHANGED <<remote, userVars, acked, failures, queue, cfg, listed, todo>>

PullFails(a) ==
  /\ pc[a] = "pulling"
  /\ Fail
  /\ EndTransfer(a, "pull", "error")
  /\ UNCHANGED <<local, remote, userVars, acked, queue, cfg, listed, todo>>

PullRefused(a, f) ==
  /\ pc[a] = "pull"
  /\ Fail
  /\ RefuseTransfer(a, f)
  /\ UNCHANGED <<local, remote, userVars, acked,
                 pc, queue, cfg, listed, file, buf>>

EndPull(a) ==
  /\ pc[a] = "pull"
  /\ todo[a] = {}
  /\ EndLoop(a, "next")
  /\ UNCHANGED <<local, remote, userVars, acked, failures, queue, file, buf>>

-----------------------------------------------------------------------------
\* The process of the actor is killed: a transfer under way stops where it is,
\* or was complete and only its row is missing.
Crash(a) ==
  /\ pc[a] # "idle"
  /\ Fail
  /\ EndLoop(a, "idle")
  /\ queue' = [queue EXCEPT ![a] = {}]
  /\ file' = [file EXCEPT ![a] = NoPath]
  /\ buf' = [buf EXCEPT ![a] = NoFile]
  /\ \/ UNCHANGED <<local, remote>>
     \/ /\ pc[a] = "pushing"
        /\ remote' = [remote EXCEPT ![file[a]] = buf[a]]
        /\ UNCHANGED local
     \/ /\ pc[a] = "pulling"
        /\ local' = [local EXCEPT ![Here(a)][file[a]] = buf[a]]
        /\ UNCHANGED remote
  /\ UNCHANGED <<userVars, acked>>

UserStep == \E d \in Edited, f \in Path : Save(d, f) \/ Delete(d, f)

\* What the actor does by itself once its run has begun.
Advance(a) ==
  \/ \E c \in Config : TakeConfig(a, c)
  \/ EndRun(a)
  \/ Walk(a) \/ PushDone(a) \/ EndPush(a)
  \/ ListRemote(a) \/ PullDone(a) \/ EndPull(a)
  \/ \E f \in Path : PushBegin(a, f) \/ PushMissing(a, f) \/ PullBegin(a, f)

\* What the network, the disk or the operating system does to it.
Break(a) ==
  \/ \E c \in Config : SkipConfig(a, c)
  \/ WalkFails(a) \/ PushFails(a) \/ ListFails(a) \/ PullFails(a)
  \/ \E f \in Path : PushRefused(a, f) \/ PullRefused(a, f)
  \/ Crash(a)

Next == UserStep \/ \E a \in Actor : StartRun(a) \/ Advance(a) \/ Break(a)

(* A started run goes on, because its actor never blocks on another one    *)
(* and every transport call returns; the ticker of a daemon fires again    *)
(* after each run, also after a restart of the killed process.  Users and  *)
(* failures owe nothing.                                                   *)
Fairness == /\ \A a \in Actor : WF_vars(Advance(a))
            /\ \A a \in Daemons : WF_vars(StartRun(a))

Spec == Init /\ [][Next]_vars

FairSpec == Spec /\ Fairness

-----------------------------------------------------------------------------
TypeOK ==
  /\ local \in [Folder -> [Path -> Content]]
  /\ remote \in [Path -> Content]
  /\ edits \in 0 .. MaxEdits
  /\ saved \in SUBSET (Path \X Version)
  /\ acked \in [Path -> Content]
  /\ failures \in 0 .. MaxFailures
  /\ pc \in [Actor -> PCs]
  /\ queue \in [Actor -> SUBSET Config]
  /\ cfg \in [Actor -> Config \cup {NoConfig}]
  /\ listed \in [Actor -> SUBSET Path]
  /\ todo \in [Actor -> SUBSET Path]
  /\ file \in [Actor -> Path \cup {NoPath}]
  /\ buf \in [Actor -> Content]
  /\ journal \in [Actor -> SUBSET (Path \X Outcome)]

\* c could be the content of f without anything having been mixed up.
Genuine(f, c) == c \in {Torn, NoFile} \/ <<f, c>> \in saved

\* Whatever is interleaved, cut short or retried, a whole file found under a
\* path, in a folder, in the store or in a transfer, is one that a user saved
\* under that very path: engines never mix up paths (core/engine.go:106,141).
Provenance ==
  /\ \A d \in Folder, f \in Path : Genuine(f, local[d][f])
  /\ \A f \in Path : Genuine(f, remote[f])
  /\ \A a \in Actor : file[a] # NoPath => Genuine(file[a], buf[a])

InFlight(a) == IF file[a] = NoPath THEN {} ELSE {file[a]}

\* The files the loop is done with, in error or not, whether the row was kept or lost.
Tried(a) == {r[1] : r \in journal[a]}

\* Each file listed by the actor is in one place: tried once, in flight, or to
\* come.
AccountedFor(a) ==
  /\ listed[a] = Tried(a) \cup InFlight(a) \cup todo[a]
  /\ todo[a] \cap (Tried(a) \cup InFlight(a)) = {}
  /\ InFlight(a) \cap Tried(a) = {}
  /\ \A r, s \in journal[a] : r[1] = s[1] => r = s

\* An error of one file costs no other file its transfer, no file is transferred
\* or journaled twice in a loop, and the journal has no row of a file that was
\* not listed (engine.go:100-111 and 136-147, where errors are logged and the
\* loop goes on).  It does not say that each file has a row: a row that the
\* database does not take is lost without a word (engine.go:315,319).
EveryListedFileTried == \A a \in Actor : AccountedFor(a)

\* A loop is left only when every file it listed was tried, whatever became of
\* the files before and of their rows, unless the process was killed; a failed
\* listing leaves before the loop begins.
LoopsRunToTheEnd ==
  [][\A a \in Actor :
       pc[a] \in {"push", "pull"} /\ pc'[a] \in {"next", "list"}
         => Tried(a) = listed[a]]_vars

\* A file whose push returned no error is in the store in that version or a newer
\* one, for ever: what a row "ok" reports as backed up stays backed up.
\* It needs each file to have a single writer, into whose folder nobody pulls it.
AckedPushIsStored == \A f \in Path : remote[f] >= acked[f]

\* The store never gets a truncated file, although downloads and crashes leave
\* such files in folders: it holds where no folder is both pulled into and
\* pushed from, and uploads are atomic.
RemoteIntact == \A f \in Path : remote[f] # Torn

\* A file that a sync put in the place of another is not the older of the two
\* (conflict: newer_wins, cmd/root.go:230).
NewerWins ==
  [][\A d \in Folder, f \in Path :
       local[d][f] > 0 /\ local'[d][f] > 0 => local'[d][f] >= local[d][f]]_vars

Copying(a, d, f) == pc[a] = "pulling" /\ file[a] = f /\ Here(a) = d

\* Every cycle downloads every file again, so a streamed copy is truncated now and
\* then for as long as the engine runs.
BeingRewritten(d, f) == \E a \in Actor : Copying(a, d, f)

\* The sides agree on what the filters of c let through: the store has what the
\* pushed folder has, a folder pulled into has what the store has.
Mirrored(c) ==
  LET d == FolderOf[c]
  IN  /\ Direction[c] # "pull" =>
           \A f \in SendFilter[c] :
             local[d][f] # NoFile => remote[f] = local[d][f]
      /\ Direction[c] # "push" =>
           \A f \in ReceiveFilter[c] :
             remote[f] # NoFile => \/ local[d][f] = remote[f]
                                   \/ local[d][f] = Torn /\ BeingRewritten(d, f)

\* The sides agree, and so do the transfers under way.
Settled ==
  /\ \A c \in Config : Mirrored(c)
  /\ \A a \in Actor : file[a] # NoPath => buf[a] = remote[file[a]]

\* After the last edit and the last failure, the cycles of one-way configs make
\* the two sides agree and keep them so (cmd/root.go:224,225), whatever slow
\* transfers of older contents were under way, also when a second actor runs the
\* same config.
Convergence == <>[]Settled

\* Every folder and the store have the same set of files, uploads under way
\* included.
SameFiles ==
  /\ \A d \in Folder, f \in Path : local[d][f] # NoFile <=> remote[f] # NoFile
  /\ \A a \in Actor : pc[a] = "pushing" => remote[file[a]] # NoFile

\* Two-way sync ends with the same set of files everywhere: a file one user
\* creates reaches every folder, although nothing is ever deleted remotely.
SameFilesEverywhere == <>[]SameFiles

-----------------------------------------------------------------------------
\* With a single writer of each file the store keeps the promise of BackupStore: uploads
\* never take it back to an older version, and a confirmed version stays.
Promise == INSTANCE BackupStore WITH stored <- remote, confirmed <- acked

KeepsBackupPromise == Promise!Spec

-----------------------------------------------------------------------------
(* The topologies the conditional properties need.                         *)

\* Of all configs only k, which p alone runs, writes f to the store, and nobody
\* pulls f into its folder.
Owner(p, k, f) ==
  /\ p \in Actor /\ k \in ConfigsOf[p]
  /\ \A a \in Actor : \A c \in ConfigsOf[a] :
       Direction[c] # "pull" /\ f \in SendFilter[c] => a = p /\ c = k
  /\ \A c \in Config : Direction[c] # "push" /\ f \in ReceiveFilter[c]
                         => FolderOf[c] # FolderOf[k]

\* Machines may share a store both ways, each one with files of its own.
OneWriterEach == \A f \in Path : \E p \in Actor, k \in Config : Owner(p, k, f)

\* Nobody but a pulls f into d, where no user edits files.
Reader(a, d, f) ==
  /\ d \in Folder \ Edited
  /\ \A b \in Actor : \A c \in ConfigsOf[b] :
       Direction[c] # "push" /\ FolderOf[c] = d /\ f \in ReceiveFilter[c] => b = a

\* No file is both pulled into a folder and pushed from it.
OneWayFiles ==
  \A c, e \in Config :
    Direction[c] # "push" /\ Direction[e] # "pull" /\ FolderOf[c] = FolderOf[e]
      => ReceiveFilter[c] \cap SendFilter[e] = {}

-----------------------------------------------------------------------------
(* Inductive strengthenings.                                               *)

\* An actor works on one of its configs, in a phase its direction has, and
\* holds a file exactly while a transfer is under way.
PhaseInv ==
  \A a \in Actor :
    /\ queue[a] \subseteq ConfigsOf[a]
    /\ pc[a] \notin {"idle", "next"} => cfg[a] \in ConfigsOf[a]
    /\ pc[a] \in {"walk", "push", "pushing"} => Direction[cfg[a]] # "pull"
    /\ pc[a] \in {"list", "pull", "pulling"} => Direction[cfg[a]] # "push"
    /\ file[a] # NoPath <=> pc[a] \in {"pushing", "pulling"}

\* A loop works on what the filter of its config lets through.
FilterInv ==
  \A a \in Actor :
    /\ pc[a] \in {"push", "pushing"} => todo[a] \cup InFlight(a) \subseteq SendFilter[cfg[a]]
    /\ pc[a] \in {"pull", "pulling"} => todo[a] \cup InFlight(a) \subseteq ReceiveFilter[cfg[a]]

\* The content of a transfer and of the store lies between what was
\* acknowledged and what the owner's folder holds now.
OwnerInv(p, k, f) ==
  LET here == local[FolderOf[k]][f]
  IN  /\ here # Torn
      /\ acked[f] <= remote[f]
      /\ remote[f] <= edits
      /\ here # NoFile => remote[f] <= here
      /\ here <= edits
      /\ pc[p] = "pushing" /\ file[p] = f =>
           /\ remote[f] <= buf[p]
           /\ NoFile < buf[p]
           /\ buf[p] <= edits
           /\ here # NoFile => buf[p] <= here

\* No transfer carries an absent file, and what a listing returned stays stored:
\* nothing is ever deleted remotely.
PresentInv ==
  \A a \in Actor :
    /\ file[a] # NoPath => buf[a] # NoFile
    /\ pc[a] = "pull" => \A f \in todo[a] : remote[f] # NoFile
    /\ pc[a] = "pulling" => \A f \in todo[a] \cup {file[a]} : remote[f] # NoFile

\* A torn file is only where downloads go, and no upload carries one.
TornInv ==
  /\ \A c \in Config : \A f \in SendFilter[c] :
       Direction[c] # "pull" => local[FolderOf[c]][f] # Torn
  /\ \A a \in Actor : pc[a] = "pushing" => buf[a] # Torn

\* What may still replace the copy of f in d is not older than n.
NotOlder(a, d, f, n) ==
  /\ n <= remote[f]
  /\ local[d][f] \in Version => n <= local[d][f]
  /\ Copying(a, d, f) => n <= buf[a] /\ buf[a] <= remote[f]

\* The copy that a alone makes of f in d.
CopyInv(a, d, f) == NotOlder(a, d, f, local[d][f])
=============================================================================
