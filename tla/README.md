# sync-folders in TLA+

TLA+ models of sync-folders, a Go program that keeps local
folders in step with remote storages, model-checked with TLC on small instances
and, for the properties that matter most, proved with TLAPS for all instances.

    tlc -config SyncEngineBackup.cfg MCSyncEngine     # one run (they are listed below)
    tlapm SyncEngineProofs.tla                        # the proofs of a module

`PROJECT.json` lists the runs, the mutants that show that each checked property
can fail, the source lines behind every definition, the findings, and the
hazards of the code with the properties that watch them.

## 1. The system

| Part | Source | State it keeps | Operations | Model |
|---|---|---|---|---|
| Synchronisation engine | `core/engine.go`, `core/types.go` | nothing between cycles; a cycle has its file list and transport object | `Daemon`, `NewSyncEngine`, `RunOnce`, `push`, `pull`, `listLocal` | `SyncEngine`, `BackupStore` |
| Files and objects: FTP, S3, SSH, mock | `transport/{ftp,s3,ssh,mock}.go` | the remote files | `Push`, `Pull`, `List` (`Delete` has no caller) | store of `SyncEngine`; kinds of `Stores` |
| MySQL, HTTP, e-mail, WebDAV, IPFS | `transport/{mysql,http,email,webdav,ipfs}.go`, `*.php` | rows, uploads, messages, files, CIDs | same interface | `Stores` |
| Torrent, publishing | `transport/torrent.go`, `torrent_staging.go` | staging and seed directories, last manifest | `Push`, `Flush` and all of `Staging` | `TorrentPublish` |
| Torrent, receiving | `transport/torrent.go` | `lastSeq`, a download directory, one poller per transport object | `pullCycle`, `checkForUpdates`, `waitForDownload`, merge | `TorrentReceive` |
| Torrent clients | `transport/torrent_{qb,deluge,transmission}.go` | the client's torrents | `AddTorrentFile`, `AddMagnet`, `GetInfo` | qBittorrent in `TorrentPublish` and `TorrentReceive` |
| DHT client | `dht/client.go`, `dht/manifest.go` | local item store, nodes' items | `Put`, `Get` | `DhtCommands`; `Put` also in `TorrentPublish` |
| Journal, runtime information | `db/journal.go` | `sync_log`, `heartbeats`, daemon pid and port in `settings` | `Log`, `SetDaemonInfo`, `GetDaemonInfo`, `Heartbeat` | `SyncEngine`, `DhtCommands`, `WebUI` |
| Configuration | `core/config.go`, `db/config.go` | tables of folders and configs | `LoadConfig`, add, replace, remove, clear | `ConfigStore` |
| Command line | `cmd/root.go`, `cmd/torrent.go`, `cmd/tui.go` | none | subcommands, menu, `tryDaemonDHT` | `DhtCommands`, `ConfigStore` |
| Web UI | `cmd/webgui.go` | port, last ping | search for a port, ping, shutdown timer, handlers | `WebUI`; handlers in `ConfigStore` and `SyncEngine` |
| Filters | `filter/engine.go` | none | `Run` | constants of `SyncEngine` |
| Tor | `transport/tor.go` | none | a SOCKS dialer around other transports | not modelled: I/O, and no type `Factory` knows makes one |

**How they interact.** A daemon process runs every config in turn, once per tick.
For each config it loads the configuration again, makes a new transport object
and runs one cycle: `push` (walk the folder, filter, upload every file, changed
or not, and `Flush` if the transport has it), `pull` (list the remote side, filter,
download every file), or first one and then the other. Nothing but the remote
side, the folder and SQLite connects one cycle to the next, and nothing keeps
two cycles of one config apart: the daemon, a `sync` command and goroutines that
the Sync button of the web UI starts run the same loop at the same time. A torrent
transport also starts a goroutine that goes on polling the DHT after its cycle is
over. A daemon answers `dht` commands over HTTP; they find it by the pid and port
it left in SQLite. Configs and folders are edited by commands and by handlers of
the web UI, one statement at a time, while rounds read them.

**What is hard.** Concurrent cycles; users who edit between the walk, the opening
of a file and the end of its transfer; transfers that truncate their target
first; errors of single files, which are logged and journaled only; database errors that
are dropped, so that journal rows, saved ports and registrations are silently
missing; processes
that are killed anywhere (the web UI exits by itself when pings stop); uploads
stored after the client gave up; a `Flush` of seven steps over four stores (disk,
seed directory, torrent client, DHT) that may stop after any of them; sequence
numbers with a resolution of a second; transports that change names, drop
subfolders, or keep several rows of one name; pollers that pile up and share one
download directory; pids and ports that belong to somebody else by the time they
are used; processes that race for a port; tables that change between the queries
of one round.

**What makes each part correct.** *Engine:* paths are never mixed up; no file
costs another its transfer; what was uploaded without error stays backed up;
the sides agree in the end. *Transports:* `Push`, `List` and `Pull` agree on
names, and give back the newest content, whole, however transfers break off.
*Publishing:* what
the DHT announces is whole, seeded, and in the end the latest; nothing that was
not published is taken for published. *Receiving:* what is merged was announced under its name, no
item is lost, nothing returns to an older snapshot, the newest is merged in the
end. *DHT and commands:* a put that reports success can be found, a daemon answers
with what it confirmed, the settings lead to the newest daemon, a command ends.
*Configuration:* a round runs nothing that was gone before it began, a removed
config is run once more at most, a usable one again and again. *Web UI:* one per
machine, as long as the database answers, listed as alive, and it stays as long as
somebody looks at it.

## 2. The models and the code

### SyncEngine

An **actor** is whatever runs the config loop of `Daemon`: a ticker (`Daemons`),
a single `sync`, or the goroutine of the Sync button.

| State | In the code |
|---|---|
| `local[d]`, `remote` | the files of folder `d` and of the store: the number of the edit that made the content, `NoFile`, or `Torn` for a part of a file |
| `pc`, `queue`, `cfg` | where the actor is in `Daemon`/`RunOnce`, the configs it still has to run, the one it runs |
| `listed`, `todo` | `files` or `remoteFiles` after the filter, and the part of it the loop has not reached |
| `file`, `buf` | the transfer under way and the content it opened |
| `journal` | what this loop told `logSyncToJournal` of each file: "ok", "error", or "lost" if the database took no row |
| `saved`, `acked` | history: what users saved, and the newest version whose `Push` returned no error |

`StartRun`, `TakeConfig`, `SkipConfig`, `EndRun` are the loop of `Daemon`; `Walk`,
`PushBegin`, `PushDone`, `PushFails`, `PushMissing`, `PushRefused`, `EndPush` are
`push`; `ListRemote`, `Pull...`, `EndPull` are `pull`; `Crash` ends the process.
A walk and a listing are one step. A transfer is two, since the user and other
actors run in between; the content is the one at opening, so a file rewritten in
the middle of its own upload is not modelled. `StreamPush` and `StreamPull` say
whether a transfer truncates its target first (FTP uploads; FTP, S3 and HTTP
downloads). A failed upload may have been stored all the same. `Log` is
`logSyncToJournal`, which drops every error: any row may be lost, so that the
properties speak of the files a loop tried (`Tried`), not of rows.

`BackupStore` is what a backup promises: only versions that were saved,
never an older one after a newer one, and confirmed versions stay.
`KeepsBackupPromise` says that `SyncEngine` implements it (`stored <- remote`,
`confirmed <- acked`), for atomic uploads and one writer of each file: the configs
themselves may go both ways.

### Stores

`SyncEngine` assumes a store with one content per path. `Stores` says what each
transport makes of the same calls, in one module with a `kind`:

| kind | `Push` | `List` | `Pull` |
|---|---|---|---|
| `mock` | replaces the file, in place | all of them | that file |
| `s3` | replaces | all of them | that file |
| `ftp` | replaces, in place | the root only | that file |
| `webdav` | replaces, in place | nothing (the answer is not parsed) | that file |
| `mfs` | writes over the beginning, in place, does not truncate | the root only | that file |
| `mysql` | adds a row under the base name | names of the group | newest row of the name, of any group |
| `http` | a new file with a random suffix | all | that file |
| `email` | adds a message | all paths | the **first** message of the path |
| `hybrid` (IPFS with a discovery server) | announces a CID | what this object pushed | the tar archive of the last announced CID, whatever the path |

Only the first and the last row of a name are kept, since nothing reads others.
Cycles are those of `SyncEngine` with a transfer as one step. A download that fails
leaves the old file, a part (`Broken`: every transport truncates the file before it
copies) or the whole new one (`PullFails`); an upload that fails leaves a part in the
store where it is written in place (`InPlace`), may be stored later (`late` holds
uploads whose client gave up), or leaves nothing (`PushFails`). `Wrap` is the archive
that `ipfsGet` saves without unpacking it. Each machine has a `direction`, and a run
considers a set of them (`Topologies`). Several projects (`Group`) may share one
server; only MySQL lets them see each other, and the theorems, not the run, have
more than one. IPFS over PubSub
is left out: its `Pull` takes the listed path for a CID and always fails.

### TorrentPublish

`Walk`, `AddBegin`, `AddDone`, `AddFails`, `AddMissing` are the push loop over
`Staging.Add`; the actions of `Flush` are its steps in the order of the code:
`Changed`/`NoChanges` (`HasChanges`), `BuildSnapshot`, `ClearSeed` and `CopySeed`
(`PromoteToSeed`), `AddTorrentFile`, `Put`, `SaveLastManifest`, `Clear`. `Stop` is
an error return or a kill at any of them, and leaves any part of a directory copy
or of the manifest. A snapshot is a function from paths to contents and stands
for its torrent, infohash and magnet. `item` is the newest item in the DHT; a put
whose sequence number is not greater is dropped by the nodes, which `Put` of the
code does not notice. With two actors, a scan of staging is one step although
staging may change during it.

### TorrentReceive

A **poller** is the goroutine `pullCycle` of one transport object. `Get`,
`AddMagnet`, `Downloaded`, the copies and `MergeEnd` are `checkForUpdates` in the
order of the code; `GiveUp` is each of its error returns, among them the 30 minutes
of `waitForDownload`; `NewPoller` is the transport that the next tick makes, with
`lastSeq` 0. Another machine publishes (`Publish`), the swarm downloads file by file
(`LoadBegin`, `LoadEnd`, `Loaded`). A content is the number of the snapshot that
brought it, or of the local edit. All torrents write to one directory, since they
have one name and save path, and `GetInfo` is asked with an empty hash, so that
`Downloaded` needs some complete torrent and not the one just added. A copy is two
steps; several writers of one file leave whatever `Outcomes` allows. `newest` is
history.

### DhtCommands

A **command** is one `dht put` or `dht get`: it reads pid and port (`Run`,
`ReadPort`), tests the pid (`CheckProcess`) and asks whoever listens at the port
(`Send`); at every failure it works with a client of its own. `StorePut`, `PutAt`,
`StoreGet`, `GetFrom`, `LookupEnd` are `Client.Put` and `Client.Get`, executed in
the daemon `at[c]` or in the command; a node that is silent is one that no step
reaches before `LookupEnd`. `StartDaemon`, `WritePid`, `WritePort` are
`startDHTDaemon`; `RegisterFails` is a daemon whose database fails and that serves
without being registered; `Die` leaves pid and port behind. `acked` and `floor` are history.
One item is modelled, that of one key and salt. Within one node or daemon the
library's check of the sequence number and its store are one step (`StorePut`,
`PutAt`): two puts that a daemon handles at the same time are assumed not to pass
the check together.

### WebUI

A **UI** is a process of `RunGUI`. `BindSaved`, `PingSaved`, `BindNext`, `PingNext`,
`Save` are `findAndBindPort`, which goes on if the database cannot be opened
(`StartUnread`) and drops the error of saving the port (`SaveFails`); `Serve`,
`ServeUnheard` (the first heartbeat fails), `Heartbeat`, `MissHeartbeat`, `Ping`,
`Exit` are what `RunGUI` starts. `blind` are the UIs without a database, `dbOk` and
`heard` are history: has the setting always been read and written, which UIs have had
a heartbeat. Time passes in ticks of 15 s: `Silence` (15 s) is 1, `Beat`
(30 s) 2, `Window` (90 s) 6. Whatever takes less than a tick happens between two of
them, in any order; `Tick` waits for what is due.

### ConfigStore

A **loop** is a daemon or a run of `sync` (or of the button). `Load` is `LoadConfig`,
`NewEngine` reads the folders again, a run of the engine is the state `run`: what it
does is `SyncEngine`. The edits are the statements of `db/config.go`; clearing the
folders is a listing and a removal per folder, each of which may fail
(`ClearBegin`, `ClearOneFails`) while the handler answers "ok". `heldConfigs`,
`heldFolders`, `late`, `added` and `kept` (the folders a clearing failed to list or
remove) are history.

## 3. The runs

| Run | Question | Result |
|---|---|---|
| `SyncEngineBackup` | two machines, two-way, each with a file of its own that the other downloads; edits, deletions, errors, kills and lost rows: is every listed file tried, does what was confirmed stay, is `BackupStore` implemented? | holds |
| `SyncEngineConverge` | daemon and Sync button back up the same folder, another machine restores: do the sides come to agree, and stay so? | holds |
| `SyncEngineTwoWay` | two machines, two-way, transfers that tear files on both sides: are paths kept apart, do all folders come to hold the same files, and stay so? | holds |
| `SyncEngineNewerLoses` | "newer_wins": does a sync never put an older content over a newer one? | violated |
| `TorrentPublish` | one publisher, a stop at every step: is what is announced whole, downloadable, and in the end and from then on the latest? | holds |
| `TorrentPublishTwo` | two publishers, everything may fail: is each announced torrent seeded? | holds |
| `TorrentReceive` | two pollers, snapshots, edits, a failure or kill: are merges of announced contents, never backwards, and in the end and from then on complete? | holds |
| `TorrentReceiveKeepLocal` | "keep_local": does a merge keep what the user saved? | violated |
| `DhtCommands` | commands and daemons that die, with reused pids and ports: are items found, and do commands end? | holds |
| `WebUI` | two UIs start again and again among foreign ports, with or without the database: one at most, and for as long as it is looked at? | holds |
| `ConfigStore` | edits during rounds: does a round run only what was there, and every usable config, and does clearing miss only what it failed at? | holds |
| `StoresRestore` | over nine transports, with transfers that break off: names kept, restorable files restored whole, and in step from then on? | holds |

**What the violations say.** `NewerLoses`: `push` logs a failed upload and returns
nil, so the `pull` of the same cycle replaces the newer local file by the older
stored one; modification times are never read. `KeepLocal`: a merge copies every
downloaded file that differs over the folder's; `MergeMode` is read nowhere. The
machine that published a snapshot has pollers too, and they merge it over its own
later edits. The findings in `PROJECT.json` quote the texts of the repository that
say otherwise.

**What no property promises.** Some promises one would like to see are left out,
because a short run of the code breaks them. Two machines that sync both ways upload
whatever they hold and can swap an old and a new content for ever. When `Flush`
stops between the DHT put and the saved manifest and the user then undoes the change,
`HasChanges` finds the saved manifest again, and the DHT announces the undone change.
A cycle without changes does not clear staging, so files deleted later are in the
next snapshot. A restore by e-mail brings the first version of a file. In a MySQL
table with two projects a pull gets the newest row of the name, whoever stored it. A
journal row can be missing, and two Web UIs run side by side, when SQLite fails at the
wrong moment. A bidirectional config pushes the part of a file that a broken download
left, and over IPFS in discovery mode the archives it downloaded.

**Bounds.** Two files, because one error must not disturb another file and names
must be told apart (three, with one in a subfolder, in `StoresRestore`); two
machines, because a restore needs a writer and a reader, and a third actor where
two of them run one config. Two or three edits let an old version meet a newer one in
flight; one or two failures let a failure follow a failure's recovery. `MaxClock`
allows for a second of each flush that edits and failures can cause. All are
bounds in guards (`MaxEdits`, `MaxFailures`, `MaxClock`), none is in the code. In
`Stores` the finite `Path` also bounds the names HTTP uploads can get. Two pollers
overlap in every way that more would, since what one does is seen by another only
through the directory and the folder. Two daemons and two commands let a command
meet the daemon that came after the one it read about, and another command's put.
Two UIs are one that holds a port and one that looks for it, or two that race,
and a third start replaces one that ended; two ports are the saved one
and another. Two names, folders and paths let a round hold one row while the other
is replaced. `MaxMissed` is as many heartbeats as the window forgives. The passing runs reach
between about 10^5 and 2 * 10^6 states. All of them check for deadlock but
`DhtCommands`, whose commands end; in that run symmetry of pids, ports and commands
is used by letting the first ones be used first (`FirstIsAny`).

**Fairness.** Weak fairness of an actor's own steps: no step of the loop waits for
another actor, and transport calls return. Weak fairness of the start of a
daemon's next run: the ticker fires for ever, and a killed daemon is started
again. In `TorrentPublish` time passes; in `Stores` a server stores or drops every
request in the end. In `TorrentReceive` torrents that somebody seeds arrive, and each
tick makes a new transport. In `DhtCommands` only the commands' own steps are fair:
nothing makes a node answer. In `WebUI` open visible tabs ping,
and time passes (strong fairness of `Tick`: opening and closing tabs for ever, which
disables it while something is due, does not stop the clock). In
`ConfigStore` ticks come and each run of an engine ends. Users and failures owe nothing, and being bounded they stop,
which is what "in the end" refers to. Single `sync` runs and the button need not
happen.

**Conditions.** Some properties hold only under conditions that the code does not
enforce; the runs show the condition, and dropping it makes TLC find a
counterexample.
- `AckedPushIsStored`, `KeepsBackupPromise`: each file has one actor and one config
  that upload it, and nobody pulls it into that config's folder (`OneWriterEach`, by
  the filters or the directions). With a second writer an upload that read the file
  earlier may complete later. With streamed uploads the store is truncated now and then.
- `RemoteIntact`: atomic uploads and no file both pulled into a folder and pushed from
  it (`OneWayFiles`). A download that breaks off truncates a local file, and a push
  uploads it.
- `Convergence`: with streamed uploads it fails, because a pull can hit the upload
  again and again.
- `LatestContentAnnounced`: cycles of an actor a second apart (two builds in one
  second have one sequence number, and nodes drop the second), puts that arrive,
  no undone changes, no copy that fails halfway once.
- `AnnouncedFilesAreWhole`: one actor, and no staged file that vanishes or fails to
  copy when it is staged again.
- `AnnouncedIsDownloadable`: one actor that has not failed: the only seed directory
  is emptied before it is filled, so a stop leaves the announced torrent without data.
- `AnnouncedNeverOlder` (a theorem): one actor, and users who do not put older contents
  back; of two publishers one can announce what it staged before the other's newer
  snapshot. It is what `Publish` of `TorrentReceive` takes for granted of the
  contents, so that `NoReturnToOlder` continues it on the machines that receive.
- `RestoreNeverGoesBack` (a theorem): one actor on each side of a file; the older of
  two downloads into one folder can be the last to be written.
- `ContentsKeepNames`: the transports that are asked for a name and give back that file
  (`NameKeeping`: neither MFS, HTTP, WebDAV nor IPFS); over MySQL a content of the same
  name from another project in the table counts.
- `Restored`: one-way configs (`OneWay`), because a bidirectional one uploads the part
  of a file that a broken download left, and files that the transport can restore
  (`Restorable`: not those in subfolders over FTP, not those that share a base name over
  MySQL, none over e-mail, HTTP, WebDAV and IPFS).
- `RestoredStays`, `NoOtherVersionReturns` (theorems): one project per MySQL table
  (`OwnTable`).
- `NoReturnToOlder`, `LatestMerged`: `Calm`, that is, a snapshot is published only
  when the last one is downloaded, and a tick comes only when no poller is merging.
  Otherwise two torrents write to one directory at once and a merge can copy back
  what a newer one has replaced. Files that a snapshot no longer has stay in the
  shared directory and are merged with it.
- `InfoOfNewest`: `OneAtATime`, and a newest daemon whose two writes succeeded. Two
  daemons that register at once can leave the pid of one and the port of the other.
- `AtMostOneUI`, `LeavesForBrother`: `Calm`, that is, no port is let go while a UI
  searches. Otherwise one UI can pass a port that becomes free, bind a later one and
  meet another UI on the earlier port. `AtMostOneUI` also needs `dbOk`: a UI that cannot
  read the saved port, or did not save its own, finds a port that no other one asks.
- `RunningIsListed`: from the first heartbeat on, which the code leaves out when the
  database fails.
- `ClearsWhatWasListed`: but for the folders that the handler failed to list or remove.
- `OpenTabKeepsUI`: the tab is visible (`Throttle` FALSE), since browsers hold back
  the timers of hidden tabs, and has pinged once: a page that is loaded when the UI
  has been silent for more than 10 s may ping too late.

## 4. The proofs

TLC's runs are small instances; these theorems hold for all values of the
constants that satisfy the named assumptions of the modules (`TopologyAssumption`,
`BoundAssumption`, `PublishAssumption`, `ManifestAssumption`, `StoresAssumption`,
`ReceiveAssumption`, `DhtAssumption`, `WebAssumption`, `StoreAssumption`)
and the assumptions in the table.

| Theorem | Says | Assumes | Inductive invariant |
|---|---|---|---|
| `SyncEngineProofs!TypeCorrect` | `TypeOK` | | `TypeOK /\ PhaseInv` |
| `SyncEngineProofs!ContentIsGenuine` | `Provenance` | | with `TypeOK /\ PhaseInv` |
| `SyncEngineProofs!NoFileIsSkipped` | `EveryListedFileTried` | | with `TypeOK /\ PhaseInv` |
| `SyncEngineProofs!LoopsAlwaysRunToTheEnd` | `LoopsRunToTheEnd` | | the same |
| `SyncEngineProofs!FiltersAreKept` | nothing a filter rejects is listed, moved or journaled | | `FilterInv` with `TypeOK /\ PhaseInv` |
| `SyncEngineProofs!StoreStaysIntact` | `RemoteIntact` | `OneWayFiles`, `StreamPush = FALSE` | `TornInv`, `FilterInv` |
| `SyncEngineProofs!AckedStays` | `AckedPushIsStored` | `OneWriterEach`, `StreamPush = FALSE` | `OwnerInv` of each file, `FilterInv` |
| `SyncEngineProofs!BackupPromiseKept` | implements `BackupStore` | the same | the same, `Provenance` |
| `SyncEngineProofs!NothingDeletedRemotely` | a stored file is never gone again | | `PresentInv` |
| `SyncEngineProofs!AgreementStays` | `Settled` stays, until an edit or failure | `OneWayFiles`, `StreamPush = FALSE` | `FilterInv` |
| `SyncEngineProofs!SameFilesStay` | `SameFiles` stays, until an edit | | `PresentInv` |
| `SyncEngineProofs!RestoreNeverGoesBack` | a restored file never gets older | `Owner`, `Reader` of the file, `StreamPush = FALSE` | `CopyInv`, `NotOlder`, `OwnerInv` |
| `SyncEngineProofs!RunsMoveOn` | each step of an actor shortens its run, no one else lengthens it | | `EveryListedFileTried`, `PhaseInv` |
| `TorrentPublishProofs!TypeCorrect` | `TypeOK` | | `TypeOK` |
| `TorrentPublishProofs!AnnouncedAlwaysSeeded` | `AnnouncedIsSeeded` | | `SeededInv` |
| `TorrentPublishProofs!AnnouncedAlwaysWhole` | `AnnouncedFilesAreWhole` | `SteadyFolder` | `WholeInv` |
| `TorrentPublishProofs!SkipsOnlyPublished` | `OnlyPublishedIsSkipped` | `SteadyFolder` | `WholeInv /\ SkipInv` |
| `TorrentPublishProofs!AnnouncedAlwaysDownloadable` | `AnnouncedIsDownloadable` | `SlowTicks`, one actor | `DownloadInv` |
| `TorrentPublishProofs!UpToDateStays` | `UpToDate` stays, until an edit | one actor, no copy errors | `TypeOK` |
| `TorrentPublishProofs!AnnouncedNeverOlder` | a snapshot is nowhere older than a published one | one actor, no `Reverts` | `AgeInv` |
| `StoresProofs!TypeCorrect` | `TypeOK` | | `TypeOK` |
| `StoresProofs!NamesAreKept` | `ContentsKeepNames` | | `NamesInv` |
| `StoresProofs!RestoredStays` | `InStep(Restorable)` stays, until an edit or failure | `OwnTable` | `CycleInv` |
| `StoresProofs!NoOtherVersionReturns` | `Agreed(Restorable)` stays, until an edit | `OwnTable` | `TypeOK` |
| `TorrentReceiveProofs!TypeCorrect` | `TypeOK` | | `TypeOK` |
| `TorrentReceiveProofs!OnlyAnnounced` | `Provenance` | | `SourceInv` |
| `TorrentReceiveProofs!NothingSkipped` | `SkippedWasAdded` | | the same, with the phases of pollers |
| `TorrentReceiveProofs!NeverOlder` | `NoReturnToOlder` | `Calm` | `OrderInv` |
| `TorrentReceiveProofs!MergedStays` | `Merged` stays, until an edit or a snapshot | `Calm` | `OrderInv` |
| `DhtCommandsProofs!TypeCorrect` | `TypeOK` | | `TypeOK` |
| `DhtCommandsProofs!PublishedStays` | `PublishedIsHeld` | | `StoreInv` |
| `DhtCommandsProofs!NewestIsFound` | `InfoOfNewest` | in the property | `RegInv` |
| `DhtCommandsProofs!DaemonAnswersItsWrites` | `ReadsOwnWrites` | | `StoreInv` |
| `DhtCommandsProofs!CommandsMoveOn` | a command never goes back, each step of its own takes it further | | `TypeOK` |
| `WebUIProofs!TypeCorrect` | `TypeOK` | | `TypeOK /\ PortInv` |
| `WebUIProofs!OneUI` | `AtMostOneUI` | in the property | `ElectionInv` |
| `WebUIProofs!GivesUpRightly` | `LeavesForBrother` | in the property | `ElectionInv` |
| `WebUIProofs!TabKeepsUI` | `OpenTabKeepsUI` | in the property | `PingInv` |
| `WebUIProofs!Listed` | `RunningIsListed` | | `BeatInv` |
| `WebUIProofs!UIsMoveOn` | a search comes further with each step, silence only grows | | `TypeOK /\ PortInv` |
| `ConfigStoreProofs!TypeCorrect` | `TypeOK` | | `TypeOK` |
| `ConfigStoreProofs!NothingStaleRuns` | `RunIsFresh` | | `RoundInv` |
| `ConfigStoreProofs!RemovedRunsOnce` | `AtMostOnceMore` | | `RoundInv` |
| `ConfigStoreProofs!ClearLeavesNothing` | `ClearsWhatWasListed` | | `RoundInv` |
| `ConfigStoreProofs!NothingPassedOver` | a round drops no config that it can run, and moves on | | `TypeOK` |

*Why the strengthenings.* `PhaseInv`: the directions of configs restrict what an actor
can be doing, and a file is held exactly during a transfer; without it `file[a]` need
not be a path when a transfer ends. `TornInv`: a truncated file lies only where
downloads go, so no upload carries one. `FilterInv` keeps the two apart when one
config goes both ways: what a loop has yet to move passed the filter of its direction.
`OwnerInv`: the versions of a file are ordered `acked <= remote <= buffer <= folder of
its owner <= edits`, and the content of an upload under way must be in that chain,
since it becomes the stored one. `PresentInv`: uploads carry contents, and what a pull
listed is still stored when it gets there. `CopyInv`, `NotOlder`: the owner's chain
goes on to the folder that is restored, through the content of the download under way;
a `Torn` file is no version, so the promise speaks of the next whole one. `SeededInv`:
a torrent is with the client from before its put. `WholeInv`: a truncated file in
staging is one the cycle has yet to stage, or is staging; hence none is left when
`Flush` looks. `SkipInv`: a half-written manifest misses a file that the folder has
and the cycle stages, so that it differs from what `Flush` compares it with.
`DownloadInv`: sequence numbers grow from cycle to cycle, so that the put of the
seeded snapshot is kept by the DHT. `AgeInv`: what was published is nowhere newer than
the staged copy, and that one nowhere newer than the folder; staging may keep the copy
of a file that was deleted, but never goes back behind it. `NamesInv`: the
property must also hold of all rows that a pull can read (first and last) and of
uploads that may be stored late. `CycleInv`: a cycle is in the phases its direction
allows, and what it has yet to push is there. The refinement proof maps each step to `Save`,
`Upload` or a stutter. `SourceInv` carries `Provenance` through the download directory
and the copies under way; `OrderInv` says why calm helps: only the newest torrent
still writes, and what is in the directory is never older than what was merged.
`RegInv`: only the newest daemon can still be writing its pid and port. `StoreInv`:
stores never lose what was confirmed, and a get whose daemon has something to answer
with never gets to the traversal. `ElectionInv`: while nobody holds a port all who
search agree on what lies behind them, namely foreign ports, so that the first free
port is the same for all (`VacantInv`); once one holds it, the others can only pass
foreign ports or run into that one (`HolderInv`). Both need the saved port; that
nobody gives up beside a free port (`SearchInv`) does not. `BeatInv` bounds the age of the heartbeat by what is due and what
was missed. `RoundInv`: what a round has yet to run was registered during it, and a
name is yet to come at most once.

*Liveness.* That something happens at all stays with TLC, since fairness and `ENABLED`
are beyond the prover; that it lasts is an action property, and proved.
`Convergence`, `SameFilesEverywhere`, `LatestContentAnnounced`, `LatestMerged` and
`Restored` have the form `<>[]P`. TLC shows that `P` comes about in its instances;
`AgreementStays`, `SameFilesStay`, `UpToDateStays`, `MergedStays` and `RestoredStays`
say, for all instances, that once `P` holds no later cycle ends it, whatever the order
of its steps: only what they name can (an edit, a new snapshot, for `Settled` and `InStep` a
failure; `NoOtherVersionReturns` adds that a failure leaves parts of files, never
another version). `P` has to speak of transfers under way for this: an upload that has read
an older content undoes an agreement when it completes. `CommandsMoveOn` does the
same for `CommandsEnd`: a command that is given its turn cannot go round in circles.
Nor can a run of the engine (`RunsMoveOn`), a round of a loop, which besides drops
no config that it can run (`NothingPassedOver`, for `RunsAgain`), or a UI
(`UIsMoveOn`, for `ClosedTabEnds`): each of their steps goes down in an order that is
well-founded when the sets of paths and configs are finite. That these orders
have no infinite descent is plain but not proved, since it needs induction. Every safety property of the
passing runs is proved.
No module uses `RECURSIVE` operators.

## 5. What was planned, and what is next

Done, the most important behaviour first: `SyncEngine` with `BackupStore`,
`TorrentPublish`, `Stores`, `TorrentReceive`, `DhtCommands` (the runtime information
and the items of the DHT in one module, because commands need both), `WebUI`,
`ConfigStore`, each with proofs.

Next would be `TorrentPublish` and `TorrentReceive` composed over one DHT key,
against an abstract "latest snapshot" register, with the publisher's own pollers.

## 6. Not modelled

Formats (listings, MIME, bencode, .torrent files), signatures, authentication, size
limits, Tor and SOCKS, printing. SSH downloads (`scp -f` is run without the
acknowledgements it waits for). What a JavaScript filter computes: a filter is the
set of paths it lets through, and may fail. The length of a cycle: a tick that is
late is a tick. The Deluge and Transmission clients, which no config can select.
`SyncSettings.Conflict`, `SyncSettings.Period`, `MergeMode` and `keep_seeds` are read
from configs and used by no code, so there is nothing to model.

*Receiving.* The publisher's own pollers; foreign torrents in the client, although
`GetInfo` may report one of them; the number of pollers, which grows with every tick.
*DHT.* `dht watch`; a server of another program at a stale port that never answers
(`http.Get` has no timeout) or answers 200 to `/dht/`; an item that expires and is
never put again because nothing changes. A put that a daemon refuses is tried
directly, and succeeds although no node takes it (`dht/client.go:138`, "best
effort"): `PublishedIsHeld` speaks of the nodes that answered only. Two puts at once
in one daemon that both pass the library's check of the sequence number.
*Transports.* Several projects in one MySQL table are in the theorems, not in the
run; the length of what a broken transfer leaves. *Web UI.*
A kill during the search (it is a port let go,
which `Calm` excludes); the status websocket. A UI that finds every port foreign says
"already running" as well, which `LeavesForBrother` allows. The race on `lastPing`,
written by a handler and read by the loop, is one word. *Configuration.* `SaveConfig`
clears and fills both tables without a transaction; only tests call it. `GetStatus`
and the status page read, and may show a folder without a path. An upload of a
config gets a random name (`cmd/webgui.go:295`), so that a second upload adds a
config; `Name` in `ConfigStore` covers this as one more name. The menu of the
terminal drops the error of `NewSyncEngine` and then panics (`cmd/tui.go:110`).
