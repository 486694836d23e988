--------------------------- MODULE TorrentReceive ---------------------------
(* The receiving side of the torrent transport (transport/torrent.go from  *)
(* pullCycle on, with the qBittorrent client of torrent_qb.go).            *)
(*                                                                         *)
(* Every engine makes a transport with a poller of its own, which starts   *)
(* with lastSeq = 0 and is never stopped.  A poller takes the item from    *)
(* the DHT, gives its magnet to the torrent client, waits for the download *)
(* and copies what was downloaded over the folder.  The torrents of all    *)
(* snapshots have the same name and save path: they share one directory.   *)
(* AddMagnet returns no hash, so that GetInfo answers for any torrent.     *)
EXTENDS Integers, FiniteSets

CONSTANTS
  Path,
  Poller,       \* pollers that are at work at the same time
  Calm,         \* do snapshots and ticks come only when what the last one set
                \* going, downloads and merges, is over?
  MaxSeq,       \* bound on the snapshots published
  MaxEdits,     \* bound on local edits
  MaxFailures,  \* bound on failed operations and kills
  NoPath

ASSUME ReceiveAssumption ==
  /\ {MaxSeq, MaxEdits, MaxFailures} \subseteq Nat
  /\ Calm \in BOOLEAN
  /\ NoPath \notin Path

Torn     == -1       \* a file of which only a part was written
NoFile   == 0
Seqs     == 1 .. MaxSeq
Mine     == MaxSeq + 1 .. MaxSeq + MaxEdits   \* what the local user saves
Content  == {Torn, NoFile} \cup Seqs \cup Mine
Snapshot == [Path -> {NoFile} \cup Seqs]      \* a content is the seq that brought it
Nothing  == [f \in Path |-> NoFile]

VARIABLES
  latest,     \* sequence number of the item in the DHT, 0 if there is none
  snap,       \* the snapshot announced under each sequence number
  status,     \* the torrent of each snapshot in the torrent client
  downloads,  \* LocalDir/.torrent-downloads/<project>
  folder,     \* LocalDir
  newest,     \* the newest content merged into each file so far (history)
  lastSeq,
  pc,         \* where each poller stands in checkForUpdates
  got,        \* seq and magnet it took from the DHT
  todo,       \* files the walk of the download directory has not reached
  file, buf,  \* the copy under way
  mixed,      \* pollers into whose copy another one wrote other bytes
  edits, failures

netVars  == <<latest, snap>>
diskVars == <<downloads, folder, newest>>
pollVars == <<lastSeq, pc, got, todo, file, buf, mixed>>
vars == <<latest, snap, status, downloads, folder, newest, lastSeq, pc, got,
          todo, file, buf, mixed, edits, failures>>

Init ==
  /\ latest = 0
  /\ snap = [n \in Seqs |-> Nothing]
  /\ status = [n \in Seqs |-> "absent"]
  /\ downloads = Nothing /\ folder = Nothing /\ newest = Nothing
  /\ lastSeq = [p \in Poller |-> 0]
  /\ pc = [p \in Poller |-> "idle"]
  /\ got = [p \in Poller |-> 0]
  /\ todo = [p \in Poller |-> {}]
  /\ file = [p \in Poller |-> NoPath]
  /\ buf = [p \in Poller |-> NoFile]
  /\ mixed = {}
  /\ edits = 0 /\ failures = 0

Files(dir) == {f \in Path : dir[f] # NoFile}

Goto(p, label) == pc' = [pc EXCEPT ![p] = label]

Fail == failures < MaxFailures /\ failures' = failures + 1

-----------------------------------------------------------------------------
(* The publisher, the swarm and the user.                                  *)

LastSnapshot == IF latest = 0 THEN Nothing ELSE snap[latest]

\* Another machine announces a snapshot with new, old and removed files.
Publish(s) ==
  /\ latest < MaxSeq
  /\ Calm /\ latest # 0 => status[latest] = "done"
  /\ s \notin {LastSnapshot, Nothing}
  /\ \A f \in Path : s[f] \in {NoFile, latest + 1, LastSnapshot[f]}
  /\ latest' = latest + 1
  /\ snap' = [snap EXCEPT ![latest + 1] = s]
  /\ UNCHANGED <<status, diskVars, pollVars, edits, failures>>

\* The torrent client writes over whatever is under the name of the file.
LoadBegin(n, f) ==
  /\ status[n] = "loading" /\ snap[n][f] # NoFile
  /\ downloads[f] \notin {Torn, snap[n][f]}
  /\ downloads' = [downloads EXCEPT ![f] = Torn]
  /\ UNCHANGED <<netVars, status, folder, newest, pollVars, edits, failures>>

LoadEnd(n, f) ==
  /\ status[n] = "loading" /\ snap[n][f] # NoFile
  /\ downloads[f] = Torn
  /\ downloads' = [downloads EXCEPT ![f] = snap[n][f]]
  /\ UNCHANGED <<netVars, status, folder, newest, pollVars, edits, failures>>

Loaded(n) ==
  /\ status[n] = "loading"
  /\ \A f \in Files(snap[n]) : downloads[f] = snap[n][f]
  /\ status' = [status EXCEPT ![n] = "done"]
  /\ UNCHANGED <<netVars, diskVars, pollVars, edits, failures>>

Edit(f) ==
  /\ edits < MaxEdits
  /\ edits' = edits + 1
  /\ folder' = [folder EXCEPT ![f] = MaxSeq + edits + 1]
  /\ UNCHANGED <<netVars, status, downloads, newest, pollVars, failures>>

-----------------------------------------------------------------------------
(* checkForUpdates                                                         *)

\* Mutant: the transport, and with it lastSeq, is kept from tick to tick.
KeepPoller(p) ==
  /\ pc[p] = "idle" /\ lastSeq[p] # 0
  /\ UNCHANGED vars

\* The next tick makes a new transport.  The old poller, which would go on
\* looking for newer items as the new one does, is not followed any further.
NewPoller(p) ==
  /\ pc[p] = "idle" /\ lastSeq[p] # 0
  /\ Calm => \A q \in Poller : pc[q] = "idle"
  /\ lastSeq' = [lastSeq EXCEPT ![p] = 0]
  /\ UNCHANGED <<netVars, status, diskVars, pc, got, todo, file, buf, mixed,
                 edits, failures>>

\* Mutant: lastSeq is set when the item is found, not when it was merged.
GetAndRemember(p) ==
  /\ pc[p] = "idle" /\ latest > lastSeq[p]
  /\ got' = [got EXCEPT ![p] = latest]
  /\ lastSeq' = [lastSeq EXCEPT ![p] = latest]
  /\ Goto(p, "add")
  /\ UNCHANGED <<netVars, status, diskVars, todo, file, buf, mixed, edits, failures>>

\* An item is taken if its sequence number is new to this poller.
Get(p) ==
  /\ pc[p] = "idle" /\ latest > lastSeq[p]
  /\ got' = [got EXCEPT ![p] = latest]
  /\ Goto(p, "add")
  /\ UNCHANGED <<netVars, status, diskVars, lastSeq, todo, file, buf, mixed,
                 edits, failures>>

\* A magnet that the client has already is accepted and changes nothing.
AddMagnet(p) ==
  /\ pc[p] = "add"
  /\ Goto(p, "wait")
  /\ status' = [status EXCEPT ![got[p]] = IF @ = "absent" THEN "loading" ELSE @]
  /\ UNCHANGED <<netVars, diskVars, lastSeq, got, todo, file, buf, mixed,
                 edits, failures>>

\* waitForDownload: GetInfo("") reports some torrent, and that one is complete.
\* mergeDownloadedFiles then walks the directory that all the torrents share.
Downloaded(p) ==
  /\ pc[p] = "wait"
  /\ \E n \in Seqs : status[n] = "done"
  /\ Goto(p, "copy")
  /\ todo' = [todo EXCEPT ![p] = Files(downloads)]
  /\ UNCHANGED <<netVars, status, diskVars, lastSeq, got, file, buf, mixed,
                 edits, failures>>

\* The next file of the walk, which goes through them in a fixed order.
At(p, f) == pc[p] = "copy" /\ todo[p] # {} /\ f = CHOOSE g \in todo[p] : TRUE

\* filesEqual: the folder has that content already.
SameFile(p, f) ==
  /\ At(p, f)
  /\ downloads[f] = folder[f]
  /\ todo' = [todo EXCEPT ![p] = @ \ {f}]
  /\ UNCHANGED <<netVars, status, diskVars, lastSeq, pc, got, file, buf, mixed,
                 edits, failures>>

\* copyFile truncates the file in the folder, whatever is in it.
CopyBegin(p, f) ==
  /\ At(p, f)
  /\ downloads[f] # folder[f]
  /\ Goto(p, "copying")
  /\ todo' = [todo EXCEPT ![p] = @ \ {f}]
  /\ file' = [file EXCEPT ![p] = f]
  /\ buf' = [buf EXCEPT ![p] = downloads[f]]
  /\ folder' = [folder EXCEPT ![f] = Torn]
  /\ UNCHANGED <<netVars, status, downloads, newest, lastSeq, got, mixed,
                 edits, failures>>

\* The bytes of a copy that began with c: a mixture if its source was written
\* meanwhile.
Copied(c, f) == IF downloads[f] = c THEN c ELSE Torn

Alongside(p) == {q \in Poller \ {p} : pc[q] = "copying" /\ file[q] = file[p]}

\* A file that other pollers still write stays in pieces until the last one
\* ends.  One that the user saved meanwhile has either content, or a mixture.
Outcomes(p, c) ==
  IF folder[file[p]] # Torn THEN {folder[file[p]], c, Torn}
  ELSE IF Alongside(p) # {} THEN {Torn}
  ELSE IF p \in mixed THEN {c, Torn}
  ELSE {c}

EndCopy(p, c) ==
  /\ pc[p] = "copying"
  /\ Goto(p, "copy")
  /\ \E r \in Outcomes(p, c) :
       /\ folder' = [folder EXCEPT ![file[p]] = r]
       /\ newest' = [newest EXCEPT ![file[p]] = IF r \in Seqs /\ r > @ THEN r ELSE @]
  /\ mixed' = (mixed \ {p}) \cup {q \in Alongside(p) : buf[q] # c}
  /\ file' = [file EXCEPT ![p] = NoPath]
  /\ buf' = [buf EXCEPT ![p] = NoFile]
  /\ UNCHANGED <<netVars, status, downloads, lastSeq, got, todo, edits, failures>>

\* Mutant: the file is read into memory when the copy begins.
CopyEndBuffered(p) == EndCopy(p, buf[p])

\* Mutant: the content goes into the file the walk looks at next.
CopyEndElsewhere(p) ==
  /\ pc[p] = "copying"
  /\ Goto(p, "copy")
  /\ \E f \in Path : folder' = [folder EXCEPT ![f] = buf[p]]
  /\ buf' = [buf EXCEPT ![p] = NoFile]
  /\ file' = [file EXCEPT ![p] = NoPath]
  /\ UNCHANGED <<netVars, status, downloads, newest, lastSeq, got, todo, mixed,
                 edits, failures>>

CopyEnd(p) == EndCopy(p, Copied(buf[p], file[p]))

MergeEnd(p) ==
  /\ pc[p] = "copy" /\ todo[p] = {}
  /\ Goto(p, "idle")
  /\ lastSeq' = [lastSeq EXCEPT ![p] = got[p]]
  /\ got' = [got EXCEPT ![p] = 0]
  /\ UNCHANGED <<netVars, status, diskVars, todo, file, buf, mixed, edits, failures>>

\* Mutant: the copy that failed is not forgotten.
GiveUpCopying(p) ==
  /\ pc[p] # "idle"
  /\ Fail
  /\ Goto(p, "idle")
  /\ got' = [got EXCEPT ![p] = 0]
  /\ todo' = [todo EXCEPT ![p] = {}]
  /\ UNCHANGED <<netVars, status, diskVars, lastSeq, file, buf, mixed, edits>>

\* The client answers with an error, the 30 minutes are over, or a file cannot
\* be copied: checkForUpdates returns, and lastSeq is what it was.
GiveUp(p) ==
  /\ pc[p] # "idle"
  /\ Fail
  /\ Goto(p, "idle")
  /\ got' = [got EXCEPT ![p] = 0]
  /\ todo' = [todo EXCEPT ![p] = {}]
  /\ file' = [file EXCEPT ![p] = NoPath]
  /\ buf' = [buf EXCEPT ![p] = NoFile]
  /\ mixed' = mixed \ {p}
  /\ UNCHANGED <<netVars, status, diskVars, lastSeq, edits>>

\* The process is killed, with all its pollers.
Kill ==
  /\ Fail
  /\ lastSeq' = [p \in Poller |-> 0]
  /\ pc' = [p \in Poller |-> "idle"]
  /\ got' = [p \in Poller |-> 0]
  /\ todo' = [p \in Poller |-> {}]
  /\ file' = [p \in Poller |-> NoPath]
  /\ buf' = [p \in Poller |-> NoFile]
  /\ mixed' = {}
  /\ UNCHANGED <<netVars, status, diskVars, edits>>

-----------------------------------------------------------------------------
Swarm ==
  \E n \in Seqs : Loaded(n) \/ \E f \in Path : LoadBegin(n, f) \/ LoadEnd(n, f)

Advance(p) ==
  \/ Get(p) \/ AddMagnet(p) \/ Downloaded(p)
  \/ \E f \in Path : SameFile(p, f) \/ CopyBegin(p, f)
  \/ CopyEnd(p) \/ MergeEnd(p)

Next ==
  \/ \E s \in Snapshot : Publish(s)
  \/ Swarm
  \/ \E f \in Path : Edit(f)
  \/ \E p \in Poller : NewPoller(p) \/ Advance(p) \/ GiveUp(p)
  \/ Kill

(* Pollers go on, the daemon makes new transports for ever, and torrents   *)
(* that somebody seeds arrive.                                             *)
Fairness ==
  /\ WF_vars(Swarm)
  /\ \A p \in Poller : WF_vars(Advance(p)) /\ WF_vars(NewPoller(p))

Spec == Init /\ [][Next]_vars

FairSpec == Spec /\ Fairness

-----------------------------------------------------------------------------
TypeOK ==
  /\ latest \in 0 .. MaxSeq
  /\ snap \in [Seqs -> Snapshot]
  /\ status \in [Seqs -> {"absent", "loading", "done"}]
  /\ downloads \in [Path -> Content] /\ folder \in [Path -> Content]
  /\ newest \in Snapshot
  /\ lastSeq \in [Poller -> 0 .. MaxSeq] /\ got \in [Poller -> 0 .. MaxSeq]
  /\ pc \in [Poller -> {"idle", "add", "wait", "copy", "copying"}]
  /\ todo \in [Poller -> SUBSET Path]
  /\ file \in [Poller -> Path \cup {NoPath}]
  /\ buf \in [Poller -> Content] /\ mixed \subseteq Poller
  /\ edits \in 0 .. MaxEdits /\ failures \in 0 .. MaxFailures
  /\ \A p \in Poller : /\ pc[p] # "idle" => got[p] \in 1 .. latest
                       /\ pc[p] = "copying" <=> file[p] # NoPath

\* What a snapshot had under another name never gets under this one: a whole
\* file of the folder that the user did not save is one that was announced
\* under its name.
Provenance ==
  \A f \in Path : folder[f] \in Seqs => \E n \in 1 .. latest : snap[n][f] = folder[f]

\* A poller passes over an item (seq <= lastSeq, torrent.go:244) only if the
\* torrent client was given that one, or a newer one: whatever fails or times
\* out between the DHT and lastSeq, the item is taken up again.
SkippedWasAdded == \A p \in Poller : lastSeq[p] # 0 => status[lastSeq[p]] # "absent"

\* A file that was merged once does not return to an older snapshot, although
\* pollers overlap, hold older items and start again from lastSeq = 0.  It
\* needs Calm: the torrents write to one directory.
NoReturnToOlder == \A f \in Path : folder[f] \in Seqs => folder[f] = newest[f]

\* Every file of the newest snapshot is downloaded and in the folder, and nothing
\* is writing it.
Merged ==
  /\ latest # 0 => status[latest] = "done"
  /\ \A f \in Files(LastSnapshot) :
       /\ folder[f] = LastSnapshot[f] /\ downloads[f] = LastSnapshot[f]
       /\ \A p \in Poller : file[p] # f

\* When failures and edits have stopped, every file of the newest snapshot gets
\* to the folder and stays there, although a poller may take the directory for
\* complete too early and never look at that item again: the poller of a later
\* tick does.  It needs Calm.
LatestMerged == <>[]Merged

\* "keep_local" (torrent.go:21, the default of torrent.go:65): what the user
\* saved in the folder is not replaced by a merge.
KeepsLocal ==
  [][\A f \in Path : folder[f] \in Mine => folder'[f] \in Mine]_vars

-----------------------------------------------------------------------------
(* Inductive strengthenings.                                               *)

Announced(f, c) == \E n \in 1 .. latest : snap[n][f] = c

\* Downloads and copies under way carry what was announced under their name.
SourceInv ==
  /\ \A n \in Seqs : status[n] # "absent" => n <= latest
  /\ \A f \in Path : downloads[f] \in Seqs => Announced(f, downloads[f])
  /\ \A p \in Poller : buf[p] \in Seqs => Announced(file[p], buf[p])
  /\ Provenance

\* Only the newest torrent is still loading, and it has for every file of its
\* the newest content there is.
OrderInv ==
  /\ \A n \in Seqs : n < latest => status[n] = "done"
  /\ \A n \in 1 .. latest, f \in Path : snap[n][f] <= n
  /\ \A n \in 1 .. latest, m \in 1 .. latest, f \in Path :
       m <= n /\ snap[n][f] # NoFile => snap[m][f] <= snap[n][f]
  /\ \A f \in Path : newest[f] # NoFile => Announced(f, newest[f])
  /\ \A f \in Path : downloads[f] \in Seqs => newest[f] <= downloads[f]
  /\ NoReturnToOlder
=============================================================================
