------------------------------- MODULE Stores -------------------------------
(***************************************************************************)
(* What the transports make of Push, List and Pull.  SyncEngine takes the  *)
(* remote side to keep one content per path; this module says which of the *)
(* transports do, under which names, and what the other ones do instead.   *)
(*                                                                         *)
(* Machines run push and pull cycles over one transport, whose kind is     *)
(* chosen at the start, as are the directions of the machines.  A transfer *)
(* is one step here, since SyncEngine interleaves the halves of transfers; *)
(* one that fails may leave a part of the file behind, in the folder or,   *)
(* where uploads write in place, in the store.  Of the rows of an          *)
(* append-only store only the first and the last of each name matter,      *)
(* since no transport ever reads another one.                              *)
(***************************************************************************)
EXTENDS Integers, FiniteSets

CONSTANTS
  Path,
  BaseName,     \* [Path -> Path]: the last component of the path
  Group,        \* projects: roots, prefixes, mailboxes, or groups of a table
  Machine,
  GroupOf,      \* [Machine -> Group]
  Topologies,   \* the directions to be considered, of all machines
  Edited,       \* the machines whose user saves files
  Kinds,        \* the transports to be considered
  MaxEdits,     \* bound on the edits of users
  MaxFailures   \* bound on failed transfers and listings

Flat == {p \in Path : BaseName[p] = p}      \* the files not in a subfolder

ASSUME StoresAssumption ==
  /\ BaseName \in [Path -> Path]
  /\ \A p \in Path : BaseName[p] \in Flat
  /\ GroupOf \in [Machine -> Group]
  /\ Topologies \subseteq [Machine -> {"push", "pull", "bidirectional"}]
  /\ Edited \subseteq Machine
  /\ Kinds \subseteq {"mock", "s3", "ftp", "webdav", "mfs",
                      "mysql", "http", "email", "hybrid"}
  /\ MaxEdits \in Nat /\ MaxFailures \in Nat

Broken  == -1     \* a content nobody saved: cut off, or put together of two
NoFile  == 0
Version == 1 .. MaxEdits
Archive == MaxEdits + 1 .. 2 * MaxEdits
Content == {Broken, NoFile} \cup Version \cup Archive

\* The tar archive of c; one of an archive counts as the same archive.
Wrap(c) == IF c \in Version THEN c + MaxEdits ELSE c

VARIABLES
  kind,      \* the transport in use
  direction, \* [Machine -> direction of its config]
  folder,    \* [Machine -> [Path -> Content]]
  first,     \* [Group -> [Path -> Content]]: the first row of each name
  last,      \* [Group -> [Path -> Content]]: the last one
  newest,    \* [Path -> Group]: the group of the last row of all
  announced, \* [Group -> Content]: what the last announced CID stands for
  late,      \* rows that the server has accepted but not stored yet
  saved,     \* <<group, path, version>> of all files users saved (history)
  edits, failures,
  pc,        \* where each machine stands in its cycle
  todo,      \* the files the loop of the cycle has not reached
  pushed     \* the files pushed in this cycle: localFiles of the transport

storeVars == <<first, last, newest, announced>>
userVars  == <<saved, edits>>
modeVars  == <<kind, direction>>
vars == <<kind, direction, folder, first, last, newest, announced, late,
          saved, edits, failures, pc, todo, pushed>>

Nothing == [p \in Path |-> NoFile]

Init ==
  /\ kind \in Kinds
  /\ direction \in Topologies
  /\ folder = [m \in Machine |-> Nothing]
  /\ first = [g \in Group |-> Nothing]
  /\ last = [g \in Group |-> Nothing]
  /\ newest \in {[p \in Path |-> g] : g \in Group}
  /\ announced = [g \in Group |-> NoFile]
  /\ late = {} /\ saved = {} /\ edits = 0 /\ failures = 0
  /\ pc = [m \in Machine |-> "idle"]
  /\ todo = [m \in Machine |-> {}]
  /\ pushed = [m \in Machine |-> {}]

Fail == failures < MaxFailures /\ failures' = failures + 1

Present(s) == {p \in Path : s[p] # NoFile}

-----------------------------------------------------------------------------
(* Push                                                                    *)

\* The upload of a multipart form carries filepath.Base of the local path.
NameOf(p) == IF kind \in {"mysql", "http"} THEN BaseName[p] ELSE p

\* Content c gets to be the last row of name n; a store of files has no others.
Append(g, n, c) ==
  /\ last' = [last EXCEPT ![g][n] = c]
  /\ first' = [first EXCEPT ![g][n] = IF kind = "email" /\ @ # NoFile THEN @ ELSE c]
  /\ newest' = [newest EXCEPT ![n] = g]
  /\ UNCHANGED announced

\* MFS writes over the beginning of the stored file and does not truncate it.
WriteInPlace(g, n, c) ==
  \E x \in {c} \cup {Broken : old \in {last[g][n]} \ {NoFile, c}} : Append(g, n, x)

\* Every upload gets a random suffix: it is stored under a name of its own.
StoreRenamed(g, n, c) ==
  \E new \in Path \ Present(last[g]) : new # n /\ Append(g, new, c)

\* The file is added to IPFS and its CID sent to the discovery server.
Announce(g, n, c) ==
  /\ announced' = [announced EXCEPT ![g] = c]
  /\ UNCHANGED <<first, last, newest>>

Put(g, n, c) ==
  CASE kind = "mfs"    -> WriteInPlace(g, n, c)
    [] kind = "http"   -> StoreRenamed(g, n, c)
    [] kind = "hybrid" -> Announce(g, n, c)
    [] OTHER           -> Append(g, n, c)

\* The stores that write an upload into the file itself, as far as it gets; the
\* other ones keep a whole upload or none.
InPlace == {"mock", "ftp", "webdav", "mfs"}

\* A server may store what it was sent after the client has given up; the mock
\* transport writes the file itself.
MayBeLate == kind # "mock"

-----------------------------------------------------------------------------
(* List                                                                    *)

\* FTP, MFS: one LIST of the root, whose directories the engine skips.
ListTop(g) == Present(last[g]) \cap Flat

\* S3 and mock list recursively, a mailbox has whole paths, and MySQL and HTTP
\* have no directories.
ListAll(g) == Present(last[g])

\* IPFS by PubSub or discovery: what this transport object pushed.
ListPushed(m) == pushed[m]

\* Mutant: the prefix of the project is not cut off.
ListPrefixed(m) == {<<GroupOf[m], n>> : n \in ListAll(GroupOf[m])}

\* Mutant: files that the folder has already are not listed.
ListMissing(m) == {n \in ListAll(GroupOf[m]) : folder[m][n] = NoFile}

Listed(m) ==
  CASE kind \in {"ftp", "mfs"} -> ListTop(GroupOf[m])
    [] kind = "hybrid"         -> ListPushed(m)
    [] kind = "webdav"         -> {}
    [] OTHER                   -> ListAll(GroupOf[m])

-----------------------------------------------------------------------------
(* Pull                                                                    *)

\* The newest row with that name, of whatever group.
FetchAnyGroup(n) == last[newest[n]][n]

\* The first message that matches, in the order of the mailbox.
FetchOldest(g, n) == first[g][n]

\* The path is ignored, and the archive that the daemon answers with is saved as
\* the file, without being unpacked.
FetchAnnounced(g) == Wrap(announced[g])

\* Mutant: the newest row, whatever its name.
FetchAnyFile(g, n) ==
  CHOOSE c \in {last[g][p] : p \in Path} : \A q \in Path : last[g][q] <= c

Fetch(g, n) ==
  CASE kind = "mysql"  -> FetchAnyGroup(n)
    [] kind = "email"  -> FetchOldest(g, n)
    [] kind = "hybrid" -> FetchAnnounced(g)
    [] OTHER           -> last[g][n]

-----------------------------------------------------------------------------
(* The cycles of the machines, as in SyncEngine.                           *)

Save(m, f) ==
  /\ edits < MaxEdits
  /\ edits' = edits + 1
  /\ folder' = [folder EXCEPT ![m][f] = edits + 1]
  /\ saved' = saved \cup {<<GroupOf[m], f, edits + 1>>}
  /\ UNCHANGED <<modeVars, storeVars, late, failures, pc, todo, pushed>>

Goto(m, label) == pc' = [pc EXCEPT ![m] = label]

\* A new engine has a new transport, which has pushed nothing so far.
StartPush(m) ==
  /\ pc[m] = "idle"
  /\ direction[m] # "pull"
  /\ Goto(m, "push")
  /\ todo' = [todo EXCEPT ![m] = Present(folder[m])]
  /\ pushed' = [pushed EXCEPT ![m] = {}]
  /\ UNCHANGED <<modeVars, folder, storeVars, late, userVars, failures>>

StartPull(m) ==
  /\ pc[m] = "idle"
  /\ direction[m] = "pull"
  /\ Goto(m, "list")
  /\ pushed' = [pushed EXCEPT ![m] = {}]
  /\ UNCHANGED <<modeVars, folder, storeVars, late, userVars, failures, todo>>

Next1(m, f) == /\ f \in todo[m]
               /\ todo' = [todo EXCEPT ![m] = @ \ {f}]

Push(m, f) ==
  /\ pc[m] = "push"
  /\ Next1(m, f)
  /\ Put(GroupOf[m], NameOf(f), folder[m][f])
  /\ pushed' = [pushed EXCEPT ![m] = @ \cup {f}]
  /\ UNCHANGED <<modeVars, folder, late, userVars, failures, pc>>

\* The transport reports an error: nothing is stored, or the upload is stored all
\* the same, later, or a part of it takes the place of the stored file.
PushFails(m, f) ==
  /\ pc[m] = "push"
  /\ Fail
  /\ Next1(m, f)
  /\ \/ UNCHANGED <<storeVars, late>>
     \/ /\ MayBeLate
        /\ late' = late \cup {<<GroupOf[m], NameOf(f), folder[m][f]>>}
        /\ UNCHANGED storeVars
     \/ /\ kind \in InPlace
        /\ Append(GroupOf[m], NameOf(f), Broken)
        /\ UNCHANGED late
  /\ UNCHANGED <<modeVars, folder, userVars, pc, pushed>>

EndPush(m) ==
  /\ pc[m] = "push"
  /\ todo[m] = {}
  /\ Goto(m, IF direction[m] = "bidirectional" THEN "list" ELSE "idle")
  /\ UNCHANGED <<modeVars, folder, storeVars, late, userVars, failures, todo, pushed>>

List(m) ==
  /\ pc[m] = "list"
  /\ Goto(m, "pull")
  /\ todo' = [todo EXCEPT ![m] = Listed(m)]
  /\ UNCHANGED <<modeVars, folder, storeVars, late, userVars, failures, pushed>>

ListFails(m) ==
  /\ pc[m] = "list"
  /\ Fail
  /\ Goto(m, "idle")
  /\ UNCHANGED <<modeVars, folder, storeVars, late, userVars, todo, pushed>>

Pull(m, n) ==
  /\ pc[m] = "pull"
  /\ Next1(m, n)
  /\ folder' = [folder EXCEPT ![m][n] = Fetch(GroupOf[m], n)]
  /\ UNCHANGED <<modeVars, storeVars, late, userVars, failures, pc, pushed>>

\* The transport reports an error: before it has truncated the file of the folder
\* (os.Create), after that, or when the whole file is there.
PullFails(m, n) ==
  /\ pc[m] = "pull"
  /\ Fail
  /\ Next1(m, n)
  /\ \E c \in {folder[m][n], Broken, Fetch(GroupOf[m], n)} :
       folder' = [folder EXCEPT ![m][n] = c]
  /\ UNCHANGED <<modeVars, storeVars, late, userVars, pc, pushed>>

EndPull(m) ==
  /\ pc[m] = "pull"
  /\ todo[m] = {}
  /\ Goto(m, "idle")
  /\ UNCHANGED <<modeVars, folder, storeVars, late, userVars, failures, todo, pushed>>

\* The server gets around to a request whose client has given up ...
StoreLate(r) ==
  /\ r \in late
  /\ late' = late \ {r}
  /\ Put(r[1], r[2], r[3])
  /\ UNCHANGED <<modeVars, folder, userVars, failures, pc, todo, pushed>>

\* ... or drops it.
DropLate(r) ==
  /\ r \in late
  /\ late' = late \ {r}
  /\ UNCHANGED <<modeVars, folder, storeVars, userVars, failures, pc, todo, pushed>>

UserStep == \E m \in Edited, f \in Path : Save(m, f)

Server == \E r \in late : StoreLate(r) \/ DropLate(r)

Cycle(m) ==
  \/ StartPush(m) \/ EndPush(m)
  \/ StartPull(m) \/ List(m) \/ EndPull(m)
  \/ \E f \in Path : Push(m, f) \/ Pull(m, f)

Break(m) == ListFails(m) \/ \E f \in Path : PushFails(m, f) \/ PullFails(m, f)

Next == UserStep \/ Server \/ \E m \in Machine : Cycle(m) \/ Break(m)

(* Machines run cycle after cycle; a server ends every request at last.    *)
Fairness == WF_vars(Server) /\ \A m \in Machine : WF_vars(Cycle(m))

Spec == Init /\ [][Next]_vars

FairSpec == Spec /\ Fairness

-----------------------------------------------------------------------------
TypeOK ==
  /\ kind \in Kinds
  /\ direction \in Topologies
  /\ folder \in [Machine -> [Path -> Content]]
  /\ first \in [Group -> [Path -> Content]]
  /\ last \in [Group -> [Path -> Content]]
  /\ newest \in [Path -> Group]
  /\ announced \in [Group -> Content]
  /\ late \subseteq Group \X Path \X Content
  /\ saved \subseteq Group \X Path \X Version
  /\ edits \in 0 .. MaxEdits
  /\ failures \in 0 .. MaxFailures
  /\ pc \in [Machine -> {"idle", "push", "list", "pull"}]
  /\ todo \in [Machine -> SUBSET Path]
  /\ pushed \in [Machine -> SUBSET Path]

\* c was saved under p or a path that p's stored name stands for too, in group g or,
\* over MySQL, in any group of the table; or a failed transfer left it.
Genuine(g, p, c) ==
  \/ c = NoFile
  \/ c = Broken /\ failures > 0
  \/ \E h \in Group, q \in Path :
       /\ h = g \/ kind = "mysql"
       /\ NameOf(q) = NameOf(p)
       /\ <<h, q, c>> \in saved

\* The transports that are asked for a name and give back the file.
NameKeeping == {"mock", "s3", "ftp", "webdav", "email", "mysql"}

\* Whatever the transport does to names, and however late an upload is stored, a
\* whole file of a folder has the content that some user of the same project saved
\* under the same stored name: Push, List and Pull of the transport agree on
\* names.  While no transfer has failed, every file is whole.  Over MySQL it may
\* be a user of another project in the same table: rows are fetched by name only
\* (mysql.go:176).
ContentsKeepNames ==
  kind \in NameKeeping =>
    \A m \in Machine, p \in Path : Genuine(GroupOf[m], p, folder[m][p])

\* No machine both pushes and pulls: a folder that is pushed has what its user
\* saved, and nothing that a transfer left there.
OneWay == \A m \in Machine : direction[m] # "bidirectional"

\* Every machine of a project has the files of S whole and as they are stored, but
\* for one that only pushes and never had them, and no late upload would change
\* them.
InStep(S) ==
  /\ \A m \in Machine, p \in S :
       \/ folder[m][p] = last[GroupOf[m]][p] /\ folder[m][p] # Broken
       \/ direction[m] = "push" /\ folder[m][p] = NoFile
  /\ \A r \in late : r[2] \in S => r[3] = last[r[1]][r[2]]

\* The files a restore gets back: those whose stored name a pull can find.
Restorable ==
  CASE kind \in {"mock", "s3"} -> Path
    [] kind = "ftp" -> Flat
    [] kind = "mysql" -> {p \in Flat : \A q \in Path : BaseName[q] = p => q = p}
    [] OTHER -> {}

\* When the user of a project has stopped editing, the restoring machines come
\* to hold the same contents, whole, whichever transfers failed half way or were
\* stored late, of the files that the transport can restore at all, and keep them.
Restored == <>[](OneWay => InStep(Restorable))

\* The contents of p in group g, in folders, in the store and on their way there.
Copies(g, p) ==
  {last[g][p]}
  \cup {folder[m][p] : m \in {k \in Machine : GroupOf[k] = g}}
  \cup {r[3] : r \in {l \in late : l[1] = g /\ l[2] = p}}

\* All whole copies of a file of S are of one version.
Agreed(S) ==
  \A g \in Group, p \in S :
    \A c, d \in Copies(g, p) \ {NoFile, Broken} : c = d
=============================================================================
