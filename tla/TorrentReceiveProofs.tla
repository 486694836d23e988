------------------------ MODULE TorrentReceiveProofs ------------------------
(* Theorems about TorrentReceive, for every set of paths, any number of    *)
(* pollers and every bound.                                                *)
EXTENDS TorrentReceive, TLAPS

\* The steps of a poller, one case each.
LEMMA PollerSteps ==
  ASSUME NEW p \in Poller, NewPoller(p) \/ Advance(p) \/ GiveUp(p)
  PROVE  \/ NewPoller(p) \/ GiveUp(p) \/ Get(p) \/ AddMagnet(p) \/ Downloaded(p)
         \/ CopyEnd(p) \/ MergeEnd(p)
         \/ \E f \in Path : SameFile(p, f) \/ CopyBegin(p, f)
BY DEF Advance

-----------------------------------------------------------------------------
(* Types                                                                   *)

LEMMA Values ==
  /\ MaxSeq \in Nat /\ MaxEdits \in Nat /\ MaxFailures \in Nat
  /\ Torn \in Content /\ NoFile \in Content
  /\ Torn \notin Seqs /\ NoFile \notin Seqs /\ Torn # NoFile
  /\ Seqs \subseteq Content
  /\ \A c \in Mine : c \in Content /\ c \notin Seqs
  /\ Nothing \in Snapshot /\ Nothing \in [Path -> Content]
BY ReceiveAssumption
DEF Torn, NoFile, Seqs, Mine, Content, Snapshot, Nothing

LEMMA OutcomesTyped ==
  ASSUME TypeOK, NEW p \in Poller, pc[p] = "copying", NEW c \in Content
  PROVE  file[p] \in Path /\ Outcomes(p, c) \subseteq Content
<1>1. file[p] \in Path
  BY DEF TypeOK
<1>2. folder[file[p]] \in Content
  BY <1>1 DEF TypeOK
<1> QED BY <1>1, <1>2, Values DEF Outcomes

LEMMA CopiedTyped ==
  ASSUME TypeOK, NEW p \in Poller
  PROVE  Copied(buf[p], file[p]) \in Content
BY Values DEF TypeOK, Copied

LEMMA TypeInit == Init => TypeOK
BY Values, ReceiveAssumption DEF Init, TypeOK, Nothing

LEMMA EnvironmentType ==
  ASSUME TypeOK, \/ \E s \in Snapshot : Publish(s)
                 \/ Swarm
                 \/ \E f \in Path : Edit(f)
                 \/ Kill
  PROVE  TypeOK'
<1> USE Values, ReceiveAssumption DEF TypeOK, netVars, diskVars, pollVars
<1>1. ASSUME NEW s \in Snapshot, Publish(s) PROVE TypeOK'
  BY <1>1 DEF Publish, Seqs
<1>2. ASSUME NEW n \in Seqs, Loaded(n) PROVE TypeOK'
  BY <1>2 DEF Loaded
<1>3. ASSUME NEW n \in Seqs, NEW f \in Path, LoadBegin(n, f) PROVE TypeOK'
  BY <1>3 DEF LoadBegin
<1>4. ASSUME NEW n \in Seqs, NEW f \in Path, LoadEnd(n, f) PROVE TypeOK'
  <2>1. snap[n][f] \in Content
    BY DEF Snapshot
  <2> QED BY <1>4, <2>1 DEF LoadEnd
<1>5. ASSUME NEW f \in Path, Edit(f) PROVE TypeOK'
  <2>1. MaxSeq + edits + 1 \in Content
    BY <1>5 DEF Edit, Mine
  <2> QED BY <1>5, <2>1 DEF Edit
<1>6. CASE Kill
  BY <1>6 DEF Kill, Fail
<1> QED BY <1>1, <1>2, <1>3, <1>4, <1>5, <1>6 DEF Swarm

LEMMA PollerType ==
  ASSUME TypeOK, NEW p \in Poller, NewPoller(p) \/ Advance(p) \/ GiveUp(p)
  PROVE  TypeOK'
<1> USE Values, ReceiveAssumption DEF TypeOK, Goto, netVars, diskVars
<1>1. CASE NewPoller(p)
  BY <1>1 DEF NewPoller
<1>2. CASE GiveUp(p)
  BY <1>2 DEF GiveUp, Fail
<1>3. CASE Get(p)
  BY <1>3 DEF Get
<1>4. CASE AddMagnet(p)
  BY <1>4 DEF AddMagnet
<1>5. CASE Downloaded(p)
  BY <1>5 DEF Downloaded, Files
<1>6. CASE CopyEnd(p)
  <2> DEFINE c == Copied(buf[p], file[p])
  <2>1. c \in Content
    BY CopiedTyped
  <2>2. pc[p] = "copying" /\ EndCopy(p, c)
    BY <1>6 DEF CopyEnd, EndCopy
  <2>3. file[p] \in Path /\ Outcomes(p, c) \subseteq Content
    BY <2>1, <2>2, OutcomesTyped
  <2>4. folder' \in [Path -> Content] /\ newest' \in Snapshot
    BY <2>2, <2>3 DEF EndCopy, Snapshot
  <2>5. mixed' \subseteq Poller
    BY <2>2 DEF EndCopy, Alongside
  <2> HIDE DEF c
  <2> QED BY <2>2, <2>4, <2>5 DEF EndCopy
<1>7. CASE MergeEnd(p)
  BY <1>7 DEF MergeEnd
<1>8. ASSUME NEW f \in Path, SameFile(p, f) PROVE TypeOK'
  BY <1>8 DEF SameFile, At
<1>9. ASSUME NEW f \in Path, CopyBegin(p, f) PROVE TypeOK'
  BY <1>9 DEF CopyBegin, At
<1> QED
  BY <1>1, <1>2, <1>3, <1>4, <1>5, <1>6, <1>7, <1>8, <1>9, PollerSteps

\* The type invariant, with what a poller holds at each step.
THEOREM TypeCorrect == Spec => []TypeOK
<1>1. TypeOK /\ [Next]_vars => TypeOK'
  <2> SUFFICES ASSUME TypeOK, [Next]_vars PROVE TypeOK'
    OBVIOUS
  <2>1. CASE UNCHANGED vars
    BY <2>1 DEF TypeOK, vars
  <2>2. CASE Next
    BY <2>2, EnvironmentType, PollerType DEF Next
  <2> QED BY <2>1, <2>2
<1> QED BY <1>1, TypeInit, PTL DEF Spec

-----------------------------------------------------------------------------
(* SkippedWasAdded                                                         *)

\* lastSeq only ever becomes a number whose torrent was added.
AddedInv ==
  \A p \in Poller :
    /\ lastSeq[p] # 0 => status[lastSeq[p]] # "absent"
    /\ pc[p] \notin {"idle", "add"} => status[got[p]] # "absent"

LEMMA AddedStep ==
  ASSUME TypeOK, TypeOK', AddedInv, [Next]_vars
  PROVE  AddedInv'
<1> USE Values DEF AddedInv, TypeOK, Goto, netVars, diskVars, pollVars
<1>1. CASE UNCHANGED vars
  BY <1>1 DEF vars
<1>2. ASSUME NEW s \in Snapshot, Publish(s) PROVE AddedInv'
  BY <1>2 DEF Publish
<1>3. CASE Swarm
  <2>1. ASSUME NEW n \in Seqs, Loaded(n) PROVE AddedInv'
    BY <2>1 DEF Loaded
  <2>2. ASSUME NEW n \in Seqs, NEW f \in Path, LoadBegin(n, f) \/ LoadEnd(n, f)
        PROVE  AddedInv'
    BY <2>2 DEF LoadBegin, LoadEnd
  <2> QED BY <1>3, <2>1, <2>2 DEF Swarm
<1>4. ASSUME NEW f \in Path, Edit(f) PROVE AddedInv'
  BY <1>4 DEF Edit
<1>5. CASE Kill
  BY <1>5 DEF Kill
<1>6. ASSUME NEW p \in Poller, NewPoller(p) PROVE AddedInv'
  BY <1>6 DEF NewPoller
<1>7. ASSUME NEW p \in Poller, GiveUp(p) PROVE AddedInv'
  BY <1>7 DEF GiveUp
<1>8. ASSUME NEW p \in Poller, Get(p) PROVE AddedInv'
  BY <1>8 DEF Get
<1>9. ASSUME NEW p \in Poller, AddMagnet(p) PROVE AddedInv'
  BY <1>9 DEF AddMagnet
<1>10. ASSUME NEW p \in Poller, Downloaded(p) PROVE AddedInv'
  BY <1>10 DEF Downloaded
<1>11. ASSUME NEW p \in Poller, CopyEnd(p) PROVE AddedInv'
  BY <1>11 DEF CopyEnd, EndCopy
<1>12. ASSUME NEW p \in Poller, MergeEnd(p) PROVE AddedInv'
  BY <1>12 DEF MergeEnd
<1>13. ASSUME NEW p \in Poller, NEW f \in Path, SameFile(p, f) PROVE AddedInv'
  BY <1>13 DEF SameFile, At
<1>14. ASSUME NEW p \in Poller, NEW f \in Path, CopyBegin(p, f) PROVE AddedInv'
  BY <1>14 DEF CopyBegin, At
<1>15. ASSUME NEW p \in Poller, NewPoller(p) \/ Advance(p) \/ GiveUp(p)
       PROVE  AddedInv'
  BY <1>6, <1>7, <1>8, <1>9, <1>10, <1>11, <1>12, <1>13, <1>14, <1>15, PollerSteps
<1> QED BY <1>1, <1>2, <1>3, <1>4, <1>5, <1>15 DEF Next

\* Whatever fails or is killed between the DHT and lastSeq, an item is passed
\* over only if its torrent was given to the client.
THEOREM NothingSkipped == Spec => []SkippedWasAdded
<1>1. Init => AddedInv
  BY DEF Init, AddedInv
<1>2. AddedInv => SkippedWasAdded
  BY DEF AddedInv, SkippedWasAdded
<1> QED BY <1>1, <1>2, TypeCorrect, AddedStep, PTL DEF Spec
-----------------------------------------------------------------------------
(* Provenance                                                              *)

LEMMA SourceInit == Init => SourceInv
BY Values DEF Init, SourceInv, Provenance, Nothing, Announced

\* The publisher, the swarm, the user and a kill.
LEMMA EnvironmentSource ==
  ASSUME TypeOK, TypeOK', SourceInv, [Next]_vars,
         \/ \E s \in Snapshot : Publish(s)
         \/ Swarm
         \/ \E f \in Path : Edit(f)
         \/ Kill
  PROVE  SourceInv'
<1> USE Values DEF SourceInv, Provenance, netVars, diskVars, pollVars
<1>1. ASSUME NEW s \in Snapshot, Publish(s) PROVE SourceInv'
  <2>1. latest' = latest + 1 /\ UNCHANGED <<status, downloads, folder, buf, file>>
    BY <1>1 DEF Publish
  <2>2. \A n \in 1 .. latest : n \in 1 .. latest' /\ snap'[n] = snap[n]
    BY <1>1, <2>1 DEF Publish, TypeOK, Seqs
  <2>3. ASSUME NEW f, NEW c, Announced(f, c)
        PROVE  \E n \in 1 .. latest' : snap'[n][f] = c
    BY <2>2, <2>3 DEF Announced
  <2>4. \A n \in Seqs : status'[n] # "absent" => n <= latest'
    BY <2>1 DEF TypeOK, Seqs
  <2>5. \A f \in Path : downloads[f] \in Seqs => Announced(f, downloads[f])
    OBVIOUS
  <2>6. \A f \in Path : folder[f] \in Seqs => Announced(f, folder[f])
    BY DEF Announced
  <2>7. \A f \in Path : downloads'[f] \in Seqs
          => \E n \in 1 .. latest' : snap'[n][f] = downloads'[f]
    BY <2>1, <2>3, <2>5
  <2>8. \A f \in Path : folder'[f] \in Seqs
          => \E n \in 1 .. latest' : snap'[n][f] = folder'[f]
    BY <2>1, <2>3, <2>6
  <2>9. \A p \in Poller : buf'[p] \in Seqs
          => \E n \in 1 .. latest' : snap'[n][file'[p]] = buf'[p]
    BY <2>1, <2>3
  <2> QED BY <2>4, <2>7, <2>8, <2>9 DEF Announced
<1>2. ASSUME NEW n \in Seqs, Loaded(n) PROVE SourceInv'
  <2>1. UNCHANGED <<latest, snap, downloads, folder, buf, file>>
    BY <1>2 DEF Loaded
  <2>2. \A m \in Seqs : status'[m] # "absent" => m <= latest
    BY <1>2 DEF Loaded, TypeOK
  <2> QED BY <2>1, <2>2 DEF Announced
<1>3. ASSUME NEW n \in Seqs, NEW f \in Path, LoadBegin(n, f) PROVE SourceInv'
  BY <1>3 DEF LoadBegin, Announced, TypeOK
<1>4. ASSUME NEW n \in Seqs, NEW f \in Path, LoadEnd(n, f) PROVE SourceInv'
  <2>1. n \in 1 .. latest
    BY <1>4 DEF LoadEnd, TypeOK, Seqs
  <2>2. Announced(f, snap[n][f])
    BY <2>1 DEF Announced
  <2> QED BY <1>4, <2>2 DEF LoadEnd, Announced, TypeOK
<1>5. ASSUME NEW f \in Path, Edit(f) PROVE SourceInv'
  <2>1. MaxSeq + edits + 1 \notin Seqs
    BY DEF TypeOK, Seqs
  <2> QED BY <1>5, <2>1 DEF Edit, Announced, TypeOK
<1>6. CASE Kill
  BY <1>6 DEF Kill, Announced
<1> QED BY <1>1, <1>2, <1>3, <1>4, <1>5, <1>6 DEF Swarm

\* What a copy leaves in its file was there, or is what it copied.
LEMMA CopySource ==
  ASSUME TypeOK, TypeOK', SourceInv, NEW p \in Poller, CopyEnd(p)
  PROVE  SourceInv'
<1> USE Values DEF SourceInv, Provenance, netVars
<1> DEFINE c == Copied(buf[p], file[p])
<1>1. pc[p] = "copying" /\ EndCopy(p, c)
  BY DEF CopyEnd, EndCopy
<1>2. file[p] \in Path
  BY <1>1 DEF TypeOK
<1>3. c = buf[p] \/ c = Torn
  BY DEF Copied
<1> HIDE DEF c
<1>4. UNCHANGED <<latest, snap, status, downloads>>
  BY <1>1 DEF EndCopy
<1>5. PICK r \in Outcomes(p, c) : folder' = [folder EXCEPT ![file[p]] = r]
  BY <1>1 DEF EndCopy
<1>6. r \in {folder[file[p]], c, Torn}
  BY DEF Outcomes
<1>7. r \in Seqs => Announced(file[p], r)
  BY <1>2, <1>3, <1>6 DEF Announced
<1>8. \A f \in Path : folder'[f] \in Seqs => Announced(f, folder'[f])
  BY <1>2, <1>5, <1>7 DEF TypeOK, Announced
<1>9. \A q \in Poller : buf'[q] \in Seqs => buf'[q] = buf[q] /\ file'[q] = file[q]
  BY <1>1 DEF EndCopy, TypeOK
<1> QED BY <1>4, <1>8, <1>9 DEF Announced

LEMMA PollerSource ==
  ASSUME TypeOK, TypeOK', SourceInv,
         NEW p \in Poller, NewPoller(p) \/ Advance(p) \/ GiveUp(p)
  PROVE  SourceInv'
<1> USE Values DEF SourceInv, Provenance, Announced, Goto, netVars, diskVars
<1>1. CASE NewPoller(p) \/ Get(p) \/ Downloaded(p) \/ MergeEnd(p)
  BY <1>1 DEF NewPoller, Get, Downloaded, MergeEnd
<1>2. CASE GiveUp(p)
  BY <1>2 DEF GiveUp, TypeOK
<1>3. CASE AddMagnet(p)
  <2>1. got[p] \in 1 .. latest
    BY <1>3 DEF AddMagnet, TypeOK
  <2>2. \A n \in Seqs : status'[n] # "absent" => n <= latest
    BY <1>3, <2>1 DEF AddMagnet, TypeOK
  <2> QED BY <1>3, <2>2 DEF AddMagnet
<1>4. CASE CopyEnd(p)
  BY <1>4, CopySource
<1>5. ASSUME NEW f \in Path, SameFile(p, f) PROVE SourceInv'
  BY <1>5 DEF SameFile
<1>6. ASSUME NEW f \in Path, CopyBegin(p, f) PROVE SourceInv'
  BY <1>6 DEF CopyBegin, TypeOK
<1> QED BY <1>1, <1>2, <1>3, <1>4, <1>5, <1>6, PollerSteps

\* With overlapping pollers, torrents that write to one directory, edits and
\* kills, a whole file of the folder is the user's, or was announced under its
\* name.
THEOREM OnlyAnnounced == Spec => []Provenance
<1>1. TypeOK /\ TypeOK' /\ SourceInv /\ [Next]_vars => SourceInv'
  <2> SUFFICES ASSUME TypeOK, TypeOK', SourceInv, [Next]_vars PROVE SourceInv'
    OBVIOUS
  <2>1. CASE UNCHANGED vars
    BY <2>1 DEF vars, SourceInv, Provenance, Announced
  <2>2. CASE Next
    BY <2>2, EnvironmentSource, PollerSource DEF Next
  <2> QED BY <2>1, <2>2
<1>2. SourceInv => Provenance
  BY DEF SourceInv
<1> QED BY <1>1, <1>2, SourceInit, TypeCorrect, PTL DEF Spec

-----------------------------------------------------------------------------
(* NoReturnToOlder                                                         *)

Ordered == OrderInv /\ SourceInv

LEMMA OrderInit == Init => OrderInv
<1> SUFFICES ASSUME Init PROVE OrderInv
  OBVIOUS
<1>1. latest = 0 /\ \A n \in Seqs : ~(n < 0)
  BY DEF Init, Seqs
<1>2. \A f \in Path : downloads[f] = NoFile /\ folder[f] = NoFile /\ newest[f] = NoFile
  BY DEF Init, Nothing
<1> QED BY <1>1, <1>2, Values DEF OrderInv, NoReturnToOlder

LEMMA SnapValues ==
  ASSUME TypeOK, NEW n \in Seqs, NEW f \in Path
  PROVE  snap[n][f] \in Nat /\ snap[n][f] \in {NoFile} \cup Seqs
<1>1. snap[n][f] \in {NoFile} \cup Seqs
  BY DEF TypeOK, Snapshot
<1> QED BY <1>1, Values DEF NoFile, Seqs

\* A snapshot keeps a file, brings it anew, or is without it.
LEMMA PublishOrder ==
  ASSUME Calm, TypeOK, Ordered, NEW s \in Snapshot, Publish(s)
  PROVE  OrderInv'
<1> USE Values DEF Ordered, netVars, diskVars
<1>1. latest' = latest + 1 /\ UNCHANGED <<status, downloads, folder, newest>>
  BY DEF Publish
<1>2. latest \in Nat /\ latest + 1 \in Seqs
  BY DEF Publish, TypeOK, Seqs
<1>3. snap'[latest + 1] = s /\ \A n \in 1 .. latest : snap'[n] = snap[n]
  BY <1>2 DEF Publish, TypeOK, Seqs
<1>4. \A n \in 1 .. latest : n \in Seqs
  BY <1>2 DEF Seqs, TypeOK
<1>5. \A f \in Path : s[f] \in {NoFile, latest + 1, LastSnapshot[f]}
  BY DEF Publish
<1>6. \A n \in Seqs : n < latest' => status'[n] = "done"
  <2> SUFFICES ASSUME NEW n \in Seqs, n < latest + 1 PROVE status[n] = "done"
    BY <1>1
  <2>1. n < latest \/ n = latest
    BY <1>2 DEF Seqs
  <2>2. latest # 0
    BY <1>2 DEF Seqs
  <2> QED BY <2>1, <2>2 DEF OrderInv, Publish
<1>7. \A f \in Path : s[f] <= latest + 1
  <2> SUFFICES ASSUME NEW f \in Path PROVE s[f] <= latest + 1
    OBVIOUS
  <2>1. LastSnapshot[f] <= latest + 1
    BY <1>2, <1>4, SnapValues DEF LastSnapshot, Nothing, NoFile, OrderInv
  <2> QED BY <1>2, <1>5, <2>1 DEF NoFile
<1>8. ASSUME NEW m \in 1 .. latest, NEW f \in Path, s[f] # NoFile
      PROVE  snap[m][f] <= s[f]
  <2>1. snap[m][f] <= m /\ snap[m][f] \in Nat
    BY <1>4, SnapValues DEF OrderInv
  <2>2. CASE s[f] = latest + 1
    BY <1>2, <2>1, <2>2
  <2>3. CASE s[f] = LastSnapshot[f]
    <3>1. latest # 0 /\ latest \in 1 .. latest
      BY <1>2
    <3>2. s[f] = snap[latest][f]
      BY <2>3, <3>1 DEF LastSnapshot
    <3> QED BY <1>8, <3>1, <3>2, <1>2 DEF OrderInv
  <2> QED BY <1>5, <1>8, <2>2, <2>3
<1>9. \A n \in 1 .. latest', f \in Path : snap'[n][f] <= n
  <2> SUFFICES ASSUME NEW n \in 1 .. latest + 1, NEW f \in Path
               PROVE  snap'[n][f] <= n
    BY <1>1
  <2>1. n \in 1 .. latest \/ n = latest + 1
    BY <1>2
  <2> QED BY <1>3, <1>7, <2>1 DEF OrderInv
<1>10. \A n \in 1 .. latest', m \in 1 .. latest', f \in Path :
         m <= n /\ snap'[n][f] # NoFile => snap'[m][f] <= snap'[n][f]
  <2> SUFFICES ASSUME NEW n \in 1 .. latest + 1, NEW m \in 1 .. latest + 1,
                      NEW f \in Path, m <= n, snap'[n][f] # NoFile
               PROVE  snap'[m][f] <= snap'[n][f]
    BY <1>1
  <2>1. CASE n \in 1 .. latest
    <3>1. m \in 1 .. latest
      BY <1>2, <2>1
    <3> QED BY <1>3, <2>1, <3>1 DEF OrderInv
  <2>2. CASE n = latest + 1 /\ m \in 1 .. latest
    BY <1>3, <1>8, <2>2
  <2>3. CASE n = latest + 1 /\ m = latest + 1
    <3>1. s[f] \in Int
      BY Values DEF Snapshot, NoFile, Seqs
    <3> QED BY <1>3, <2>3, <3>1
  <2> QED BY <1>2, <2>1, <2>2, <2>3
<1>11. \A f \in Path : newest'[f] # NoFile
         => \E n \in 1 .. latest' : snap'[n][f] = newest'[f]
  <2> SUFFICES ASSUME NEW f \in Path, newest[f] # NoFile
               PROVE  \E n \in 1 .. latest + 1 : snap'[n][f] = newest[f]
    BY <1>1
  <2>1. PICK n \in 1 .. latest : snap[n][f] = newest[f]
    BY DEF OrderInv, Announced
  <2> QED BY <1>2, <1>3, <2>1
<1> HIDE DEF Ordered
<1>12. (\A f \in Path : downloads'[f] \in Seqs => newest'[f] <= downloads'[f])
       /\ NoReturnToOlder'
  BY <1>1 DEF Ordered, OrderInv, NoReturnToOlder
<1> QED BY <1>6, <1>9, <1>10, <1>11, <1>12 DEF OrderInv, Announced

\* A torrent that is loading is the newest one, and has the newest content of
\* every file.
LEMMA LoadOrder ==
  ASSUME TypeOK, Ordered, NEW n \in Seqs, NEW f \in Path, LoadEnd(n, f)
  PROVE  OrderInv'
<1> USE DEF Ordered, netVars
<1>1. UNCHANGED <<latest, snap, status, folder, newest>>
  BY DEF LoadEnd
<1>2. n = latest /\ latest \in 1 .. latest
  BY DEF LoadEnd, OrderInv, SourceInv, TypeOK, Seqs
<1>3. newest[f] <= snap[n][f]
  <2>1. CASE newest[f] = NoFile
    BY <2>1, SnapValues DEF NoFile
  <2>2. CASE newest[f] # NoFile
    <3>1. PICK m \in 1 .. latest : snap[m][f] = newest[f]
      BY <2>2 DEF OrderInv, Announced
    <3>2. m <= n
      BY <1>2 DEF TypeOK
    <3> QED BY <1>2, <3>1, <3>2 DEF OrderInv, LoadEnd
  <2> QED BY <2>1, <2>2
<1>4. \A g \in Path : downloads'[g] = IF g = f THEN snap[n][f] ELSE downloads[g]
  BY DEF LoadEnd, TypeOK
<1>5. \A g \in Path : downloads'[g] \in Seqs => newest[g] <= downloads'[g]
  BY <1>3, <1>4 DEF OrderInv
<1> QED BY <1>1, <1>5 DEF OrderInv, NoReturnToOlder, Announced

\* What a copy leaves was the newest already, or is what its source still has.
LEMMA CopyOrder ==
  ASSUME TypeOK, Ordered, NEW p \in Poller, CopyEnd(p)
  PROVE  OrderInv'
<1> USE Values DEF netVars
<1> DEFINE c == Copied(buf[p], file[p])
<1>1. pc[p] = "copying" /\ EndCopy(p, c)
  BY DEF CopyEnd, EndCopy
<1>2. file[p] \in Path
  BY <1>1 DEF TypeOK
<1>3. c \in Seqs => c = downloads[file[p]]
  BY DEF Copied
<1> HIDE DEF c
<1>4. UNCHANGED <<latest, snap, status, downloads>>
  BY <1>1 DEF EndCopy
<1>5. PICK r \in Outcomes(p, c) :
        /\ folder' = [folder EXCEPT ![file[p]] = r]
        /\ newest' = [newest EXCEPT ![file[p]] = IF r \in Seqs /\ r > @ THEN r ELSE @]
  BY <1>1 DEF EndCopy
<1>6. r \in {folder[file[p]], c, Torn}
  BY DEF Outcomes
<1> DEFINE g == file[p]  old == newest[g]  new == newest'[g]
<1>7. new = (IF r \in Seqs /\ r > old THEN r ELSE old) /\ folder'[g] = r
  BY <1>2, <1>5 DEF TypeOK, Snapshot
<1>8. old \in Nat /\ \A n \in Seqs : n \in Nat
  BY <1>2, ReceiveAssumption DEF TypeOK, Snapshot, NoFile, Seqs
<1>9. r \in Seqs => r = old \/ (r = downloads[g] /\ old <= r)
  BY <1>2, <1>3, <1>6 DEF Ordered, OrderInv, NoReturnToOlder
<1>10. \A f \in Path : f # g => folder'[f] = folder[f] /\ newest'[f] = newest[f]
  BY <1>5 DEF TypeOK, Snapshot
<1> HIDE DEF g, old, new
<1>11. (r \in Seqs => r = new) /\ (new = old \/ (new = downloads[g] /\ new \in Seqs))
  BY <1>7, <1>8, <1>9
<1>12. \A f \in Path : folder'[f] \in Seqs => folder'[f] = newest'[f]
  BY <1>7, <1>10, <1>11 DEF Ordered, OrderInv, NoReturnToOlder, g, new
<1>13. \A f \in Path : downloads[f] \in Seqs => newest'[f] <= downloads[f]
  <2> SUFFICES ASSUME NEW f \in Path, downloads[f] \in Seqs
               PROVE  newest'[f] <= downloads[f]
    OBVIOUS
  <2>1. CASE f # g
    BY <1>10, <2>1 DEF Ordered, OrderInv
  <2>2. CASE f = g
    <3>1. old <= downloads[f]
      BY <2>2 DEF Ordered, OrderInv, g, old
    <3> QED BY <1>8, <1>11, <2>2, <3>1 DEF new
  <2> QED BY <2>1, <2>2
<1>14. \A f \in Path : newest'[f] # NoFile => Announced(f, newest'[f])
  <2> SUFFICES ASSUME NEW f \in Path, newest'[f] # NoFile
               PROVE  Announced(f, newest'[f])
    OBVIOUS
  <2>1. CASE newest'[f] = newest[f]
    BY <2>1 DEF Ordered, OrderInv
  <2>2. CASE newest'[f] = downloads[f] /\ downloads[f] \in Seqs
    BY <2>2 DEF Ordered, SourceInv
  <2> QED BY <1>10, <1>11, <2>1, <2>2 DEF g, old, new
<1> QED BY <1>4, <1>12, <1>13, <1>14 DEF Ordered, OrderInv, NoReturnToOlder, Announced

LEMMA EnvironmentOrder ==
  ASSUME Calm, TypeOK, Ordered,
         \/ \E s \in Snapshot : Publish(s)
         \/ Swarm
         \/ \E f \in Path : Edit(f)
         \/ Kill
  PROVE  OrderInv'
<1> USE Values DEF Ordered, OrderInv, NoReturnToOlder, Announced, netVars, diskVars
<1>1. ASSUME NEW n \in Seqs, Loaded(n) PROVE OrderInv'
  <2>1. UNCHANGED <<latest, snap, downloads, folder, newest>>
    BY <1>1 DEF Loaded
  <2>2. \A m \in Seqs : m < latest => status'[m] = "done"
    BY <1>1 DEF Loaded, TypeOK
  <2> QED BY <2>1, <2>2
<1>2. ASSUME NEW n \in Seqs, NEW f \in Path, LoadBegin(n, f) PROVE OrderInv'
  <2>1. UNCHANGED <<latest, snap, status, folder, newest>>
    BY <1>2 DEF LoadBegin
  <2>2. \A g \in Path : downloads'[g] \in Seqs => downloads'[g] = downloads[g]
    BY <1>2 DEF LoadBegin, TypeOK
  <2> QED BY <2>1, <2>2
<1>3. ASSUME NEW f \in Path, Edit(f) PROVE OrderInv'
  <2>1. MaxSeq + edits + 1 \notin Seqs
    BY DEF TypeOK, Seqs
  <2>2. \A g \in Path : folder'[g] \in Seqs => folder'[g] = folder[g]
    BY <1>3, <2>1 DEF Edit, TypeOK
  <2>3. UNCHANGED <<latest, snap, status, downloads, newest>>
    BY <1>3 DEF Edit
  <2> QED BY <2>2, <2>3
<1>4. CASE Kill
  BY <1>4 DEF Kill
<1> HIDE DEF Ordered, OrderInv
<1> QED BY <1>1, <1>2, <1>3, <1>4, PublishOrder, LoadOrder DEF Swarm

LEMMA PollerOrder ==
  ASSUME TypeOK, Ordered,
         NEW p \in Poller, NewPoller(p) \/ Advance(p) \/ GiveUp(p)
  PROVE  OrderInv'
<1> USE Values DEF Ordered, OrderInv, NoReturnToOlder, Announced, netVars, diskVars
<1>1. CASE NewPoller(p) \/ GiveUp(p) \/ Get(p) \/ Downloaded(p) \/ MergeEnd(p)
  BY <1>1 DEF NewPoller, GiveUp, Get, Downloaded, MergeEnd
<1>2. CASE AddMagnet(p)
  <2>1. UNCHANGED <<latest, snap, downloads, folder, newest>>
    BY <1>2 DEF AddMagnet
  <2>2. \A n \in Seqs : n < latest => status'[n] = "done"
    BY <1>2 DEF AddMagnet, TypeOK
  <2> QED BY <2>1, <2>2
<1>3. CASE CopyEnd(p)
  BY <1>3, CopyOrder
<1>4. ASSUME NEW f \in Path, SameFile(p, f) PROVE OrderInv'
  BY <1>4 DEF SameFile
<1>5. ASSUME NEW f \in Path, CopyBegin(p, f) PROVE OrderInv'
  <2>1. UNCHANGED <<latest, snap, status, downloads, newest>>
    BY <1>5 DEF CopyBegin
  <2>2. \A g \in Path : folder'[g] \in Seqs => folder'[g] = folder[g]
    BY <1>5 DEF CopyBegin, TypeOK
  <2> QED BY <2>1, <2>2
<1> QED BY <1>1, <1>2, <1>3, <1>4, <1>5, PollerSteps

LEMMA StaysOrdered ==
  ASSUME Calm
  PROVE  Spec => []Ordered
<1>1. TypeOK /\ TypeOK' /\ Ordered /\ [Next]_vars => Ordered'
  <2> SUFFICES ASSUME TypeOK, TypeOK', Ordered, [Next]_vars PROVE Ordered'
    OBVIOUS
  <2>1. CASE UNCHANGED vars
    BY <2>1 DEF vars, Ordered, OrderInv, NoReturnToOlder, SourceInv,
                Provenance, Announced
  <2>2. CASE Next
    BY <2>2, EnvironmentSource, PollerSource, EnvironmentOrder, PollerOrder
    DEF Next, Ordered
  <2> QED BY <2>1, <2>2
<1>2. Init => Ordered
  BY SourceInit, OrderInit DEF Ordered
<1> QED BY <1>1, <1>2, TypeCorrect, PTL DEF Spec

\* If every snapshot has arrived before the next one is announced, no merge
\* brings an older content of a file back, whatever the pollers hold.
THEOREM NeverOlder ==
  ASSUME Calm
  PROVE  Spec => []NoReturnToOlder
<1>1. Ordered => NoReturnToOlder
  BY DEF Ordered, OrderInv
<1> QED BY <1>1, StaysOrdered, PTL

-----------------------------------------------------------------------------
(* What is merged stays merged                                             *)

\* All torrents that were added are complete.
LEMMA NoneLoading ==
  ASSUME TypeOK, Ordered, Merged, NEW n \in Seqs, n <= latest \/ status[n] # "absent"
  PROVE  status[n] = "done"
<1>1. n \in Nat /\ latest \in Nat /\ n # 0 /\ n <= latest
  BY Values DEF TypeOK, Seqs, Ordered, SourceInv
<1> QED BY <1>1 DEF Merged, Ordered, OrderInv

LEMMA PollerMerged ==
  ASSUME TypeOK, Ordered, Merged,
         NEW p \in Poller, NewPoller(p) \/ Advance(p) \/ GiveUp(p)
  PROVE  Merged'
<1> DEFINE Held == Files(LastSnapshot)
<1>0. /\ \A f \in Held : /\ f \in Path
                         /\ folder[f] = LastSnapshot[f] /\ downloads[f] = LastSnapshot[f]
                         /\ \A q \in Poller : file[q] # f
      /\ latest # 0 => status[latest] = "done"
  BY DEF Merged, Files
<1>a. ASSUME UNCHANGED netVars
      PROVE  LastSnapshot' = LastSnapshot /\ Held' = Held
  BY <1>a DEF netVars, LastSnapshot, Files
<1> USE ReceiveAssumption DEF TypeOK, Goto, diskVars
<1>1. CASE NewPoller(p) \/ GiveUp(p) \/ Get(p) \/ Downloaded(p) \/ MergeEnd(p)
  <2>1. UNCHANGED <<netVars, status, diskVars>>
    BY <1>1 DEF NewPoller, GiveUp, Get, Downloaded, MergeEnd
  <2>2. \A q \in Poller : file'[q] \in {file[q], NoPath}
    BY <1>1 DEF NewPoller, GiveUp, Get, Downloaded, MergeEnd
  <2> QED BY <1>0, <1>a, <2>1, <2>2 DEF Merged, netVars
<1>2. CASE AddMagnet(p)
  <2>1. UNCHANGED <<netVars, diskVars, file>>
    BY <1>2 DEF AddMagnet
  <2>2. latest # 0 => status'[latest] = "done"
    <3>1. \A n \in Seqs : status[n] = "done" => status'[n] = "done"
      BY <1>2 DEF AddMagnet
    <3> QED BY <1>0, <3>1, Values DEF Seqs
  <2> QED BY <1>0, <1>a, <2>1, <2>2 DEF Merged, netVars
<1>3. CASE CopyEnd(p)
  <2>1. /\ UNCHANGED <<netVars, status, downloads>> /\ pc[p] = "copying"
        /\ file' = [file EXCEPT ![p] = NoPath]
    BY <1>3 DEF CopyEnd, EndCopy
  <2>2. PICK r : folder' = [folder EXCEPT ![file[p]] = r]
    BY <1>3 DEF CopyEnd, EndCopy
  <2> QED BY <1>0, <1>a, <2>1, <2>2 DEF Merged, netVars
<1>4. ASSUME NEW f \in Path, SameFile(p, f) PROVE Merged'
  BY <1>0, <1>4, <1>a DEF SameFile, Merged, netVars
<1>5. ASSUME NEW f \in Path, CopyBegin(p, f) PROVE Merged'
  <2>1. /\ UNCHANGED <<netVars, status, downloads>> /\ f \notin Held
        /\ folder' = [folder EXCEPT ![f] = Torn]
        /\ file' = [file EXCEPT ![p] = f]
    BY <1>0, <1>5 DEF CopyBegin
  <2> QED BY <1>0, <1>a, <2>1 DEF Merged, netVars
<1> QED BY <1>1, <1>2, <1>3, <1>4, <1>5, PollerSteps

\* LatestMerged says that the newest snapshot gets to the folder, this says that it
\* stays: no poller that starts again from lastSeq = 0, no failed or timed-out
\* download and no kill undoes it, until another snapshot is announced or the user
\* edits a file (checkForUpdates and mergeDownloadedFiles, transport/torrent.go).
THEOREM MergedStays ==
  ASSUME Calm
  PROVE  Spec => [][Merged /\ UNCHANGED <<latest, edits>> => Merged']_vars
<1>1. TypeOK /\ Ordered /\ [Next]_vars
        => [Merged /\ UNCHANGED <<latest, edits>> => Merged']_vars
  <2> SUFFICES ASSUME TypeOK, Ordered, Merged, Next, UNCHANGED <<latest, edits>>
               PROVE  Merged'
    OBVIOUS
  <2>1. ASSUME NEW p \in Poller, NewPoller(p) \/ Advance(p) \/ GiveUp(p)
        PROVE  Merged'
    BY <2>1, PollerMerged
  <2>2. CASE Kill
    BY <2>2, ReceiveAssumption
    DEF Kill, Merged, Files, LastSnapshot, netVars, diskVars
  <2>3. ~Swarm
    BY NoneLoading DEF Swarm, Loaded, LoadBegin, LoadEnd
  <2>4. \A s \in Snapshot : ~Publish(s)
    BY Values DEF Publish, TypeOK
  <2>5. \A f \in Path : ~Edit(f)
    BY Values DEF Edit, TypeOK
  <2> QED BY <2>1, <2>2, <2>3, <2>4, <2>5 DEF Next
<1> QED BY <1>1, TypeCorrect, StaysOrdered, PTL DEF Spec
=============================================================================
