---------------------------- MODULE StoresProofs ----------------------------
(***************************************************************************)
(* Whatever a transport does to names and rows, and wherever a transfer    *)
(* breaks off, the transports that keep names keep contents under them,    *)
(* and a file that was restored is not taken back to another version: for  *)
(* any number of machines, files, edits and failures.                      *)
(***************************************************************************)
EXTENDS Stores, TLAPS

\* A MySQL table has one project only.
OwnTable == "mysql" \in Kinds => \A g, h \in Group : g = h

-----------------------------------------------------------------------------
(* Facts about names and contents                                          *)

\* The name under which a file is stored is a path, and is stored as itself.
LEMMA NameFacts ==
  ASSUME NEW p \in Path
  PROVE  NameOf(p) \in Path /\ NameOf(NameOf(p)) = NameOf(p)
BY StoresAssumption DEF NameOf, Flat

\* NoFile, Broken and the versions are contents, and so is what wraps one; the next
\* version is a version.
LEMMA ContentFacts ==
  /\ NoFile \in Content /\ Broken \in Content /\ Version \subseteq Content
  /\ \A c \in Content : Wrap(c) \in Content
  /\ \A e \in 0 .. MaxEdits : e < MaxEdits => e + 1 \in Version /\ e + 1 \in 0 .. MaxEdits
  /\ 0 \in 0 .. MaxEdits /\ 0 \in 0 .. MaxFailures
  /\ \A e \in 0 .. MaxFailures : e < MaxFailures => e + 1 \in 0 .. MaxFailures
BY StoresAssumption DEF Content, Version, Archive, Wrap, NoFile, Broken

-----------------------------------------------------------------------------
(* The type invariant                                                      *)

StoreType ==
  /\ first \in [Group -> [Path -> Content]]
  /\ last \in [Group -> [Path -> Content]]
  /\ newest \in [Path -> Group]
  /\ announced \in [Group -> Content]

\* One row more keeps the type of the store.
LEMMA AppendType ==
  ASSUME StoreType, NEW g \in Group, NEW n \in Path, NEW c \in Content, Append(g, n, c)
  PROVE  StoreType'
BY DEF StoreType, Append

\* So does whatever a transport makes of an upload.
LEMMA PutType ==
  ASSUME StoreType, NEW g \in Group, NEW n \in Path, NEW c \in Content, Put(g, n, c)
  PROVE  StoreType'
<1>1. CASE kind = "mfs"
  <2>1. WriteInPlace(g, n, c)
    BY <1>1 DEF Put
  <2>2. PICK x \in {c} \cup {Broken : old \in {last[g][n]} \ {NoFile, c}} : Append(g, n, x)
    BY <2>1 DEF WriteInPlace
  <2>3. x \in Content
    BY <2>2, ContentFacts
  <2> QED BY <2>2, <2>3, AppendType
<1>2. CASE kind = "http"
  <2>1. PICK new \in Path : Append(g, new, c)
    BY <1>2 DEF Put, StoreRenamed
  <2> QED BY <2>1, AppendType
<1>3. CASE kind = "hybrid"
  BY <1>3 DEF Put, Announce, StoreType
<1>4. CASE kind \notin {"mfs", "http", "hybrid"}
  BY <1>4, AppendType DEF Put
<1> QED BY <1>1, <1>2, <1>3, <1>4

\* Every Pull of a present or absent name returns a content.
LEMMA FetchType ==
  ASSUME StoreType, NEW g \in Group, NEW n \in Path
  PROVE  Fetch(g, n) \in Content
BY ContentFacts DEF StoreType, Fetch, FetchAnyGroup, FetchOldest, FetchAnnounced

\* Every List returns paths.
LEMMA ListedType ==
  ASSUME TypeOK, NEW m \in Machine
  PROVE  Listed(m) \subseteq Path
BY DEF TypeOK, Listed, ListTop, ListAll, ListPushed, Present, Flat

\* Init establishes the type invariant.
LEMMA InitType == Init => TypeOK
BY StoresAssumption, ContentFacts DEF Init, TypeOK, Nothing

\* Every step preserves the type invariant.
LEMMA StepType == TypeOK /\ [Next]_vars => TypeOK'
<1> SUFFICES ASSUME TypeOK, [Next]_vars PROVE TypeOK'
  OBVIOUS
<1>t. StoreType
  BY DEF TypeOK, StoreType
<1>1. ASSUME NEW m \in Edited, NEW f \in Path, Save(m, f) PROVE TypeOK'
  <2>1. m \in Machine /\ GroupOf[m] \in Group
    BY StoresAssumption
  <2>2. edits + 1 \in Version /\ edits' \in 0 .. MaxEdits
    BY <1>1, ContentFacts DEF Save, TypeOK
  <2> QED BY <1>1, <2>1, <2>2, ContentFacts DEF Save, TypeOK, storeVars, modeVars
<1>2. ASSUME NEW r \in late, StoreLate(r) PROVE TypeOK'
  <2>1. r[1] \in Group /\ r[2] \in Path /\ r[3] \in Content
    BY <1>2 DEF TypeOK
  <2>2. StoreType'
    BY <1>2, <1>t, <2>1, PutType DEF StoreLate
  <2> QED BY <1>2, <2>2 DEF StoreLate, TypeOK, StoreType, userVars, modeVars
<1>3. ASSUME NEW r \in late, DropLate(r) PROVE TypeOK'
  BY <1>3 DEF DropLate, TypeOK, storeVars, userVars, modeVars
<1>4. ASSUME NEW m \in Machine, Cycle(m) PROVE TypeOK'
  <2>1. CASE StartPush(m)
    BY <2>1 DEF StartPush, TypeOK, Goto, Present, storeVars, userVars, modeVars
  <2>2. CASE EndPush(m)
    BY <2>2 DEF EndPush, TypeOK, Goto, storeVars, userVars, modeVars
  <2>3. CASE StartPull(m)
    BY <2>3 DEF StartPull, TypeOK, Goto, storeVars, userVars, modeVars
  <2>4. CASE List(m)
    BY <2>4, ListedType DEF List, TypeOK, Goto, storeVars, userVars, modeVars
  <2>5. CASE EndPull(m)
    BY <2>5 DEF EndPull, TypeOK, Goto, storeVars, userVars, modeVars
  <2>6. ASSUME NEW f \in Path, Push(m, f) PROVE TypeOK'
    <3>1. NameOf(f) \in Path /\ folder[m][f] \in Content /\ GroupOf[m] \in Group
      BY NameFacts, StoresAssumption DEF TypeOK
    <3>2. StoreType'
      BY <2>6, <1>t, <3>1, PutType DEF Push
    <3> QED BY <2>6, <3>2 DEF Push, TypeOK, StoreType, Next1, userVars, modeVars
  <2>7. ASSUME NEW f \in Path, Pull(m, f) PROVE TypeOK'
    <3>1. Fetch(GroupOf[m], f) \in Content
      BY <1>t, FetchType, StoresAssumption
    <3> QED BY <2>7, <3>1 DEF Pull, TypeOK, Next1, storeVars, userVars, modeVars
  <2> QED BY <1>4, <2>1, <2>2, <2>3, <2>4, <2>5, <2>6, <2>7 DEF Cycle
<1>5. ASSUME NEW m \in Machine, Break(m) PROVE TypeOK'
  <2>1. CASE ListFails(m)
    BY <2>1, ContentFacts DEF ListFails, Fail, TypeOK, Goto, storeVars, userVars, modeVars
  <2>2. ASSUME NEW f \in Path, PushFails(m, f) PROVE TypeOK'
    <3>1. /\ GroupOf[m] \in Group /\ NameOf(f) \in Path /\ folder[m][f] \in Content
          /\ failures' \in 0 .. MaxFailures
      BY <2>2, NameFacts, ContentFacts, StoresAssumption DEF TypeOK, PushFails, Fail
    <3>2. CASE UNCHANGED storeVars
      <4>1. late' \subseteq late \cup {<<GroupOf[m], NameOf(f), folder[m][f]>>}
        BY <2>2, <3>2 DEF PushFails
      <4>2. late' \subseteq Group \X Path \X Content
        BY <3>1, <4>1 DEF TypeOK
      <4> QED BY <2>2, <3>1, <3>2, <4>2 DEF PushFails, TypeOK, Next1, storeVars, userVars,
                                           modeVars
    <3>3. CASE Append(GroupOf[m], NameOf(f), Broken) /\ UNCHANGED late
      <4>1. StoreType'
        BY <1>t, <3>1, <3>3, ContentFacts, AppendType
      <4> QED BY <2>2, <3>1, <3>3, <4>1 DEF PushFails, TypeOK, StoreType, Next1, userVars,
                                           modeVars
    <3> QED BY <2>2, <3>2, <3>3 DEF PushFails
  <2>3. ASSUME NEW f \in Path, PullFails(m, f) PROVE TypeOK'
    <3>1. Fetch(GroupOf[m], f) \in Content /\ folder[m][f] \in Content /\ Broken \in Content
      BY <1>t, FetchType, ContentFacts, StoresAssumption DEF TypeOK
    <3>2. PICK c \in Content : folder' = [folder EXCEPT ![m][f] = c]
      BY <2>3, <3>1 DEF PullFails
    <3>3. folder' \in [Machine -> [Path -> Content]]
      BY <3>2 DEF TypeOK
    <3> QED BY <2>3, <3>3, ContentFacts
            DEF PullFails, Fail, TypeOK, Next1, storeVars, userVars, modeVars
  <2> QED BY <1>5, <2>1, <2>2, <2>3 DEF Break
<1>6. CASE UNCHANGED vars
  BY <1>6 DEF vars, storeVars, userVars, modeVars, TypeOK
<1> QED BY <1>1, <1>2, <1>3, <1>4, <1>5, <1>6 DEF Next, UserStep, Server

\* The type invariant of Push, List and Pull over every transport.
THEOREM TypeCorrect == Spec => []TypeOK
BY InitType, StepType, PTL DEF Spec

-----------------------------------------------------------------------------
(* Contents stay under their names                                         *)

\* The rows of a store are under the names of what they hold.
StoreNamed ==
  \A g \in Group, n \in Path : Genuine(g, n, last[g][n]) /\ Genuine(g, n, first[g][n])

NamesInv ==
  /\ TypeOK
  /\ kind \in NameKeeping =>
       /\ StoreNamed
       /\ \A r \in late : Genuine(r[1], r[2], r[3])
       /\ \A m \in Machine, p \in Path : Genuine(GroupOf[m], p, folder[m][p])

\* What is named right stays so: nothing saved and no failure is forgotten.
Remembers ==
  /\ kind' = kind
  /\ saved \subseteq saved'
  /\ failures > 0 => failures' > 0

\* An upload that goes under the name of its content leaves all rows named right.
LEMMA AppendNamed ==
  ASSUME StoreType, StoreNamed, Remembers,
         NEW g \in Group, NEW n \in Path, NEW c,
         Genuine(g, n, c)', Append(g, n, c)
  PROVE  StoreNamed'
<1>1. ASSUME NEW h \in Group, NEW k \in Path
      PROVE  Genuine(h, k, last[h][k])' /\ Genuine(h, k, first[h][k])'
  <2>1. /\ last'[h][k] = IF h = g /\ k = n THEN c ELSE last[h][k]
        /\ first'[h][k] \in {first[h][k], IF h = g /\ k = n THEN c ELSE first[h][k]}
    BY DEF Append, StoreType
  <2>2. Genuine(h, k, last[h][k]) /\ Genuine(h, k, first[h][k])
    BY DEF StoreNamed
  <2> QED BY <2>1, <2>2 DEF Remembers, Genuine, NameOf
<1> QED BY <1>1 DEF StoreNamed

LEMMA PutNamed ==
  ASSUME StoreType, StoreNamed, Remembers, kind \in NameKeeping,
         NEW g \in Group, NEW n \in Path, NEW c,
         Genuine(g, n, c)', Put(g, n, c)
  PROVE  StoreNamed'
BY AppendNamed DEF Put, NameKeeping

\* What a Pull gets under a name was saved under a path with that name.
LEMMA FetchNamed ==
  ASSUME NamesInv, kind \in NameKeeping, NEW g \in Group, NEW n \in Path
  PROVE  Genuine(g, n, Fetch(g, n))
<1>1. CASE kind = "mysql"
  <2>1. newest[n] \in Group
    BY DEF NamesInv, TypeOK
  <2>2. Genuine(newest[n], n, last[newest[n]][n])
    BY <2>1 DEF NamesInv, StoreNamed
  <2> QED BY <1>1, <2>2 DEF Genuine, Fetch, FetchAnyGroup
<1>2. CASE kind # "mysql"
  BY <1>2 DEF NamesInv, NameKeeping, StoreNamed, Fetch, FetchOldest
<1> QED BY <1>1, <1>2

\* What was saved under a path was saved under the name it is stored as.
LEMMA GenuineName ==
  ASSUME NEW g, NEW p \in Path, NEW c, Genuine(g, p, c)
  PROVE  Genuine(g, NameOf(p), c)
BY NameFacts DEF Genuine

\* Init establishes the invariant.
LEMMA InitNames == Init => NamesInv
BY InitType DEF Init, NamesInv, StoreNamed, Genuine, Nothing

\* Every step preserves the invariant.
LEMMA StepNames == NamesInv /\ [Next]_vars => NamesInv'
<1> SUFFICES ASSUME NamesInv, [Next]_vars PROVE NamesInv'
  OBVIOUS
<1>t. TypeOK /\ TypeOK' /\ StoreType
  BY StepType DEF NamesInv, TypeOK, StoreType
<1>k. Remembers
  <2>1. kind' = kind /\ saved \subseteq saved'
    BY DEF Next, UserStep, Server, Cycle, Break, vars, Save, StoreLate, DropLate, StartPush,
           EndPush, StartPull, List, EndPull, Push, Pull, ListFails, PushFails, PullFails,
           modeVars, userVars
  <2>2. failures' = failures \/ Fail
    BY DEF Next, UserStep, Server, Cycle, Break, vars, Save, StoreLate, DropLate, StartPush,
           EndPush, StartPull, List, EndPull, Push, Pull, ListFails, PushFails, PullFails
  <2> QED BY <1>t, <2>1, <2>2 DEF Remembers, Fail, TypeOK
<1>n. CASE kind \notin NameKeeping
  BY <1>n, <1>t, <1>k DEF NamesInv, Remembers
<1>y. CASE kind \in NameKeeping
  <2>h. /\ StoreNamed
        /\ \A r \in late : Genuine(r[1], r[2], r[3])
        /\ \A m \in Machine, p \in Path : Genuine(GroupOf[m], p, folder[m][p])
    BY <1>y DEF NamesInv
  <2>g. \A m \in Machine : GroupOf[m] \in Group
    BY StoresAssumption
  \* What is unchanged is named as before.
  <2>s. ASSUME UNCHANGED storeVars PROVE StoreNamed'
    <3>1. last' = last /\ first' = first
      BY <2>s DEF storeVars
    <3> QED BY <1>k, <2>h, <3>1 DEF StoreNamed, Genuine, NameOf, Remembers
  <2>l. ASSUME late' \subseteq late PROVE \A r \in late' : Genuine(r[1], r[2], r[3])'
    BY <1>k, <2>h, <2>l DEF Genuine, NameOf, Remembers
  <2>f. ASSUME UNCHANGED folder
        PROVE  \A m \in Machine, p \in Path : Genuine(GroupOf[m], p, folder[m][p])'
    BY <1>k, <2>h, <2>f DEF Genuine, NameOf, Remembers
  <2>q. ASSUME StoreNamed', \A r \in late' : Genuine(r[1], r[2], r[3])',
               \A m \in Machine, p \in Path : Genuine(GroupOf[m], p, folder[m][p])'
        PROVE  NamesInv'
    BY <1>t, <2>q DEF NamesInv
  <2>1. ASSUME NEW m \in Edited, NEW f \in Path, Save(m, f) PROVE NamesInv'
    <3>1. UNCHANGED <<storeVars, late>> /\ m \in Machine
      BY <2>1, StoresAssumption DEF Save
    <3>2. ASSUME NEW k \in Machine, NEW p \in Path
          PROVE  Genuine(GroupOf[k], p, folder[k][p])'
      <4>1. CASE k = m /\ p = f
        <5>1. folder'[k][p] = edits + 1 /\ <<GroupOf[k], p, edits + 1>> \in saved'
          BY <1>t, <2>1, <3>1, <4>1 DEF Save, TypeOK
        <5> QED BY <2>g, <5>1 DEF Genuine
      <4>2. CASE ~(k = m /\ p = f)
        <5>1. folder'[k][p] = folder[k][p]
          BY <1>t, <2>1, <4>2 DEF Save, TypeOK
        <5> QED BY <1>k, <2>h, <5>1 DEF Genuine, NameOf, Remembers
      <4> QED BY <4>1, <4>2
    <3> QED BY <2>s, <2>l, <2>q, <3>1, <3>2
  <2>2. ASSUME NEW r \in late, StoreLate(r) PROVE NamesInv'
    <3>1. r[1] \in Group /\ r[2] \in Path /\ Genuine(r[1], r[2], r[3])
      BY <1>t, <2>h DEF TypeOK
    <3>2. Genuine(r[1], r[2], r[3])'
      BY <1>k, <3>1 DEF Genuine, NameOf, Remembers
    <3>3. StoreNamed'
      BY <1>k, <1>t, <1>y, <2>2, <2>h, <3>1, <3>2, PutNamed DEF StoreLate
    <3> QED BY <2>2, <2>l, <2>f, <2>q, <3>3 DEF StoreLate
  <2>u. ASSUME NEW m \in Machine, NEW f \in Path
        PROVE  /\ NameOf(f) \in Path
               /\ Genuine(GroupOf[m], NameOf(f), folder[m][f])
    BY <2>h, NameFacts, GenuineName
  <2>3. ASSUME NEW m \in Machine, NEW f \in Path, Push(m, f) PROVE NamesInv'
    <3>1. Genuine(GroupOf[m], NameOf(f), folder[m][f])
      BY <2>u
    <3>2. NameOf(f) \in Path /\ GroupOf[m] \in Group
      BY <2>g, <2>u
    <3>3. UNCHANGED <<folder, late>> /\ Put(GroupOf[m], NameOf(f), folder[m][f])
      BY <2>3 DEF Push
    <3>4. PICK g \in Group, n \in Path, c \in Content :
            /\ g = GroupOf[m] /\ n = NameOf(f) /\ c = folder[m][f]
      BY <1>t, <3>2 DEF TypeOK
    <3>5. Genuine(g, n, c)'
      BY <1>k, <3>1, <3>4 DEF Genuine, NameOf, Remembers
    <3>6. StoreNamed'
      BY <1>k, <1>t, <1>y, <2>h, <3>3, <3>4, <3>5, PutNamed
    <3> QED BY <2>l, <2>f, <2>q, <3>3, <3>6
  <2>4. ASSUME NEW m \in Machine, NEW f \in Path, PushFails(m, f) PROVE NamesInv'
    <3>1. Genuine(GroupOf[m], NameOf(f), folder[m][f])
      BY <2>u
    <3>2. /\ UNCHANGED folder
          /\ failures' > 0
      BY <1>t, <2>4 DEF PushFails, Fail, TypeOK
    <3>3. CASE /\ UNCHANGED storeVars
               /\ late' \subseteq late \cup {<<GroupOf[m], NameOf(f), folder[m][f]>>}
      <4>1. \A r \in late' : Genuine(r[1], r[2], r[3])
        BY <2>h, <3>1, <3>3
      <4>2. \A r \in late' : Genuine(r[1], r[2], r[3])'
        BY <1>k, <4>1 DEF Genuine, NameOf, Remembers
      <4> QED BY <2>s, <2>f, <2>q, <3>2, <3>3, <4>2
    <3>4. CASE Append(GroupOf[m], NameOf(f), Broken) /\ UNCHANGED late
      <4>1. PICK g \in Group, n \in Path : g = GroupOf[m] /\ n = NameOf(f)
        BY <2>g, <2>u
      <4>2. Genuine(g, n, Broken)'
        BY <3>2 DEF Genuine
      <4>3. StoreNamed'
        BY <1>k, <1>t, <2>h, <3>4, <4>1, <4>2, AppendNamed
      <4> QED BY <2>l, <2>f, <2>q, <3>2, <3>4, <4>3
    <3> QED BY <2>4, <3>3, <3>4 DEF PushFails
  <2>5. ASSUME NEW m \in Machine, NEW f \in Path, NEW c,
               UNCHANGED <<storeVars, late>>, folder' = [folder EXCEPT ![m][f] = c],
               Genuine(GroupOf[m], f, c)'
        PROVE  NamesInv'
    <3>1. ASSUME NEW k \in Machine, NEW p \in Path
          PROVE  Genuine(GroupOf[k], p, folder[k][p])'
      <4>1. folder'[k][p] = IF k = m /\ p = f THEN c ELSE folder[k][p]
        BY <1>t, <2>5 DEF TypeOK
      <4>2. Genuine(GroupOf[k], p, folder[k][p])
        BY <2>h
      <4> QED BY <1>k, <2>5, <4>1, <4>2 DEF Genuine, NameOf, Remembers
    <3> QED BY <2>s, <2>l, <2>q, <2>5, <3>1
  <2>6. ASSUME NEW m \in Machine, NEW f \in Path, Pull(m, f) \/ PullFails(m, f)
        PROVE  NamesInv'
    <3>1. /\ Genuine(GroupOf[m], f, Fetch(GroupOf[m], f))
          /\ Genuine(GroupOf[m], f, folder[m][f])
      BY <1>y, <2>g, <2>h, FetchNamed
    <3>2. PICK c : /\ folder' = [folder EXCEPT ![m][f] = c]
                   /\ \/ c = Fetch(GroupOf[m], f)
                      \/ c = folder[m][f]
                      \/ c = Broken /\ Fail
      BY <2>6 DEF Pull, PullFails
    <3>3. Genuine(GroupOf[m], f, c)'
      <4>1. CASE c = Broken /\ Fail
        BY <1>t, <4>1 DEF Genuine, Fail, TypeOK
      <4>2. CASE Genuine(GroupOf[m], f, c)
        BY <1>k, <4>2 DEF Genuine, NameOf, Remembers
      <4> QED BY <3>1, <3>2, <4>1, <4>2
    <3>4. UNCHANGED <<storeVars, late>>
      BY <2>6 DEF Pull, PullFails
    <3> QED BY <2>5, <3>2, <3>3, <3>4
  <2>7. ASSUME UNCHANGED <<storeVars, folder>>, late' \subseteq late PROVE NamesInv'
    BY <2>s, <2>l, <2>f, <2>q, <2>7
  <2>8. ASSUME NEW m \in Machine,
               \/ StartPush(m) \/ EndPush(m) \/ StartPull(m) \/ List(m) \/ EndPull(m)
               \/ ListFails(m)
        PROVE  NamesInv'
    BY <2>7, <2>8 DEF StartPush, EndPush, StartPull, List, EndPull, ListFails
  <2>9. ASSUME NEW r \in late, DropLate(r) PROVE NamesInv'
    BY <2>7, <2>9 DEF DropLate
  <2>10. CASE UNCHANGED vars
    BY <2>7, <2>10 DEF vars, storeVars
  <2> QED
    BY <2>1, <2>2, <2>3, <2>4, <2>6, <2>8, <2>9, <2>10
    DEF Next, UserStep, Server, Cycle, Break
<1> QED BY <1>n, <1>y

\* Push, List and Pull of the name-keeping transports agree on names, in any
\* order of transfers of any machines, wherever a transfer breaks off and however
\* late an upload is stored.
THEOREM NamesAreKept == Spec => []ContentsKeepNames
<1>1. NamesInv => ContentsKeepNames
  BY DEF NamesInv, ContentsKeepNames
<1> QED BY <1>1, InitNames, StepNames, PTL DEF Spec

-----------------------------------------------------------------------------
(* What is restored stays restored                                         *)

\* A cycle pushes files that are in the folder, and pulls if its direction says so.
CycleInv ==
  \A m \in Machine :
    /\ pc[m] = "push" => \A f \in todo[m] : folder[m][f] # NoFile
    /\ pc[m] \in {"list", "pull"} => direction[m] # "push"

LEMMA CyclesInPhase == Spec => []CycleInv
<1>1. Init => CycleInv
  BY DEF Init, CycleInv
<1>2. TypeOK /\ CycleInv /\ [Next]_vars => CycleInv'
  <2> SUFFICES ASSUME TypeOK, CycleInv, [Next]_vars PROVE CycleInv'
    OBVIOUS
  <2> USE DEF TypeOK, CycleInv, Goto, Next1, Present, modeVars
  <2>1. ASSUME NEW m \in Edited, NEW f \in Path, Save(m, f) PROVE CycleInv'
    <3>1. m \in Machine /\ edits + 1 # NoFile
      BY StoresAssumption DEF NoFile
    <3> QED BY <2>1, <3>1 DEF Save
  <2>2. CASE Server \/ UNCHANGED vars
    BY <2>2 DEF Server, StoreLate, DropLate, vars
  <2>3. ASSUME NEW m \in Machine,
               \/ StartPush(m) \/ EndPush(m) \/ StartPull(m)
               \/ List(m) \/ EndPull(m) \/ ListFails(m)
        PROVE  CycleInv'
    <3>1. CASE StartPush(m)
      BY <3>1 DEF StartPush
    <3>2. CASE EndPush(m) \/ StartPull(m) \/ EndPull(m) \/ ListFails(m)
      BY <3>2 DEF EndPush, StartPull, EndPull, ListFails
    <3>3. CASE List(m)
      BY <3>3 DEF List
    <3> QED BY <2>3, <3>1, <3>2, <3>3
  <2>4. ASSUME NEW m \in Machine, NEW f \in Path, Push(m, f) \/ PushFails(m, f)
        PROVE  CycleInv'
    BY <2>4 DEF Push, PushFails
  <2>5. ASSUME NEW m \in Machine, NEW f \in Path, Pull(m, f) \/ PullFails(m, f)
        PROVE  CycleInv'
    BY <2>5 DEF Pull, PullFails
  <2> QED BY <2>1, <2>2, <2>3, <2>4, <2>5 DEF Next, UserStep, Cycle, Break
<1> QED BY <1>1, <1>2, TypeCorrect, PTL DEF Spec

\* A file that can be restored is the only one with its stored name.
LEMMA RestorableNames ==
  ASSUME NEW f \in Path, NameOf(f) \in Restorable
  PROVE  NameOf(f) = f
BY DEF NameOf, Restorable, Flat

LEMMA RestorableKinds ==
  ASSUME Restorable # {}
  PROVE  kind \in {"mock", "s3", "ftp", "mysql"}
BY DEF Restorable

\* An upload that carries what is stored under its name changes nothing that can
\* be restored.
LEMMA PutKeeps ==
  ASSUME TypeOK, NEW g \in Group, NEW n \in Path, NEW c, Put(g, n, c),
         n \in Restorable => c = last[g][n],
         NEW h \in Group, NEW p \in Restorable
  PROVE  last'[h][p] = last[h][p]
<1>1. kind \in {"mock", "s3", "ftp", "mysql"} /\ p \in Path
  BY RestorableKinds DEF Restorable, Flat
<1>2. Append(g, n, c)
  BY <1>1 DEF Put
<1> QED BY <1>1, <1>2 DEF Append, TypeOK

\* What a pull of such a file gets is its last row.
LEMMA FetchLast ==
  ASSUME OwnTable, TypeOK, NEW g \in Group, NEW p \in Restorable
  PROVE  Fetch(g, p) = last[g][p]
<1>1. kind \in {"mock", "s3", "ftp", "mysql"} /\ p \in Path /\ kind \in Kinds
  BY RestorableKinds DEF Restorable, Flat, TypeOK
<1>2. kind = "mysql" => newest[p] = g
  BY <1>1 DEF OwnTable, TypeOK
<1> QED BY <1>1, <1>2 DEF Fetch, FetchAnyGroup

\* The transport in use stays, and with it the files that can be restored.
LEMMA SameKind ==
  ASSUME [Next]_vars
  PROVE  /\ kind' = kind /\ direction' = direction
         /\ Restorable' = Restorable /\ Restorable \subseteq Path
<1>1. kind' = kind /\ direction' = direction
  BY DEF Next, UserStep, Server, Cycle, Break, Save, StoreLate, DropLate, StartPush,
         EndPush, StartPull, List, EndPull, Push, Pull, ListFails, PushFails, PullFails,
         modeVars, vars
<1> QED BY <1>1 DEF Restorable, Flat

\* Restored says that the machines of a project come to hold the same files, this
\* says that they keep them: no cycle and no upload stored late takes them apart
\* again, over FTP, S3, the mock or a MySQL table of their own, until a user saves
\* a file or a transfer fails.
THEOREM RestoredStays ==
  ASSUME OwnTable
  PROVE  Spec => [][InStep(Restorable) /\ UNCHANGED <<edits, failures>>
                      => InStep(Restorable)']_vars
<1>1. TypeOK /\ CycleInv /\ [Next]_vars
        => [InStep(Restorable) /\ UNCHANGED <<edits, failures>> => InStep(Restorable)']_vars
  <2> SUFFICES ASSUME TypeOK, CycleInv, Next, InStep(Restorable),
                      UNCHANGED <<edits, failures>>
               PROVE  InStep(Restorable)'
    OBVIOUS
  <2>a. direction' = direction /\ Restorable' = Restorable /\ Restorable \subseteq Path
    BY SameKind
  <2>b. /\ \A m \in Machine : GroupOf[m] \in Group
        /\ \A r \in late : r[1] \in Group /\ r[2] \in Path
    BY StoresAssumption DEF TypeOK
  <2>1. ~UserStep /\ ~Fail
    BY StoresAssumption DEF UserStep, Save, Fail, TypeOK
  <2>2. ASSUME UNCHANGED folder, late' \subseteq late,
               \A g \in Group, p \in Restorable : last'[g][p] = last[g][p]
        PROVE  InStep(Restorable)'
    BY <2>2, <2>a, <2>b DEF InStep
  <2>3. ASSUME NEW r \in late, StoreLate(r) PROVE InStep(Restorable)'
    <3>1. r[2] \in Restorable => r[3] = last[r[1]][r[2]]
      BY DEF InStep
    <3>2. \A g \in Group, p \in Restorable : last'[g][p] = last[g][p]
      BY <2>3, <2>b, <3>1, PutKeeps DEF StoreLate
    <3> QED BY <2>2, <2>3, <3>2 DEF StoreLate
  <2>4. ASSUME NEW r \in late, DropLate(r) PROVE InStep(Restorable)'
    BY <2>2, <2>4 DEF DropLate, storeVars
  <2>5. ASSUME NEW m \in Machine, NEW f \in Path, Push(m, f) PROVE InStep(Restorable)'
    <3>1. folder[m][f] # NoFile
      BY <2>5 DEF Push, Next1, CycleInv
    <3>2. NameOf(f) \in Restorable => folder[m][f] = last[GroupOf[m]][NameOf(f)]
      BY <3>1, RestorableNames DEF InStep
    <3>3. \A g \in Group, p \in Restorable : last'[g][p] = last[g][p]
      BY <2>5, <2>b, <3>2, NameFacts, PutKeeps DEF Push
    <3> QED BY <2>2, <2>5, <3>3 DEF Push
  <2>6. ASSUME NEW m \in Machine, NEW n \in Path, Pull(m, n) PROVE InStep(Restorable)'
    <3>1. /\ UNCHANGED <<last, late>>
          /\ folder' = [folder EXCEPT ![m][n] = Fetch(GroupOf[m], n)]
          /\ direction[m] # "push"
      BY <2>6 DEF Pull, storeVars, CycleInv
    <3>2. n \in Restorable => Fetch(GroupOf[m], n) = last[GroupOf[m]][n]
      BY <2>b, FetchLast
    <3>3. \A k \in Machine, p \in Restorable :
            \/ folder'[k][p] = folder[k][p]
            \/ k = m /\ p = n /\ folder'[k][p] = last[GroupOf[k]][p]
      BY <2>a, <3>1, <3>2 DEF TypeOK
    <3>4. n \in Restorable => folder[m][n] = last[GroupOf[m]][n] /\ folder[m][n] # Broken
      BY <3>1 DEF InStep
    <3> QED BY <2>a, <3>1, <3>3, <3>4 DEF InStep
  <2>7. ASSUME NEW m \in Machine,
               StartPush(m) \/ EndPush(m) \/ StartPull(m) \/ List(m) \/ EndPull(m)
        PROVE  InStep(Restorable)'
    <3>1. UNCHANGED <<folder, last, late>>
      BY <2>7 DEF StartPush, EndPush, StartPull, List, EndPull, storeVars
    <3> QED BY <2>2, <3>1
  <2>8. \A m \in Machine : ~Break(m)
    BY <2>1 DEF Break, ListFails, PushFails, PullFails
  <2> QED BY <2>1, <2>3, <2>4, <2>5, <2>6, <2>7, <2>8
      DEF Next, Server, Cycle
<1> QED BY <1>1, TypeCorrect, CyclesInPhase, PTL DEF Spec

\* What failures cannot do: once all whole copies of a file that can be restored
\* are of one version, in folders, in the store and in late uploads, no step makes
\* another version of it appear until a user saves one, in one-way and two-way
\* configs alike.  A failed transfer may leave a broken copy, never an older one.
THEOREM NoOtherVersionReturns ==
  ASSUME OwnTable
  PROVE  Spec => [][Agreed(Restorable) /\ UNCHANGED edits => Agreed(Restorable)']_vars
<1>1. TypeOK /\ [Next]_vars
        => [Agreed(Restorable) /\ UNCHANGED edits => Agreed(Restorable)']_vars
  <2> SUFFICES ASSUME TypeOK, Next, Agreed(Restorable), UNCHANGED edits
               PROVE  Agreed(Restorable)'
    OBVIOUS
  <2>a. Restorable' = Restorable /\ Restorable \subseteq Path
    BY SameKind
  <2>b. /\ \A m \in Machine : GroupOf[m] \in Group
        /\ \A r \in late : r[1] \in Group /\ r[2] \in Path
    BY StoresAssumption DEF TypeOK
  <2>1. ~UserStep
    BY StoresAssumption DEF UserStep, Save, TypeOK
  <2> DEFINE Known(g, p) == Copies(g, p) \cup {NoFile, Broken}
  <2>2. ASSUME \A g \in Group, p \in Restorable :
                 /\ last'[g][p] \in Known(g, p)
                 /\ \A m \in Machine : GroupOf[m] = g => folder'[m][p] \in Known(g, p)
                 /\ \A r \in late' : r[1] = g /\ r[2] = p => r[3] \in Known(g, p)
        PROVE  Agreed(Restorable)'
    <3>1. \A g \in Group, p \in Restorable : Copies(g, p)' \subseteq Known(g, p)
      BY <2>2 DEF Copies
    <3> QED BY <2>a, <3>1 DEF Agreed
  \* What is there now.
  <2>3. \A g \in Group, p \in Restorable :
          /\ last[g][p] \in Known(g, p)
          /\ \A m \in Machine : GroupOf[m] = g => folder[m][p] \in Known(g, p)
          /\ \A r \in late : r[1] = g /\ r[2] = p => r[3] \in Known(g, p)
    BY DEF Copies
  <2> HIDE DEF Known
  \* One row more of a content that is known.
  <2>4. ASSUME NEW h \in Group, NEW n \in Path, NEW c,
               Put(h, n, c) \/ Append(h, n, c),
               n \in Restorable => c \in Known(h, n)
        PROVE  \A g \in Group, p \in Restorable : last'[g][p] \in Known(g, p)
    <3> SUFFICES ASSUME NEW g \in Group, NEW p \in Restorable
                 PROVE  last'[g][p] \in Known(g, p)
      OBVIOUS
    <3>1. kind \in {"mock", "s3", "ftp", "mysql"}
      BY RestorableKinds
    <3>2. Append(h, n, c)
      BY <2>4, <3>1 DEF Put
    <3>3. last'[g][p] = IF g = h /\ p = n THEN c ELSE last[g][p]
      BY <2>a, <3>2 DEF Append, TypeOK
    <3> QED BY <2>3, <2>4, <3>3
  \* What a machine pushes is known under the name it is stored as.
  <2>5. ASSUME NEW m \in Machine, NEW f \in Path, NameOf(f) \in Restorable
        PROVE  folder[m][f] \in Known(GroupOf[m], NameOf(f))
    BY <2>3, <2>5, <2>b, RestorableNames
  <2>6. ASSUME NEW r \in late, StoreLate(r) PROVE Agreed(Restorable)'
    <3>1. /\ r[1] \in Group /\ r[2] \in Path /\ Put(r[1], r[2], r[3])
          /\ late' \subseteq late /\ folder' = folder
      BY <2>6, <2>b DEF StoreLate
    <3>2. r[2] \in Restorable => r[3] \in Known(r[1], r[2])
      BY <2>3, <3>1
    <3>3. \A g \in Group, p \in Restorable : last'[g][p] \in Known(g, p)
      BY <2>4, <3>1, <3>2
    <3> QED BY <2>2, <2>3, <3>1, <3>3
  <2>7. ASSUME NEW m \in Machine, NEW f \in Path, Push(m, f) PROVE Agreed(Restorable)'
    <3>1. /\ GroupOf[m] \in Group /\ NameOf(f) \in Path
          /\ Put(GroupOf[m], NameOf(f), folder[m][f])
          /\ UNCHANGED <<folder, late>>
      BY <2>7, <2>b, NameFacts DEF Push
    <3>2. \A g \in Group, p \in Restorable : last'[g][p] \in Known(g, p)
      BY <2>4, <2>5, <3>1
    <3> QED BY <2>2, <2>3, <3>1, <3>2
  <2>8. ASSUME NEW m \in Machine, NEW f \in Path, PushFails(m, f)
        PROVE  Agreed(Restorable)'
    <3>1. GroupOf[m] \in Group /\ NameOf(f) \in Path /\ UNCHANGED folder
      BY <2>8, <2>b, NameFacts DEF PushFails
    <3>2. CASE /\ UNCHANGED storeVars
               /\ late' \subseteq late \cup {<<GroupOf[m], NameOf(f), folder[m][f]>>}
      <4>1. UNCHANGED last
        BY <3>2 DEF storeVars
      <4>2. \A g \in Group, p \in Restorable :
              \A r \in late' : r[1] = g /\ r[2] = p => r[3] \in Known(g, p)
        BY <2>3, <2>5, <3>1, <3>2
      <4> QED BY <2>2, <2>3, <3>1, <4>1, <4>2
    <3>3. CASE Append(GroupOf[m], NameOf(f), Broken) /\ UNCHANGED late
      <4>1. Broken \in Known(GroupOf[m], NameOf(f))
        BY DEF Known
      <4>2. \A g \in Group, p \in Restorable : last'[g][p] \in Known(g, p)
        BY <2>4, <3>1, <3>3, <4>1
      <4> QED BY <2>2, <2>3, <3>1, <3>3, <4>2
    <3> QED BY <2>8, <3>2, <3>3 DEF PushFails
  <2>9. ASSUME NEW m \in Machine, NEW n \in Path, Pull(m, n) \/ PullFails(m, n)
        PROVE  Agreed(Restorable)'
    <3>1. PICK c \in {folder[m][n], Broken, Fetch(GroupOf[m], n)} :
            folder' = [folder EXCEPT ![m][n] = c]
      BY <2>9 DEF Pull, PullFails
    <3>2. UNCHANGED <<last, late>>
      BY <2>9 DEF Pull, PullFails, storeVars
    <3>3. n \in Restorable => c \in Known(GroupOf[m], n)
      <4>1. n \in Restorable => Fetch(GroupOf[m], n) = last[GroupOf[m]][n]
        BY <2>b, FetchLast
      <4>2. Broken \in Known(GroupOf[m], n)
        BY DEF Known
      <4> QED BY <2>3, <2>b, <3>1, <4>1, <4>2
    <3>4. \A k \in Machine, p \in Restorable :
            folder'[k][p] = IF k = m /\ p = n THEN c ELSE folder[k][p]
      BY <2>a, <3>1 DEF TypeOK
    <3>5. \A g \in Group, p \in Restorable : \A k \in Machine :
            GroupOf[k] = g => folder'[k][p] \in Known(g, p)
      BY <2>3, <3>3, <3>4
    <3> QED BY <2>2, <2>3, <3>2, <3>5
  <2>10. ASSUME UNCHANGED <<folder, last>>, late' \subseteq late PROVE Agreed(Restorable)'
    BY <2>2, <2>3, <2>10
  <2>11. ASSUME NEW r \in late, DropLate(r) PROVE Agreed(Restorable)'
    BY <2>10, <2>11 DEF DropLate, storeVars
  <2>12. ASSUME NEW m \in Machine,
                \/ StartPush(m) \/ EndPush(m) \/ StartPull(m) \/ List(m) \/ EndPull(m)
                \/ ListFails(m)
         PROVE  Agreed(Restorable)'
    <3>1. UNCHANGED <<folder, last, late>>
      BY <2>12 DEF StartPush, EndPush, StartPull, List, EndPull, ListFails, storeVars
    <3> QED BY <2>10, <3>1
  <2> QED BY <2>1, <2>6, <2>7, <2>8, <2>9, <2>11, <2>12 DEF Next, Server, Cycle, Break
<1> QED BY <1>1, TypeCorrect, PTL DEF Spec
=============================================================================
