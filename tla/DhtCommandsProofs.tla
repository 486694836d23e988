------------------------- MODULE DhtCommandsProofs -------------------------
(* Theorems about DhtCommands, for any number of daemons, commands, nodes, *)
(* pids and ports, and every bound.                                        *)
EXTENDS DhtCommands, TLAPS

\* The steps, one by one.
Happens ==
  \/ \E d \in Daemon, i \in Pid, p \in Port : StartDaemon(d, i, p)
  \/ \E d \in Daemon : WritePid(d) \/ WritePort(d) \/ RegisterFails(d) \/ Die(d)
  \/ \E i \in Pid : ForeignPid(i)
  \/ \E x \in Peer : Lose(x)

Asks(c) == Run(c) \/ ReadPort(c) \/ CheckProcess(c) \/ Send(c)

Works(c) ==
  \/ StorePut(c) \/ StoreGet(c) \/ LookupEnd(c) \/ Broken(c)
  \/ \E x \in Peer : PutAt(c, x) \/ GetFrom(c, x)

LEMMA Steps ==
  [Next]_vars <=> Happens \/ (\E c \in Command : Asks(c) \/ Works(c)) \/ UNCHANGED vars
BY DEF Next, Happens, Asks, Works, Step, Register

-----------------------------------------------------------------------------
(* Types                                                                   *)

LEMMA Values ==
  /\ MaxDaemons \in Nat /\ MaxSeq \in Nat /\ MaxAccidents \in Nat
  /\ NoOne \notin Daemon /\ NoOne \notin Command /\ NoOne \notin Pid /\ NoOne \notin Port
  /\ \A d \in Daemon : d \notin Node /\ d \notin Command /\ d # Free /\ d # Foreign
  /\ Free # Foreign
  /\ NoItem \in Store /\ NoItem \notin Item /\ NoItem.seq = 0
  /\ \A i \in Item : i \in Store /\ i.seq \in 1 .. MaxSeq /\ i # NoItem
  /\ \A i \in Store : i.seq \in 0 .. MaxSeq /\ (i = NoItem <=> i.seq = 0)
BY DhtAssumption DEF NoItem, Store, Item

LEMMA NoPeer == Command \cap Peer = {}
BY DhtAssumption DEF Peer

LEMMA TypeInit == Init => TypeOK
BY Values DEF Init, TypeOK, Peer

LEMMA HappensType ==
  ASSUME TypeOK, Happens
  PROVE  TypeOK'
<1> USE Values DEF TypeOK, commandVars, daemonVars
<1>1. ASSUME NEW d \in Daemon, NEW i \in Pid, NEW p \in Port, StartDaemon(d, i, p)
      PROVE  TypeOK'
  BY <1>1 DEF StartDaemon, Daemon
<1>2. ASSUME NEW d \in Daemon, WritePid(d) PROVE TypeOK'
  BY <1>2 DEF WritePid
<1>3. ASSUME NEW d \in Daemon, WritePort(d) PROVE TypeOK'
  BY <1>3 DEF WritePort
<1>f. ASSUME NEW d \in Daemon, RegisterFails(d) PROVE TypeOK'
  BY <1>f DEF RegisterFails, Accident
<1>4. ASSUME NEW d \in Daemon, Die(d) PROVE TypeOK'
  BY <1>4 DEF Die, Vanish
<1>5. ASSUME NEW i \in Pid, ForeignPid(i) PROVE TypeOK'
  BY <1>5 DEF ForeignPid, Accident
<1>6. ASSUME NEW x \in Peer, Lose(x) PROVE TypeOK'
  BY <1>6 DEF Lose, Accident
<1> QED BY <1>1, <1>2, <1>3, <1>f, <1>4, <1>5, <1>6 DEF Happens

LEMMA AsksType ==
  ASSUME TypeOK, NEW c \in Command, Asks(c)
  PROVE  TypeOK'
<1> USE Values DEF TypeOK, daemonVars, Goto, WorkAt
<1>1. CASE Run(c)
  <2>1. ASSUME NEW s \in 1 .. MaxSeq PROVE [seq |-> s, by |-> c] \in Item
    BY DEF Item
  <2>2. UNCHANGED <<proc, listener, reg, newest, dbPid, dbPort, store, port, at, asked,
                    floor, acked, accidents>>
    BY <1>1 DEF Run
  <2>3. pid' = [pid EXCEPT ![c] = dbPid] /\ pc' = [pc EXCEPT ![c] = "port"] /\ pc[c] = "idle"
    BY <1>1 DEF Run
  <2>4. CASE \E s \in 1 .. MaxSeq : /\ op' = [op EXCEPT ![c] = "put"]
                                    /\ item' = [item EXCEPT ![c] = [seq |-> s, by |-> c]]
    BY <2>1, <2>2, <2>3, <2>4
  <2>5. CASE op' = [op EXCEPT ![c] = "get"] /\ item' = item
    BY <2>2, <2>3, <2>5
  <2> QED BY <1>1, <2>4, <2>5 DEF Run
<1>2. CASE ReadPort(c)
  BY <1>2 DEF ReadPort
<1>3. CASE CheckProcess(c)
  BY <1>3 DEF CheckProcess
<1>4. CASE Send(c)
  BY <1>4 DEF Send, Live
<1> QED BY <1>1, <1>2, <1>3, <1>4 DEF Asks

LEMMA AnswerType ==
  ASSUME TypeOK, NEW c \in Command, Answer(c)
  PROVE  /\ pc' = [pc EXCEPT ![c] = "done"] /\ at' = [at EXCEPT ![c] = NoOne]
         /\ asked' \in [Command -> SUBSET Peer]
         /\ floor' \in [Command -> 0 .. MaxSeq] /\ acked' \in [Daemon -> 0 .. MaxSeq]
<1>1. /\ pc' = [pc EXCEPT ![c] = "done"] /\ at' = [at EXCEPT ![c] = NoOne]
      /\ asked' \in [Command -> SUBSET Peer]
      /\ floor' \in [Command -> 0 .. MaxSeq]
  BY Values DEF Answer, TypeOK, Goto
<1>2. item[c].seq \in 0 .. MaxSeq
  BY Values DEF TypeOK
<1>3. acked' \in [Daemon -> 0 .. MaxSeq]
  BY <1>2 DEF Answer, TypeOK
<1> QED BY <1>1, <1>3

\* The part of TypeOK that relates the variables of one command.
CommandOK(c) ==
  /\ op[c] = "put" => item[c] \in Item
  /\ at[c] \in Command => at[c] = c
  /\ at[c] # NoOne <=> pc[c] \in {"local", "lookup"}

\* A command ends with at = NoOne.
LEMMA EndType ==
  ASSUME TypeOK, NEW c \in Command, NEW l \in {"done", "failed"},
         pc' = [pc EXCEPT ![c] = l], at' = [at EXCEPT ![c] = NoOne],
         op[c] = "get" \/ item' = item, op' = op,
         \A e \in Command \ {c} : item'[e] = item[e]
  PROVE  \A e \in Command : CommandOK(e)'
<1> SUFFICES ASSUME NEW e \in Command PROVE CommandOK(e)'
  OBVIOUS
<1>1. CASE e = c
  <2>1. pc'[c] = l /\ at'[c] = NoOne
    BY DEF TypeOK
  <2> QED BY <1>1, <2>1, Values DEF CommandOK, TypeOK
<1>2. CASE e # c
  <2>1. pc'[e] = pc[e] /\ at'[e] = at[e] /\ item'[e] = item[e]
    BY <1>2 DEF TypeOK
  <2> QED BY <2>1 DEF CommandOK, TypeOK
<1> QED BY <1>1, <1>2

LEMMA WorksType ==
  ASSUME TypeOK, NEW c \in Command, Works(c)
  PROVE  TypeOK'
<1> USE Values DEF TypeOK, daemonVars, Goto, WorkAt, Refused, Delegated, Peer
<1>1. CASE StorePut(c)
  <2>1. /\ op[c] = "put" /\ pc[c] = "local" /\ at[c] # NoOne
        /\ UNCHANGED <<daemonVars, op, item, pid, port, acked, accidents>>
    BY <1>1 DEF StorePut
  <2>2. CASE Delegated(c) /\ ~Accepts(store[at[c]], item[c])
    <3>1. /\ pc' = [pc EXCEPT ![c] = "local"] /\ at' = [at EXCEPT ![c] = c]
          /\ asked' = [asked EXCEPT ![c] = {}] /\ floor' = [floor EXCEPT ![c] = 0]
          /\ store' = store
      BY <1>1, <2>2 DEF StorePut
    <3> HIDE DEF Refused
    <3> QED BY <2>1, <3>1
  <2>3. CASE ~(Delegated(c) /\ ~Accepts(store[at[c]], item[c]))
    <3>1. /\ pc' = [pc EXCEPT ![c] = "lookup"] /\ UNCHANGED <<at, floor>>
          /\ store' = [x \in Peer |-> IF x = at[c] THEN item[c] ELSE store[x]]
          /\ asked' = [asked EXCEPT ![c] = {at[c]} \cap Daemon]
      BY <1>1, <2>3 DEF StorePut
    <3> QED BY <2>1, <3>1
  <2> QED BY <2>2, <2>3
<1>2. CASE StoreGet(c)
  <2>1. CASE Delegated(c) /\ store[at[c]] # NoItem
    <3>1. /\ op[c] = "get" /\ at[c] \in Peer
          /\ item' = [item EXCEPT ![c] = store[at[c]]]
          /\ Answer(c) /\ UNCHANGED <<daemonVars, store, op, pid, port, accidents>>
      BY <1>2, <2>1 DEF StoreGet
    <3>2. \A e \in Command : CommandOK(e)'
      BY <3>1, AnswerType, EndType
    <3>3. item' \in [Command -> Store]
      BY <3>1
    <3>4. UNCHANGED <<daemonVars, store, op, pid, port, accidents>>
      BY <3>1
    <3>5. /\ pc' = [pc EXCEPT ![c] = "done"] /\ at' = [at EXCEPT ![c] = NoOne]
          /\ asked' \in [Command -> SUBSET Peer]
          /\ floor' \in [Command -> 0 .. MaxSeq] /\ acked' \in [Daemon -> 0 .. MaxSeq]
      BY <3>1, AnswerType
    <3> QED BY <3>2, <3>3, <3>4, <3>5 DEF CommandOK
  <2>2. CASE ~(Delegated(c) /\ store[at[c]] # NoItem)
    BY <1>2, <2>2 DEF StoreGet
  <2> QED BY <2>1, <2>2
<1>3. CASE LookupEnd(c)
  <2>1. UNCHANGED <<daemonVars, store, op, item, pid, port, accidents>>
        /\ ((Refused(c) /\ UNCHANGED acked) \/ Answer(c))
    BY <1>3 DEF LookupEnd
  <2>2. CASE Refused(c) /\ UNCHANGED acked /\ Delegated(c)
    <3>1. /\ pc' = [pc EXCEPT ![c] = "local"] /\ at' = [at EXCEPT ![c] = c]
          /\ asked' = [asked EXCEPT ![c] = {}] /\ floor' = [floor EXCEPT ![c] = 0]
      BY <2>2
    <3>2. UNCHANGED <<daemonVars, store, op, item, pid, port, acked, accidents>>
      BY <2>1, <2>2
    <3> HIDE DEF Refused
    <3> QED BY <3>1, <3>2
  <2>3. CASE Refused(c) /\ UNCHANGED acked /\ ~Delegated(c)
    <3>1. \A e \in Command : CommandOK(e)'
      BY <2>1, <2>3, EndType
    <3> QED BY <2>1, <2>3, <3>1 DEF CommandOK
  <2>4. CASE Answer(c)
    <3>1. \A e \in Command : CommandOK(e)'
      BY <2>1, <2>4, AnswerType, EndType
    <3> QED BY <2>1, <2>4, <3>1, AnswerType DEF CommandOK
  <2> QED BY <2>1, <2>2, <2>3, <2>4
<1>4. CASE Broken(c)
  BY <1>4 DEF Broken
<1>5. ASSUME NEW x \in Peer, PutAt(c, x) PROVE TypeOK'
  BY <1>5 DEF PutAt
<1>6. ASSUME NEW x \in Peer, GetFrom(c, x) PROVE TypeOK'
  BY <1>6 DEF GetFrom
<1> QED BY <1>1, <1>2, <1>3, <1>4, <1>5, <1>6 DEF Works

\* The type invariant: among others, a put never loses its item.
THEOREM TypeCorrect == Spec => []TypeOK
<1>1. TypeOK /\ [Next]_vars => TypeOK'
  <2> SUFFICES ASSUME TypeOK, [Next]_vars PROVE TypeOK'
    OBVIOUS
  <2>1. CASE UNCHANGED vars
    BY <2>1 DEF TypeOK, vars
  <2> QED BY <2>1, Steps, HappensType, AsksType, WorksType
<1> QED BY <1>1, TypeInit, PTL DEF Spec
-----------------------------------------------------------------------------
(* InfoOfNewest                                                            *)

LEMMA RegStep ==
  ASSUME TypeOK, RegInv, [Next]_vars
  PROVE  RegInv'
<1> USE Values DEF RegInv, TypeOK, Live, commandVars, daemonVars
<1> SUFFICES ASSUME OneAtATime PROVE RegInv'
  OBVIOUS
<1>1. ASSUME NEW d \in Daemon, NEW i \in Pid, NEW p \in Port, StartDaemon(d, i, p)
      PROVE  RegInv'
  BY <1>1 DEF StartDaemon
<1>2. ASSUME NEW d \in Daemon, WritePid(d) PROVE RegInv'
  BY <1>2 DEF WritePid
<1>3. ASSUME NEW d \in Daemon, WritePort(d) PROVE RegInv'
  BY <1>3 DEF WritePort
<1>f. ASSUME NEW d \in Daemon, RegisterFails(d) PROVE RegInv'
  BY <1>f DEF RegisterFails, Accident
<1>4. ASSUME NEW d \in Daemon, Die(d) PROVE RegInv'
  BY <1>4 DEF Die, Vanish
<1>5. ASSUME NEW i \in Pid, ForeignPid(i) PROVE RegInv'
  BY <1>5 DEF ForeignPid
<1>6. CASE UNCHANGED daemonVars
  BY <1>6
<1>7. ASSUME NEW x \in Peer, Lose(x) PROVE UNCHANGED daemonVars
  BY <1>7 DEF Lose
<1>8. ASSUME NEW c \in Command, Asks(c) PROVE UNCHANGED daemonVars
  BY <1>8 DEF Asks, Run, ReadPort, CheckProcess, Send
<1>9. ASSUME NEW c \in Command, Works(c) PROVE UNCHANGED daemonVars
  BY <1>9 DEF Works, StorePut, StoreGet, LookupEnd, Broken, PutAt, GetFrom
<1>10. CASE UNCHANGED vars
  BY <1>10 DEF vars
<1> QED
  BY <1>1, <1>2, <1>3, <1>f, <1>4, <1>5, <1>6, <1>7, <1>8, <1>9, <1>10, Steps DEF Happens

\* The pid and port in the settings lead to the newest daemon while it lives, if it
\* could write them: InfoOfNewest (startDHTDaemon, SetDaemonInfo).
THEOREM NewestIsFound == Spec => []InfoOfNewest
<1>1. Init => RegInv
  BY Values DEF Init, RegInv, Live
<1>2. RegInv => InfoOfNewest
  BY DEF RegInv, InfoOfNewest
<1> QED BY <1>1, <1>2, TypeCorrect, RegStep, PTL DEF Spec

-----------------------------------------------------------------------------
(* PublishedIsHeld and ReadsOwnWrites                                      *)

LEMMA HappensStore ==
  ASSUME TypeOK, TypeOK', StoreInv, Happens
  PROVE  StoreInv'
<1> USE Values DEF StoreInv, DaemonInv, CommandInv, TypeOK, Live, Peer, commandVars
<1>1. ASSUME NEW d \in Daemon, NEW i \in Pid, NEW p \in Port, StartDaemon(d, i, p)
      PROVE  StoreInv'
  <2>1. d = newest + 1 /\ newest' = d /\ newest \in Nat
        /\ UNCHANGED <<store, op, item, pc, at, asked, floor, acked>>
    BY <1>1 DEF StartDaemon
  <2>2. \A e \in Daemon : (e \in Live' <=> e \in Live \/ e = d) /\ e \in Nat
    BY <1>1 DEF StartDaemon, Daemon
  <2>3. DaemonInv'
    <3> SUFFICES ASSUME NEW e \in Daemon
                 PROVE  /\ e > d => e \notin Live' /\ acked[e] = 0
                        /\ e \in Live' => acked[e] <= store[e].seq
      BY <2>1
    <3>1. e > d => e > newest /\ e # d
      BY <2>1, <2>2
    <3>2. e = d => acked[e] = 0 /\ store[e].seq \in Nat
      BY <2>1
    <3> QED BY <2>2, <3>1, <3>2
  <2>4. ASSUME NEW c \in Command PROVE CommandInv(c)'
    <3>1. d \notin asked[c] /\ at[c] # d
      BY <2>1
    <3>2. \A e \in Daemon : e <= newest => e <= newest'
      BY <2>1, <2>2
    <3>3. \A x \in asked[c] \cap (Node \cup Live') : x \in Node \cup Live
      BY <2>2, <3>1
    <3>4. at[c] \in Live' => at[c] \in Live
      BY <2>2, <3>1
    <3> HIDE DEF Live
    <3> QED BY <2>1, <3>2, <3>3, <3>4
  <2> QED BY <2>3, <2>4
<1>2. ASSUME NEW d \in Daemon, WritePid(d) PROVE StoreInv'
  BY <1>2 DEF WritePid
<1>3. ASSUME NEW d \in Daemon, WritePort(d) PROVE StoreInv'
  BY <1>3 DEF WritePort
<1>f. ASSUME NEW d \in Daemon, RegisterFails(d) PROVE StoreInv'
  BY <1>f DEF RegisterFails, Accident
<1>4. ASSUME NEW d \in Daemon, Die(d) PROVE StoreInv'
  BY <1>4 DEF Die, Vanish
<1>5. ASSUME NEW i \in Pid, ForeignPid(i) PROVE StoreInv'
  BY <1>5 DEF ForeignPid
<1>6. ASSUME NEW x \in Peer, Lose(x) PROVE StoreInv'
  <2>1. UNCHANGED <<newest, reg, op, item, pc, at>>
    BY <1>6 DEF Lose, daemonVars
  <2>2. /\ \A y \in Peer : y # x => store'[y] = store[y]
        /\ \A d \in Daemon : acked'[d] = IF d = x THEN 0 ELSE acked[d]
        /\ \A c \in Command : floor'[c] = IF at[c] = x THEN 0 ELSE floor[c]
        /\ \A c \in Command : asked'[c] = asked[c] \ {x}
    BY <1>6 DEF Lose
  <2>3. store'[x].seq = 0
    BY <1>6 DEF Lose
  <2>4. DaemonInv'
    BY <2>1, <2>2, <2>3
  <2>5. ASSUME NEW c \in Command PROVE CommandInv(c)'
    BY <2>1, <2>2, <2>3
  <2> QED BY <2>4, <2>5
<1> QED BY <1>1, <1>2, <1>3, <1>f, <1>4, <1>5, <1>6 DEF Happens

\* Steps of one command leave the others alone, and the stores only grow.
LEMMA OthersStore ==
  ASSUME TypeOK, TypeOK', StoreInv, NEW e \in Command, UNCHANGED daemonVars,
         \A x \in Node \cup Live : store'[x].seq >= store[x].seq,
         op'[e] = op[e], item'[e] = item[e], pc'[e] = pc[e], at'[e] = at[e],
         asked'[e] = asked[e], floor'[e] = floor[e]
  PROVE  CommandInv(e)'
<1> USE Values DEF StoreInv, CommandInv, TypeOK, Live, Peer, daemonVars
<1>1. \A x \in Node \cup Live : store'[x].seq \in Nat /\ store[x].seq \in Nat
  OBVIOUS
<1>2. item[e].seq \in Nat /\ floor[e] \in Nat
  OBVIOUS
<1>3. Live' = Live /\ newest' = newest
  OBVIOUS
<1>4. op[e] = "put" =>
        \A x \in asked[e] \cap (Node \cup Live) : store'[x].seq >= item[e].seq
  BY <1>1, <1>2
<1>5. at[e] \in Live => floor[e] <= store'[at[e]].seq
  BY <1>1, <1>2
<1> QED BY <1>3, <1>4, <1>5

LEMMA AsksStore ==
  ASSUME TypeOK, TypeOK', StoreInv, NEW c \in Command, Asks(c)
  PROVE  StoreInv'
<1>1. UNCHANGED <<daemonVars, store, asked, acked>>
  BY DEF Asks, Run, ReadPort, CheckProcess, Send
<1>2. DaemonInv'
  BY <1>1 DEF StoreInv, DaemonInv, Live, daemonVars
<1>3. ASSUME NEW e \in Command, e # c PROVE CommandInv(e)'
  <2>1. /\ op'[e] = op[e] /\ item'[e] = item[e] /\ pc'[e] = pc[e]
        /\ at'[e] = at[e] /\ floor'[e] = floor[e]
    BY <1>3 DEF Asks, Run, ReadPort, CheckProcess, Send, TypeOK, Goto, WorkAt
  <2>2. \A x \in Node \cup Live : store'[x].seq >= store[x].seq
    BY <1>1, Values DEF TypeOK, Peer, Live
  <2> QED BY <1>1, <2>1, <2>2, OthersStore
<1>4. asked[c] = {} /\ pc'[c] \notin {"lookup", "done"}
  BY DEF Asks, Run, ReadPort, CheckProcess, Send, StoreInv, CommandInv, TypeOK, Goto, WorkAt
<1>5. ASSUME at'[c] \in Daemon
      PROVE  at'[c] \in Live /\ floor'[c] <= acked[at'[c]]
  <2>1. at[c] = NoOne
    BY DEF Asks, Run, ReadPort, CheckProcess, Send, TypeOK
  <2>2. CASE Send(c)
    <3>1. PICK d \in Live : at'[c] = d /\ floor'[c] \in {acked[d], 0}
      BY <1>5, <2>2, Values DEF Send, WorkAt, TypeOK
    <3> QED BY <3>1 DEF TypeOK, Live
  <2>3. CASE ~Send(c)
    BY <1>5, <2>1, <2>3, Values DEF Asks, Run, ReadPort, CheckProcess, WorkAt, TypeOK
  <2> QED BY <2>2, <2>3
<1>6. ASSUME at'[c] \in Daemon
      PROVE  at'[c] <= newest /\ floor'[c] <= store[at'[c]].seq
  <2>1. at'[c] \in Live /\ acked[at'[c]] <= store[at'[c]].seq
    BY <1>5, <1>6 DEF StoreInv, DaemonInv
  <2>2. /\ floor'[c] \in Nat /\ acked[at'[c]] \in Nat /\ store[at'[c]].seq \in Nat
        /\ newest \in Nat /\ at'[c] \in Nat
    BY <1>6, Values DEF TypeOK, Peer, Daemon
  <2> QED BY <1>5, <1>6, <2>1, <2>2 DEF StoreInv, DaemonInv
<1>7. CommandInv(c)'
  BY <1>1, <1>4, <1>6 DEF CommandInv, Live, daemonVars
<1> QED BY <1>2, <1>3, <1>7 DEF StoreInv

\* The store of the peer x takes the item of c, unless it holds a newer one.
LEMMA AcceptGrows ==
  ASSUME TypeOK, NEW c \in Command, NEW x \in Peer,
         store' = [store EXCEPT ![x] = IF Accepts(@, item[c]) THEN item[c] ELSE @]
  PROVE  /\ \A y \in Peer : store'[y].seq >= store[y].seq
         /\ store'[x].seq >= item[c].seq
<1>1. \A y \in Peer : store[y].seq \in Nat
  BY Values DEF TypeOK
<1>2. item[c].seq \in Nat
  BY Values DEF TypeOK
<1>3. \A y \in Peer : y # x => store'[y] = store[y]
  BY DEF TypeOK
<1>4. store'[x] = IF Accepts(store[x], item[c]) THEN item[c] ELSE store[x]
  BY DEF TypeOK
<1>5. store'[x].seq >= item[c].seq /\ store'[x].seq >= store[x].seq
  BY <1>1, <1>2, <1>4 DEF Accepts
<1> QED BY <1>1, <1>3, <1>5

LEMMA WorksGrows ==
  ASSUME TypeOK, NEW c \in Command, Works(c)
  PROVE  /\ UNCHANGED daemonVars
         /\ \A x \in Peer : store'[x].seq >= store[x].seq
         /\ \A e \in Command \ {c} :
              /\ op'[e] = op[e] /\ item'[e] = item[e] /\ pc'[e] = pc[e]
              /\ at'[e] = at[e] /\ asked'[e] = asked[e] /\ floor'[e] = floor[e]
<1>1. UNCHANGED daemonVars
  BY DEF Works, StorePut, StoreGet, LookupEnd, Broken, PutAt, GetFrom
<1>2. \A e \in Command \ {c} :
        /\ op'[e] = op[e] /\ item'[e] = item[e] /\ pc'[e] = pc[e]
        /\ at'[e] = at[e] /\ asked'[e] = asked[e] /\ floor'[e] = floor[e]
  BY DEF Works, StorePut, StoreGet, LookupEnd, Broken, PutAt, GetFrom, Answer,
         Refused, WorkAt, Goto, TypeOK
<1>3. ASSUME NEW x \in Peer, PutAt(c, x)
      PROVE  \A y \in Peer : store'[y].seq >= store[y].seq
  BY <1>3, AcceptGrows DEF PutAt
<1>4. ASSUME store' = store PROVE \A y \in Peer : store'[y].seq >= store[y].seq
  BY <1>4, Values DEF TypeOK
<1>5. ASSUME StorePut(c), store' # store
      PROVE  \A y \in Peer : store'[y].seq >= store[y].seq
  <2>1. Delegated(c) => Accepts(store[at[c]], item[c])
    BY <1>5 DEF StorePut
  <2>2. store' = [x \in Peer |-> IF x = at[c] THEN item[c] ELSE store[x]]
    BY <1>5 DEF StorePut
  <2>3. \A y \in Peer : store[y].seq \in Nat /\ item[c].seq \in Nat
    BY Values DEF TypeOK
  <2>4. at[c] \in Peer => Delegated(c)
    BY <1>5, NoPeer DEF Delegated, StorePut, TypeOK
  <2> QED BY <2>1, <2>2, <2>3, <2>4 DEF Accepts
<1>6. store' = store \/ StorePut(c) \/ \E x \in Peer : PutAt(c, x)
  BY DEF Works, StoreGet, LookupEnd, Broken, GetFrom
<1> QED BY <1>1, <1>2, <1>3, <1>4, <1>5, <1>6

LEMMA FloorGrows ==
  ASSUME TypeOK, TypeOK', StoreInv, NEW c \in Command, at[c] \in Live,
         \A x \in Peer : store'[x].seq >= store[x].seq
  PROVE  floor[c] <= store'[at[c]].seq
<1>1. at[c] \in Peer /\ floor[c] <= store[at[c]].seq
  BY DEF StoreInv, CommandInv, Live, Peer
<1>2. floor[c] \in Nat /\ store[at[c]].seq \in Nat /\ store'[at[c]].seq \in Nat
  BY <1>1, Values DEF TypeOK
<1> QED BY <1>1, <1>2

LEMMA LiveStarted ==
  ASSUME TypeOK, StoreInv, NEW d \in Daemon, d \in Node \cup Live
  PROVE  d <= newest
<1>1. d \in Live
  BY Values
<1>2. d \in Nat /\ newest \in Nat
  BY DEF Daemon, TypeOK
<1> QED BY <1>1, <1>2 DEF StoreInv, DaemonInv

\* What the steps of a command leave of its own invariant.
LEMMA WorksCommand ==
  ASSUME TypeOK, TypeOK', StoreInv, NEW c \in Command, Works(c)
  PROVE  CommandInv(c)'
<1> USE Values DEF StoreInv, CommandInv, TypeOK
<1>1. UNCHANGED daemonVars
      /\ \A x \in Peer : store'[x].seq >= store[x].seq
  BY WorksGrows
<1>2. Live' = Live /\ newest' = newest
  BY <1>1 DEF Live, daemonVars
<1>3. ASSUME at'[c] \notin Daemon, asked'[c] = {}
      PROVE  CommandInv(c)'
  BY <1>2, <1>3 DEF Live
<1>4. CASE Refused(c)
  BY <1>3, <1>4 DEF Refused, WorkAt
<1>5. CASE Answer(c) /\ op[c] = "get"
  BY <1>3, <1>5 DEF Answer
<1>6. CASE StorePut(c) /\ ~Refused(c)
  <2>1. /\ op[c] = "put" /\ UNCHANGED <<op, item, at, floor>>
        /\ pc' = [pc EXCEPT ![c] = "lookup"]
        /\ asked' = [asked EXCEPT ![c] = {at[c]} \cap Daemon]
        /\ store' = [x \in Peer |-> IF x = at[c] THEN item[c] ELSE store[x]]
    BY <1>6 DEF StorePut, Goto
  <2>2. asked'[c] = {at[c]} \cap Daemon /\ item[c].seq \in Nat
    BY <2>1
  <2>3. \A x \in asked'[c] : x \in Peer /\ store'[x] = item[c]
    BY <2>1, <2>2 DEF Peer
  <2>4. at[c] \in Live => floor[c] <= store'[at[c]].seq
    BY <1>1, FloorGrows
  <2>5. \A d \in asked'[c] \cap Daemon : d <= newest
    BY <2>2
  <2> QED BY <1>2, <2>1, <2>2, <2>3, <2>4, <2>5
<1>7. CASE StoreGet(c) /\ ~Answer(c)
  <2>1. /\ op[c] = "get" /\ UNCHANGED <<op, item, at, asked, floor, store>>
        /\ pc' = [pc EXCEPT ![c] = "lookup"] /\ pc[c] = "local"
        /\ Delegated(c) => store[at[c]] = NoItem
    BY <1>7 DEF StoreGet, Goto
  <2>2. at[c] \in Live => floor[c] = 0
    BY <2>1 DEF Live, Delegated
  <2> QED BY <1>2, <2>1, <2>2
<1>8. CASE LookupEnd(c) /\ Answer(c) /\ op[c] # "get"
  <2>1. pc[c] = "lookup" /\ UNCHANGED <<op, item, store>> /\ asked'[c] = asked[c]
        /\ at'[c] = NoOne /\ pc'[c] = "done"
    BY <1>8 DEF LookupEnd, Answer, Goto
  <2> QED BY <1>2, <2>1 DEF Live
<1>9. ASSUME NEW x \in Peer, PutAt(c, x) PROVE CommandInv(c)'
  <2>1. /\ UNCHANGED <<op, item, pc, at, floor>> /\ op[c] = "put" /\ pc[c] = "lookup"
        /\ asked'[c] = asked[c] \cup {x} /\ x \in Node \cup Live
    BY <1>9 DEF PutAt, Reachable
  <2>2. store'[x].seq >= item[c].seq
    BY <1>9, AcceptGrows DEF PutAt
  <2>3. \A d \in asked'[c] \cap Daemon : d <= newest
    BY <2>1, LiveStarted
  <2>4. ASSUME NEW y \in asked[c] \cap (Node \cup Live)
        PROVE  store'[y].seq >= item[c].seq
    <3>1. y \in Peer /\ store[y].seq >= item[c].seq
      BY <2>1 DEF Peer, Live
    <3> QED BY <1>1, <3>1
  <2>5. at[c] \in Live => floor[c] <= store'[at[c]].seq
    BY <1>1, FloorGrows
  <2> QED BY <1>2, <2>1, <2>2, <2>3, <2>4, <2>5
<1>10. ASSUME NEW x \in Peer, GetFrom(c, x) PROVE CommandInv(c)'
  <2>1. /\ UNCHANGED <<op, pc, at, floor, store>> /\ op[c] = "get" /\ pc[c] = "lookup"
        /\ asked'[c] = asked[c] \cup {x} /\ x \in Node \cup Live
    BY <1>10 DEF GetFrom, Reachable
  <2>2. \A d \in asked'[c] \cap Daemon : d <= newest
    BY <2>1, LiveStarted
  <2> QED BY <1>2, <2>1, <2>2
<1> HIDE DEF StoreInv, CommandInv, TypeOK
<1>11. CASE StorePut(c) \/ LookupEnd(c) \/ Broken(c) \/ StoreGet(c)
  <2>1. StoreGet(c) => op[c] = "get"
    BY DEF StoreGet
  <2>2. LookupEnd(c) => Refused(c) \/ Answer(c)
    BY DEF LookupEnd
  <2>3. Broken(c) => Refused(c)
    BY DEF Broken
  <2> QED BY <1>11, <1>4, <1>5, <1>6, <1>7, <1>8, <2>1, <2>2, <2>3
<1> QED BY <1>9, <1>10, <1>11 DEF Works

LEMMA WorksStore ==
  ASSUME TypeOK, TypeOK', StoreInv, NEW c \in Command, Works(c)
  PROVE  StoreInv'
<1>1. /\ UNCHANGED daemonVars
      /\ \A x \in Peer : store'[x].seq >= store[x].seq
  BY WorksGrows
<1>2. Live' = Live /\ newest' = newest /\ \A d \in Live : d \in Peer
  BY <1>1 DEF Live, daemonVars, Peer
<1>3. ASSUME NEW e \in Command PROVE CommandInv(e)'
  <2>1. CASE e = c
    BY <2>1, WorksCommand
  <2>2. CASE e # c
    <3>1. \A x \in Node \cup Live : store'[x].seq >= store[x].seq
      BY <1>1, <1>2 DEF Peer
    <3> QED BY <1>1, <2>2, <3>1, WorksGrows, OthersStore
  <2> QED BY <2>1, <2>2
<1>4. ASSUME NEW d \in Daemon
      PROVE  acked'[d] = acked[d]
             \/ /\ Answer(c) /\ op[c] = "put" /\ d \in asked[c] /\ d = at[c]
                /\ acked'[d] = item[c].seq
  BY DEF Works, StorePut, StoreGet, LookupEnd, Broken, PutAt, GetFrom, Answer, TypeOK
<1>5. ASSUME NEW d \in Daemon
      PROVE  /\ d > newest => d \notin Live /\ acked'[d] = 0
             /\ d \in Live => acked'[d] <= store'[d].seq
  <2>1. d > newest => d \notin Live /\ acked[d] = 0 /\ d # at[c]
    <3>1. at[c] \in Daemon => at[c] <= newest
      BY DEF StoreInv, CommandInv
    <3>2. d \in Nat /\ newest \in Nat
      BY DEF Daemon, TypeOK
    <3> QED BY <3>1, <3>2 DEF StoreInv, DaemonInv
  <2>2. ASSUME d \in Live PROVE acked'[d] <= store'[d].seq
    <3>1. acked[d] <= store[d].seq /\ d \in Peer
      BY <1>2, <2>2 DEF StoreInv, DaemonInv
    <3>2. op[c] = "put" /\ d \in asked[c] => store[d].seq >= item[c].seq
      BY <2>2 DEF StoreInv, CommandInv
    <3>3. /\ acked[d] \in Nat /\ store[d].seq \in Nat /\ store'[d].seq \in Nat
          /\ item[c].seq \in Nat
      BY <3>1, Values DEF TypeOK
    <3> QED BY <1>1, <1>4, <3>1, <3>2, <3>3
  <2> QED BY <1>4, <2>1, <2>2
<1>6. DaemonInv'
  BY <1>2, <1>5 DEF DaemonInv
<1> QED BY <1>3, <1>6 DEF StoreInv

LEMMA StoreStep == TypeOK /\ TypeOK' /\ StoreInv /\ [Next]_vars => StoreInv'
<1> SUFFICES ASSUME TypeOK, TypeOK', StoreInv, [Next]_vars PROVE StoreInv'
  OBVIOUS
<1>1. CASE UNCHANGED vars
  BY <1>1 DEF vars, StoreInv, DaemonInv, CommandInv, Live
<1> QED BY <1>1, Steps, HappensStore, AsksStore, WorksStore

LEMMA StoreCorrect == Spec => []StoreInv
<1>1. Init => StoreInv
  BY Values DEF Init, StoreInv, DaemonInv, CommandInv, Live, Peer
<1> QED BY <1>1, TypeCorrect, StoreStep, PTL DEF Spec

\* A put that reports success has left its item, or a newer one, with everyone
\* who took part, whatever died and started again in between.
THEOREM PublishedStays == Spec => []PublishedIsHeld
<1>1. StoreInv => PublishedIsHeld
  BY DEF StoreInv, CommandInv, PublishedIsHeld
<1> QED BY <1>1, StoreCorrect, PTL

\* A daemon answers a get with what it confirmed before, or something newer.
THEOREM DaemonAnswersItsWrites == Spec => ReadsOwnWrites
<1>1. ASSUME TypeOK, StoreInv, [Next]_vars, NEW c \in Command,
             op[c] = "get", at[c] \in Live, floor[c] > 0, at'[c] # at[c]
      PROVE  pc'[c] = "done" /\ item'[c].seq >= floor[c]
  <2>1. pc[c] \in {"local", "lookup"} /\ Working(c) /\ Delegated(c) /\ at[c] \in Peer
    BY <1>1, Values DEF TypeOK, Working, Delegated, Live, Peer
  <2>2. pc[c] # "lookup"
    BY <1>1 DEF StoreInv, CommandInv
  <2>3. StoreGet(c)
    <3>1. ASSUME NEW e \in Command, Works(e) PROVE e = c
      BY <1>1, <3>1, WorksGrows
    <3>2. ASSUME NEW e \in Command, Asks(e) PROVE FALSE
      BY <1>1, <2>1, <3>2 DEF Asks, Run, ReadPort, CheckProcess, Send, WorkAt, Goto, TypeOK
    <3>3. ~Happens
      BY <1>1 DEF Happens, StartDaemon, WritePid, WritePort, RegisterFails, Die, ForeignPid,
                  Lose, commandVars
    <3>4. ~UNCHANGED vars
      BY <1>1 DEF vars
    <3>5. Works(c)
      BY <1>1, <3>1, <3>2, <3>3, <3>4, Steps
    <3> QED BY <1>1, <2>1, <2>2, <3>5 DEF Works, StorePut, LookupEnd, Broken, PutAt, GetFrom
  <2>4. floor[c] <= store[at[c]].seq /\ floor[c] \in Nat /\ store[at[c]].seq \in Nat
    BY <1>1, <2>1, Values DEF StoreInv, CommandInv, TypeOK
  <2>5. store[at[c]] # NoItem
    BY <1>1, <2>4, Values
  <2>6. item'[c] = store[at[c]] /\ Answer(c)
    <3>1. item' = [item EXCEPT ![c] = store[at[c]]] /\ Answer(c)
      BY <2>1, <2>3, <2>5 DEF StoreGet
    <3> QED BY <1>1, <3>1 DEF TypeOK
  <2>7. pc'[c] = "done"
    BY <1>1, <2>6 DEF Answer, Goto, TypeOK
  <2>8. item'[c].seq >= floor[c]
    BY <2>4, <2>6
  <2> QED BY <2>7, <2>8
<1>2. TypeOK /\ StoreInv /\ [Next]_vars
      => [\A c \in Command :
            op[c] = "get" /\ at[c] \in Live /\ floor[c] > 0 /\ at'[c] # at[c]
              => pc'[c] = "done" /\ item'[c].seq >= floor[c]]_vars
  BY <1>1
<1> QED BY <1>2, TypeCorrect, StoreCorrect, PTL DEF Spec, ReadsOwnWrites
-----------------------------------------------------------------------------
(* How far a command can go                                                *)

\* The way of a command: to a daemon at most once, then to its own client.
Rank(c) ==
  CASE pc[c] = "idle"   -> 0
    [] pc[c] = "port"   -> 1
    [] pc[c] = "check"  -> 2
    [] pc[c] = "send"   -> 3
    [] pc[c] = "local"  -> IF Delegated(c) THEN 4 ELSE 6
    [] pc[c] = "lookup" -> IF Delegated(c) THEN 5 ELSE 7
    [] OTHER            -> 8

\* What the steps do to the place of the command.
LEMMA Moves ==
  ASSUME TypeOK, NEW c \in Command, NEW e \in Command, Asks(e) \/ Works(e)
  PROVE  IF e = c /\ (Run(e) \/ Step(e))
         THEN Rank(c) < Rank(c)'
         ELSE Rank(c)' = Rank(c)
<1> USE Values DEF TypeOK, Goto
<1>0. Rank(c)' = IF pc'[c] = pc[c] /\ at'[c] = at[c] THEN Rank(c) ELSE Rank(c)'
  BY DEF Rank, Delegated
<1>1. CASE e # c
  <2>1. pc'[c] = pc[c] /\ at'[c] = at[c]
    <3>1. CASE Asks(e)
      BY <1>1, <3>1 DEF Asks, Run, ReadPort, CheckProcess, Send, WorkAt
    <3>2. CASE StorePut(e) \/ StoreGet(e)
      BY <1>1, <3>2 DEF StorePut, StoreGet, Refused, Answer, WorkAt
    <3>3. CASE LookupEnd(e) \/ Broken(e)
      BY <1>1, <3>3 DEF LookupEnd, Broken, Refused, Answer, WorkAt
    <3>4. CASE \E x \in Peer : PutAt(e, x) \/ GetFrom(e, x)
      BY <3>4 DEF PutAt, GetFrom
    <3> QED BY <3>1, <3>2, <3>3, <3>4 DEF Works
  <2> QED BY <1>0, <1>1, <2>1
<1>2. ASSUME e = c, \E x \in Peer : PutAt(e, x) \/ GetFrom(e, x)
      PROVE  Rank(c)' = Rank(c) /\ pc[c] = "lookup"
  BY <1>0, <1>2 DEF PutAt, GetFrom
<1>3. ASSUME e = c, Asks(e)
      PROVE  Rank(c) < Rank(c)'
  <2>1. CASE Run(c)
    BY <2>1 DEF Run, Rank
  <2>2. CASE ReadPort(c)
    BY <2>2 DEF ReadPort, Rank
  <2>3. CASE CheckProcess(c)
    BY <2>3 DEF CheckProcess, WorkAt, Rank, Delegated
  <2>4. CASE Send(c)
    BY <2>4 DEF Send, WorkAt, Rank, Delegated
  <2> QED BY <1>3, <2>1, <2>2, <2>3, <2>4 DEF Asks
<1>4. ASSUME e = c, StorePut(c) \/ StoreGet(c) \/ LookupEnd(c) \/ Broken(c)
      PROVE  Rank(c) < Rank(c)'
  <2>1. ASSUME Refused(c), pc[c] \in {"local", "lookup"} PROVE Rank(c) < Rank(c)'
    BY <2>1 DEF Refused, WorkAt, Rank, Delegated
  <2>2. ASSUME Answer(c), pc[c] \in {"local", "lookup"} PROVE Rank(c) < Rank(c)'
    BY <2>2 DEF Answer, Rank, Delegated
  <2>3. ASSUME pc[c] = "local", Goto(c, "lookup"), at' = at PROVE Rank(c) < Rank(c)'
    BY <2>3 DEF Rank, Delegated
  <2>4. CASE StorePut(c)
    BY <2>1, <2>3, <2>4 DEF StorePut
  <2>5. CASE StoreGet(c)
    BY <2>2, <2>3, <2>5 DEF StoreGet
  <2>6. CASE LookupEnd(c) \/ Broken(c)
    BY <2>1, <2>2, <2>6 DEF LookupEnd, Broken
  <2> QED BY <1>4, <2>4, <2>5, <2>6
<1>5. ASSUME e = c, \E x \in Peer : PutAt(e, x) \/ GetFrom(e, x), Run(c) \/ Step(c)
      PROVE  Rank(c) < Rank(c)'
  BY <1>2, <1>3, <1>4, <1>5 DEF Asks, Step, Run, ReadPort, CheckProcess, Send
<1> QED BY <1>1, <1>2, <1>3, <1>4, <1>5 DEF Works, Asks, Step

\* The safety half of CommandsEnd: whatever daemons do, die or refuse, a command
\* never goes back on its way, and each step of its own, answers of the network
\* aside, takes it further, at most eight times; so it cannot be sent from one
\* stale daemon to the next for ever (each command calls
\* tryDaemonDHT once, cmd/torrent.go).
THEOREM CommandsMoveOn ==
  Spec => [][\A c \in Command :
               /\ Rank(c) \in 0 .. 8 /\ Rank(c) <= Rank(c)'
               /\ Run(c) \/ Step(c) => Rank(c) < Rank(c)']_vars
<1>1. ASSUME TypeOK, [Next]_vars, ~UNCHANGED vars, NEW c \in Command
      PROVE  /\ Rank(c) \in 0 .. 8 /\ Rank(c) <= Rank(c)'
             /\ Run(c) \/ Step(c) => Rank(c) < Rank(c)'
  <2>1. Rank(c) \in 0 .. 8
    BY DEF Rank
  <2>2. ASSUME Run(c) \/ Step(c) PROVE Rank(c) < Rank(c)'
    BY <1>1, <2>2, Moves DEF Asks, Works, Step
  <2>3. ASSUME Happens PROVE Rank(c) <= Rank(c)'
    <3>1. UNCHANGED <<pc, at>>
      BY <2>3 DEF Happens, StartDaemon, WritePid, WritePort, RegisterFails, Die, ForeignPid,
                  Lose, commandVars
    <3>2. Rank(c)' = Rank(c)
      BY <3>1 DEF Rank, Delegated
    <3> QED BY <2>1, <3>2
  <2>4. ASSUME NEW e \in Command, Asks(e) \/ Works(e) PROVE Rank(c) <= Rank(c)'
    <3>1. Rank(c)' \in Int
      BY DEF Rank
    <3> QED BY <1>1, <2>1, <2>4, <3>1, Moves
  <2> QED BY <1>1, <2>1, <2>2, <2>3, <2>4, Steps
<1>2. TypeOK /\ [Next]_vars
        => [\A c \in Command :
              /\ Rank(c) \in 0 .. 8 /\ Rank(c) <= Rank(c)'
              /\ Run(c) \/ Step(c) => Rank(c) < Rank(c)']_vars
  BY <1>1
<1> QED BY <1>2, TypeCorrect, PTL DEF Spec
=============================================================================
