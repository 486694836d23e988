---------------------------- MODULE DhtCommands ----------------------------
(* "dht put" and "dht get" (cmd/torrent.go), the daemon they may delegate  *)
(* to (startDHTDaemon in core/engine.go), the pid and port it leaves in    *)
(* the settings (db/journal.go) and the DHT client both work with          *)
(* (dht/client.go).                                                        *)
(*                                                                         *)
(* Daemons die at any time and leave their pid and port behind: stopDHT    *)
(* stands behind a loop that never ends.  Pids and ports are used again.   *)
(* There is one item, that of one public key and salt.                     *)
EXTENDS Integers, FiniteSets

CONSTANTS
  Command,
  Node,         \* the other nodes of the DHT
  Pid, Port,
  OneAtATime,   \* does a daemon start only when no other one is registering?
  MaxDaemons,   \* bound on the daemons that are started
  MaxSeq,       \* bound on the sequence numbers put
  MaxAccidents, \* bound on items that expire (24 h) or are lost with a node, on
                \* settings that are not written and pids that other programs take
  Free, Foreign, NoOne

Daemon == 1 .. MaxDaemons     \* in the order of their starts

ASSUME DhtAssumption ==
  /\ {MaxDaemons, MaxSeq, MaxAccidents} \subseteq Nat
  /\ OneAtATime \in BOOLEAN
  /\ Free # Foreign /\ {Free, Foreign} \cap Daemon = {}
  /\ NoOne \notin Daemon \cup Command \cup Pid \cup Port
  /\ Daemon \cap Node = {} /\ Command \cap (Node \cup Daemon) = {}

Peer == Node \cup Daemon

\* Two puts of one sequence number differ in their value: who put it.
Item   == [seq : 1 .. MaxSeq, by : Command]
NoItem == [seq |-> 0, by |-> NoOne]
Store  == Item \cup {NoItem}

VARIABLES
  proc,           \* what runs under each pid
  listener,       \* who listens at each port
  reg,            \* how far startDHTDaemon is
  newest,         \* the daemon started last, 0 if there is none
  dbPid, dbPort,  \* settings daemon_pid and daemon_port
  store,          \* the item each peer of the DHT holds
  op, item,       \* what a command does, and the item it puts or has found
  pc,
  pid, port,      \* what tryDaemonDHT has read
  at,             \* the daemon that works on the command, or the command itself
  asked,          \* peers that answered, and the daemon that stored the item
  acked,          \* highest number a daemon has confirmed and not lost (history)
  floor,          \* acked of the daemon when the command was sent (history)
  accidents

daemonVars  == <<proc, listener, reg, newest, dbPid, dbPort>>
commandVars == <<op, item, pc, pid, port, at, asked, floor>>
vars == <<proc, listener, reg, newest, dbPid, dbPort, store, op, item, pc, pid,
          port, at, asked, acked, floor, accidents>>

Init ==
  /\ proc = [p \in Pid |-> Free] /\ listener = [p \in Port |-> Free]
  /\ reg = [d \in Daemon |-> "off"]
  /\ newest = 0
  /\ dbPid = NoOne /\ dbPort = NoOne
  /\ store = [x \in Peer |-> NoItem]
  /\ op = [c \in Command |-> "none"]
  /\ item = [c \in Command |-> NoItem]
  /\ pc = [c \in Command |-> "idle"]
  /\ pid = [c \in Command |-> NoOne] /\ port = [c \in Command |-> NoOne]
  /\ at = [c \in Command |-> NoOne]
  /\ asked = [c \in Command |-> {}]
  /\ acked = [d \in Daemon |-> 0]
  /\ floor = [c \in Command |-> 0]
  /\ accidents = 0

Live == {d \in Daemon : reg[d] \in {"listening", "halfway", "up", "unlisted"}}

Accident == accidents < MaxAccidents /\ accidents' = accidents + 1

-----------------------------------------------------------------------------
(* Daemons, and the other programs on the machine.                         *)

StartDaemon(d, i, p) ==
  /\ d = newest + 1
  /\ proc[i] = Free /\ listener[p] = Free
  /\ OneAtATime => \A e \in Live : reg[e] \in {"up", "unlisted"}
  /\ proc' = [proc EXCEPT ![i] = d]
  /\ listener' = [listener EXCEPT ![p] = d]
  /\ reg' = [reg EXCEPT ![d] = "listening"]
  /\ newest' = d
  /\ UNCHANGED <<dbPid, dbPort, store, commandVars, acked, accidents>>

\* SetDaemonInfo is two writes.
WritePid(d) ==
  /\ reg[d] = "listening"
  /\ \E i \in Pid : proc[i] = d /\ dbPid' = i
  /\ reg' = [reg EXCEPT ![d] = "halfway"]
  /\ UNCHANGED <<proc, listener, newest, dbPort, store, commandVars, acked, accidents>>

WritePort(d) ==
  /\ reg[d] = "halfway"
  /\ \E p \in Port : listener[p] = d /\ dbPort' = p
  /\ reg' = [reg EXCEPT ![d] = "up"]
  /\ UNCHANGED <<proc, listener, newest, dbPid, store, commandVars, acked, accidents>>

\* The settings cannot be opened, or a write fails and the next one is left out;
\* the daemon serves, and who looks for it finds what was there before.
RegisterFails(d) ==
  /\ reg[d] \in {"listening", "halfway"}
  /\ Accident
  /\ reg' = [reg EXCEPT ![d] = "unlisted"]
  /\ UNCHANGED <<proc, listener, newest, dbPid, dbPort, store, commandVars, acked>>

\* What a process holds goes with it.
Vanish(d) ==
  /\ d \in Live
  /\ reg' = [reg EXCEPT ![d] = "dead"]
  /\ proc' = [i \in Pid |-> IF proc[i] = d THEN Free ELSE proc[i]]
  /\ listener' = [p \in Port |-> IF listener[p] = d THEN Free ELSE listener[p]]
  /\ store' = [store EXCEPT ![d] = NoItem]
  /\ acked' = [acked EXCEPT ![d] = 0]

\* Mutant: on its way out a daemon clears the info (stopDHT), whosever it is.
DieAndClear(d) ==
  /\ Vanish(d)
  /\ dbPid' = NoOne /\ dbPort' = NoOne
  /\ UNCHANGED <<newest, commandVars, accidents>>

Die(d) ==
  /\ Vanish(d)
  /\ UNCHANGED <<newest, dbPid, dbPort, commandVars, accidents>>

ForeignPid(i) ==
  /\ Accident
  /\ proc[i] = Free
  /\ proc' = [proc EXCEPT ![i] = Foreign]
  /\ UNCHANGED <<listener, reg, newest, dbPid, dbPort, store, commandVars, acked>>

\* An item expires where it is, or its node leaves the DHT.
Lose(x) ==
  /\ Accident
  /\ store[x] # NoItem
  /\ store' = [store EXCEPT ![x] = NoItem]
  /\ acked' = [d \in Daemon |-> IF d = x THEN 0 ELSE acked[d]]
  /\ floor' = [c \in Command |-> IF at[c] = x THEN 0 ELSE floor[c]]
  /\ asked' = [c \in Command |-> asked[c] \ {x}]
  /\ UNCHANGED <<daemonVars, op, item, pc, pid, port, at>>

-----------------------------------------------------------------------------
(* tryDaemonDHT: each condition that fails sends the command to a client   *)
(* of its own ("local" with at[c] = c).                                    *)

Goto(c, label) == pc' = [pc EXCEPT ![c] = label]

\* From here on the command, or a daemon for it, works on the item.
WorkAt(c, x) == Goto(c, "local") /\ at' = [at EXCEPT ![c] = x]

\* A command is given, and reads the pid.
Run(c) ==
  /\ pc[c] = "idle"
  /\ \/ \E s \in 1 .. MaxSeq : /\ op' = [op EXCEPT ![c] = "put"]
                               /\ item' = [item EXCEPT ![c] = [seq |-> s, by |-> c]]
     \/ op' = [op EXCEPT ![c] = "get"] /\ UNCHANGED item
  /\ pid' = [pid EXCEPT ![c] = dbPid]
  /\ Goto(c, "port")
  /\ UNCHANGED <<daemonVars, store, port, at, asked, floor, acked, accidents>>

ReadPort(c) ==
  /\ pc[c] = "port"
  /\ port' = [port EXCEPT ![c] = dbPort]
  /\ Goto(c, "check")
  /\ UNCHANGED <<daemonVars, store, op, item, pid, at, asked, floor, acked, accidents>>

ProcessExists(i) == i \in Pid /\ proc[i] # Free

CheckProcess(c) ==
  /\ pc[c] = "check"
  /\ IF ProcessExists(pid[c]) THEN Goto(c, "send") /\ UNCHANGED at ELSE WorkAt(c, c)
  /\ pid' = [pid EXCEPT ![c] = NoOne]
  /\ port' = [port EXCEPT ![c] = IF ProcessExists(pid[c]) THEN @ ELSE NoOne]
  /\ UNCHANGED <<daemonVars, store, op, item, asked, floor, acked, accidents>>

\* Whoever listens at the port gets the request, the daemon whose pid was read
\* or another one.  What answers there without being a daemon does not answer
\* 200, and might as well not be there.
Send(c) ==
  /\ pc[c] = "send"
  /\ \/ \E d \in Live : /\ port[c] \in Port /\ listener[port[c]] = d
                        /\ WorkAt(c, d)
                        /\ floor' = [floor EXCEPT ![c] = IF op[c] = "get" THEN acked[d] ELSE 0]
     \/ /\ \A d \in Live : port[c] \in Port => listener[port[c]] # d
        /\ WorkAt(c, c)
        /\ UNCHANGED floor
  /\ port' = [port EXCEPT ![c] = NoOne]
  /\ UNCHANGED <<daemonVars, store, op, item, pid, asked, acked, accidents>>

-----------------------------------------------------------------------------
(* Client.Put and Client.Get, in the daemon at[c] or in the command.       *)

Delegated(c) == at[c] \in Daemon

Working(c) == Delegated(c) => at[c] \in Live

\* The wrapper of the store, here and at every node, refuses what is older, and
\* another value of the same number.  Two wrappers of one store, the server's and
\* the client's, would each have to look and put without the other in between; that
\* they do is assumed of the library.
Accepts(old, new) == new.seq > old.seq \/ new = old

\* Status 500, or a connection that breaks, sends the command to its own client;
\* that one's error ends it.
Refused(c) ==
  /\ IF Delegated(c) THEN WorkAt(c, c)
     ELSE Goto(c, "failed") /\ at' = [at EXCEPT ![c] = NoOne]
  /\ asked' = [asked EXCEPT ![c] = {}]
  /\ floor' = [floor EXCEPT ![c] = 0]

Answer(c) ==
  /\ Goto(c, "done")
  /\ at' = [at EXCEPT ![c] = NoOne]
  /\ asked' = [asked EXCEPT ![c] = IF op[c] = "get" THEN {} ELSE @]
  /\ floor' = [floor EXCEPT ![c] = 0]
  /\ acked' = [d \in Daemon |->
                 IF /\ d = at[c] /\ op[c] = "put"
                    /\ d \in asked[c] /\ item[c].seq > acked[d]
                 THEN item[c].seq ELSE acked[d]]

\* Mutant: the item bypasses the wrapper, which takes it for expired.
StorePutUnwrapped(c) ==
  /\ pc[c] = "local" /\ op[c] = "put" /\ Working(c)
  /\ Goto(c, "lookup")
  /\ asked' = [asked EXCEPT ![c] = {at[c]} \cap Daemon]
  /\ UNCHANGED <<daemonVars, store, op, item, pid, port, at, floor, acked, accidents>>

\* Step 1 of Put.  The client of a command starts with an empty store.
StorePut(c) ==
  /\ pc[c] = "local" /\ op[c] = "put" /\ Working(c)
  /\ IF Delegated(c) /\ ~Accepts(store[at[c]], item[c])
     THEN Refused(c) /\ UNCHANGED store
     ELSE /\ Goto(c, "lookup")
          /\ store' = [x \in Peer |-> IF x = at[c] THEN item[c] ELSE store[x]]
          /\ asked' = [asked EXCEPT ![c] = {at[c]} \cap Daemon]
          /\ UNCHANGED <<at, floor>>
  /\ UNCHANGED <<daemonVars, op, item, pid, port, acked, accidents>>

\* Step 1 of Get: an item found here is the answer.
StoreGet(c) ==
  /\ pc[c] = "local" /\ op[c] = "get" /\ Working(c)
  /\ IF Delegated(c) /\ store[at[c]] # NoItem
     THEN /\ item' = [item EXCEPT ![c] = store[at[c]]]
          /\ Answer(c)
     ELSE Goto(c, "lookup") /\ UNCHANGED <<item, at, asked, floor, acked>>
  /\ UNCHANGED <<daemonVars, store, op, pid, port, accidents>>

\* Peers that can answer the traversal; one that does not is passed over.
Reachable(c) == (Node \cup Live) \ (asked[c] \cup {at[c]})

\* Mutant: a node that has an item already is left alone.
PutAtNewOnly(c, x) ==
  /\ pc[c] = "lookup" /\ op[c] = "put" /\ Working(c)
  /\ x \in Reachable(c)
  /\ asked' = [asked EXCEPT ![c] = @ \cup {x}]
  /\ store' = [store EXCEPT ![x] = IF @ = NoItem THEN item[c] ELSE @]
  /\ UNCHANGED <<daemonVars, op, item, pc, pid, port, at, floor, acked, accidents>>

\* The node gives a token and takes, or silently refuses, the item.
PutAt(c, x) ==
  /\ pc[c] = "lookup" /\ op[c] = "put" /\ Working(c)
  /\ x \in Reachable(c)
  /\ asked' = [asked EXCEPT ![c] = @ \cup {x}]
  /\ store' = [store EXCEPT ![x] = IF Accepts(@, item[c]) THEN item[c] ELSE @]
  /\ UNCHANGED <<daemonVars, op, item, pc, pid, port, at, floor, acked, accidents>>

\* The reply with the highest number so far is kept.
GetFrom(c, x) ==
  /\ pc[c] = "lookup" /\ op[c] = "get" /\ Working(c)
  /\ x \in Reachable(c)
  /\ asked' = [asked EXCEPT ![c] = @ \cup {x}]
  /\ item' = [item EXCEPT ![c] = IF store[x].seq > @.seq THEN store[x] ELSE @]
  /\ UNCHANGED <<daemonVars, store, op, pc, pid, port, at, floor, acked, accidents>>

\* Mutant: the traversal has no timeout and waits for every node.
LookupEndAll(c) ==
  /\ pc[c] = "lookup" /\ Working(c) /\ Reachable(c) = {}
  /\ IF item[c] = NoItem THEN Refused(c) /\ UNCHANGED acked
                         ELSE Answer(c)
  /\ UNCHANGED <<daemonVars, store, op, item, pid, port, accidents>>

\* The traversal stalls, or its 30 seconds are over: whoever has answered has.
LookupEnd(c) ==
  /\ pc[c] = "lookup" /\ Working(c)
  /\ IF item[c] = NoItem THEN Refused(c) /\ UNCHANGED acked
                         ELSE Answer(c)
  /\ UNCHANGED <<daemonVars, store, op, item, pid, port, accidents>>

\* Mutant: a command that starts again has lost what it was to put.
BrokenForgets(c) ==
  /\ pc[c] \in {"local", "lookup"} /\ ~Working(c)
  /\ Refused(c)
  /\ item' = [item EXCEPT ![c] = NoItem]
  /\ UNCHANGED <<daemonVars, store, op, pid, port, acked, accidents>>

\* The daemon died before it answered; what a get had found went with it.
Broken(c) ==
  /\ pc[c] \in {"local", "lookup"} /\ ~Working(c)
  /\ Refused(c)
  /\ item' = [item EXCEPT ![c] = IF op[c] = "get" THEN NoItem ELSE @]
  /\ UNCHANGED <<daemonVars, store, op, pid, port, acked, accidents>>

-----------------------------------------------------------------------------
Step(c) ==
  \/ ReadPort(c) \/ CheckProcess(c) \/ Send(c)
  \/ StorePut(c) \/ StoreGet(c) \/ LookupEnd(c) \/ Broken(c)

Register(d) == WritePid(d) \/ WritePort(d)

Next ==
  \/ \E d \in Daemon :
       \/ \E i \in Pid, p \in Port : StartDaemon(d, i, p)
       \/ Register(d) \/ RegisterFails(d)
       \/ Die(d)
  \/ \E i \in Pid : ForeignPid(i)
  \/ \E x \in Peer : Lose(x)
  \/ \E c \in Command :
       \/ Run(c) \/ Step(c)
       \/ \E x \in Peer : PutAt(c, x) \/ GetFrom(c, x)

(* Commands and handlers run on; nothing makes a node answer.  Foreign     *)
(* servers answer: http.Get has no timeout.                                *)
Fairness == \A c \in Command : WF_vars(Step(c))

Spec == Init /\ [][Next]_vars

FairSpec == Spec /\ Fairness

-----------------------------------------------------------------------------
TypeOK ==
  /\ proc \in [Pid -> Daemon \cup {Free, Foreign}]
  /\ listener \in [Port -> Daemon \cup {Free}]
  /\ reg \in [Daemon -> {"off", "listening", "halfway", "up", "unlisted", "dead"}]
  /\ newest \in 0 .. MaxDaemons
  /\ dbPid \in Pid \cup {NoOne} /\ dbPort \in Port \cup {NoOne}
  /\ store \in [Peer -> Store]
  /\ op \in [Command -> {"none", "put", "get"}]
  /\ item \in [Command -> Store]
  /\ pc \in [Command -> {"idle", "port", "check", "send", "local",
                         "lookup", "done", "failed"}]
  /\ pid \in [Command -> Pid \cup {NoOne}] /\ port \in [Command -> Port \cup {NoOne}]
  /\ at \in [Command -> Daemon \cup Command \cup {NoOne}]
  /\ asked \in [Command -> SUBSET Peer]
  /\ acked \in [Daemon -> 0 .. MaxSeq] /\ floor \in [Command -> 0 .. MaxSeq]
  /\ accidents \in 0 .. MaxAccidents
  /\ \A c \in Command : /\ op[c] = "put" => item[c] \in Item
                        /\ at[c] \in Command => at[c] = c
                        /\ at[c] # NoOne <=> pc[c] \in {"local", "lookup"}

\* A put that reports success has left the item, or a newer one, with every
\* daemon and every node that took part, as long as these live and keep items:
\* although the daemon may have died in the middle of it and the command have
\* started again, and whatever other commands put at the same time.
PublishedIsHeld ==
  \A c \in Command : op[c] = "put" /\ pc[c] = "done" =>
    \A x \in asked[c] \cap (Node \cup Live) : store[x].seq >= item[c].seq

\* A daemon answers a get with what it had confirmed when the request came, or
\* something newer, although it does not wait for the network, and others put
\* into its store meanwhile.
ReadsOwnWrites ==
  [][\A c \in Command :
       op[c] = "get" /\ at[c] \in Live /\ floor[c] > 0 /\ at'[c] # at[c]
         => pc'[c] = "done" /\ item'[c].seq >= floor[c]]_vars

\* When daemons start one at a time, the pid and port in the settings are those
\* of the newest one for as long as it lives, if it could write them, whatever
\* older ones do or leave behind.
InfoOfNewest ==
  OneAtATime =>
    \A d \in Daemon : newest = d /\ reg[d] = "up" =>
      /\ dbPid \in Pid /\ proc[dbPid] = d
      /\ dbPort \in Port /\ listener[dbPort] = d

\* Whoever answers under a stale pid or port, whether daemons die or nodes are
\* silent, a command ends.
CommandsEnd ==
  \A c \in Command : pc[c] = "port" ~> pc[c] \in {"done", "failed"}
-----------------------------------------------------------------------------
(* Inductive strengthenings.                                               *)

\* Only the newest daemon can still be writing its pid and port.
RegInv ==
  OneAtATime =>
    /\ \A d \in Live : d # newest => reg[d] \in {"up", "unlisted"}
    /\ \A d \in Daemon : newest = d /\ reg[d] \in {"halfway", "up"} =>
         dbPid \in Pid /\ proc[dbPid] = d
    /\ \A d \in Daemon : newest = d /\ reg[d] = "up" =>
         dbPort \in Port /\ listener[dbPort] = d

DaemonInv ==
  \A d \in Daemon : /\ d > newest => d \notin Live /\ acked[d] = 0
                    /\ d \in Live => acked[d] <= store[d].seq

\* Daemons that are yet to start have taken part in nothing, and a get whose
\* daemon has something to answer with never gets to the traversal.
CommandInv(c) ==
  /\ \A d \in asked[c] \cap Daemon : d <= newest
  /\ at[c] \in Daemon => at[c] <= newest
  /\ pc[c] \notin {"lookup", "done"} => asked[c] = {}
  /\ op[c] = "put" =>
       \A x \in asked[c] \cap (Node \cup Live) : store[x].seq >= item[c].seq
  /\ at[c] \in Live =>
       /\ floor[c] <= store[at[c]].seq
       /\ op[c] = "get" /\ pc[c] = "lookup" => floor[c] = 0

StoreInv == DaemonInv /\ \A c \in Command : CommandInv(c)
=============================================================================
