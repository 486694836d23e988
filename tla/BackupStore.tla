---------------------------- MODULE BackupStore ----------------------------
(***************************************************************************)
(* What a one-way push configuration promises of the remote store,         *)
(* whatever happens on the way: it fills up with versions the user saved,  *)
(* never goes back to an older one, and what was confirmed stays there.    *)
(***************************************************************************)
EXTENDS Integers

CONSTANTS
  Path,
  MaxEdits    \* bound on the versions of files

Absent == 0
Version == 1 .. MaxEdits

VARIABLES
  saved,      \* <<path, version>> pairs the user has saved
  stored,     \* version of each path in the store
  confirmed   \* newest version of each path the user was told is stored

vars == <<saved, stored, confirmed>>

Init ==
  /\ saved = {}
  /\ stored = [f \in Path |-> Absent]
  /\ confirmed = [f \in Path |-> Absent]

Save(f, v) ==
  /\ saved' = saved \cup {<<f, v>>}
  /\ UNCHANGED <<stored, confirmed>>

\* A version no older than the stored one takes its place; its confirmation may
\* get lost.
Upload(f, v) ==
  /\ <<f, v>> \in saved
  /\ v >= stored[f]
  /\ stored' = [stored EXCEPT ![f] = v]
  /\ confirmed' \in {confirmed, [confirmed EXCEPT ![f] = v]}
  /\ UNCHANGED saved

Next == \E f \in Path, v \in Version : Save(f, v) \/ Upload(f, v)

Spec == Init /\ [][Next]_vars
=============================================================================
