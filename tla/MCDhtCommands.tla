--------------------------- MODULE MCDhtCommands ---------------------------
(* The instance of DhtCommands that TLC checks.  Pids, ports and commands  *)
(* are each alike until one of them is used, so that the first daemon and  *)
(* the first command may as well be given the first ones.  No fairness is  *)
(* asked of these two steps.                                               *)
EXTENDS DhtCommands

FirstIsAny ==
  /\ newest = 0 /\ newest' = 1 =>
       /\ proc'[CHOOSE i \in Pid : proc[i] = Free] = 1
       /\ listener'[CHOOSE p \in Port : listener[p] = Free] = 1
  /\ (\A c \in Command : pc[c] = "idle") /\ pc' # pc =>
       pc'[CHOOSE c \in Command : TRUE] # "idle"
=============================================================================
