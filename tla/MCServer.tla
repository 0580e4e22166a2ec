------------------------------ MODULE MCServer ------------------------------
(***************************************************************************)
(* Instances of Server for TLC.                                            *)
(***************************************************************************)
EXTENDS Server, TLC

(* Clients are interchangeable, and so are shells; the safety properties   *)
(* do not tell them apart.                                                 *)
Symmetry == Permutations(Client) \cup Permutations(Pid)

(* Users, crashes and shells act only while the daemon sleeps in select    *)
(* with nothing to read: what a run finds under this action constraint     *)
(* needs no race at all.                                                   *)
UserActs(c) ==
  \/ StartNew(c) \/ StartAttach(c) \/ StartList(c) \/ StartKill(c)
  \/ PaneSplit(c) \/ DetachKey(c) \/ Die(c)
Unhurried ==
  (\E c \in Client : UserActs(c)) \/ (\E p \in Pid : ShellExit(p)) =>
    Idle /\ \A c \in Client : cl[c].out = <<>>
=============================================================================
