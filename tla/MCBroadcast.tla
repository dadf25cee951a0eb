---------------------------- MODULE MCBroadcast ----------------------------
(* Small instances of Broadcast for TLC.                                   *)
EXTENDS Broadcast, TLC

(* Where the schedules play.                                               *)
OnFirstSpeaker  == [k \in Schedules |-> {1}]
OnSecondSpeaker == [k \in Schedules |-> {2}]

(* Row identities and request threads are interchangeable (safety only).   *)
Symmetric == Permutations(Logs) \union Permutations(Requests)

=============================================================================
