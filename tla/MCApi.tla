------------------------------- MODULE MCApi -------------------------------
(* Small instances of Api.                                                 *)
EXTENDS Api

(* With two humans and the impostor, one human may vote and the other be   *)
(* voted for; a place is left for a player that nobody plays.              *)
ASSUME Interesting == MaxPlayers >= 4 /\ Rounds >= 2

=============================================================================
