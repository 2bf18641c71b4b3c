------------------------------ MODULE MCGame ------------------------------
(* Small instances of Game: the number of players is bounded by the        *)
(* constant MaxPlayers, everything else in Game is finite by itself.       *)
EXTENDS Game

(* A vote that times out with a quorum needs three humans, one of them     *)
(* silent, besides the impostor; a round that is neither the first nor the *)
(* last needs three rounds.                                                *)
ASSUME Interesting == MaxPlayers >= 4

============================================================================
