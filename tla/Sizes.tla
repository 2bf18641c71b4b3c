------------------------------- MODULE Sizes -------------------------------
(***************************************************************************)
(* The sizes of a game, of the server's (module GameRules) and of the one  *)
(* the user interface plays with when it has no server (module Fake).      *)
(***************************************************************************)
EXTENDS Naturals

CONSTANTS
  Rounds,      \* Game(rounds=...), _Room.rounds: the rounds of a game
  MaxPlayers   \* bound: no more players than this enter a game

ASSUME RoundsAssumption == Rounds \in Nat \ {0}
ASSUME MaxPlayersAssumption == MaxPlayers \in Nat \ {0}

=============================================================================
