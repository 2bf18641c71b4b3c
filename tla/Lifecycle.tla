----------------------------- MODULE Lifecycle -----------------------------
(***************************************************************************)
(* What a game promises to those who only see its phase and its stream of  *)
(* events: the clients that poll state and round_number, and the reader of *)
(* the game_events table.  Nothing here knows of players, messages, votes  *)
(* or clocks.  Module Game implements it, every call one step or none.     *)
(***************************************************************************)
EXTENDS Integers, Sequences

CONSTANT Rounds

VARIABLES
  state,    \* LOBBY, ROUND, DISCUSSION, VOTING or REVEAL
  round,    \* the round, 0 before the first
  log       \* the events published so far

vars == <<state, round, log>>

Active == {"ROUND", "DISCUSSION", "VOTING"}

Init == state = "LOBBY" /\ round = 0 /\ log = << >>

Started(k) == [type |-> "round.started", round |-> k]
Completed(k) == [type |-> "round.completed", round |-> k]

StartGame ==
  /\ state = "LOBBY"
  /\ state' = "ROUND" /\ round' = 1
  /\ log' = Append(Append(log, [type |-> "game.started"]), Started(1))

AdvanceRound ==
  /\ state = "ROUND" /\ round < Rounds
  /\ round' = round + 1 /\ UNCHANGED state
  /\ log' = Append(Append(log, Completed(round)), Started(round + 1))

StartDiscussion ==
  /\ state = "ROUND" /\ round = Rounds
  /\ state' = "DISCUSSION" /\ UNCHANGED round
  /\ log' = Append(log, Completed(round))

StartVoting ==
  /\ state = "DISCUSSION"
  /\ state' = "VOTING" /\ UNCHANGED <<round, log>>

(* The one announcement of the end; a valid game ends after its voting.    *)
Reveal ==
  /\ state \in Active
  /\ state' = "REVEAL" /\ UNCHANGED round
  /\ LET closed == log'[Len(log) + 1]
     IN /\ log' = Append(log, closed)
        /\ closed.type = "game.closed"
        /\ closed.valid => state = "VOTING"

Next == StartGame \/ AdvanceRound \/ StartDiscussion \/ StartVoting \/ Reveal

Spec == Init /\ [][Next]_vars

============================================================================
