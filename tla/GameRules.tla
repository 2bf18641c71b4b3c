----------------------------- MODULE GameRules ----------------------------
(***************************************************************************)
(* The domain of the game: src/orchestrator/game.py.                       *)
(*                                                                         *)
(* A game is a value: the record GameType, one field per attribute of the  *)
(* class.  A method is a pair of operators: Can... is the condition under  *)
(* which it does not raise RuleViolation, and an operator with the name of *)
(* the method returns the game it leaves behind.  Module Game calls them   *)
(* one at a time, as the docstring of game.py says they are called; module *)
(* Server calls the same operators from its handlers, in the order in      *)
(* which the code of a handler calls the methods.                          *)
(*                                                                         *)
(* Time is abstracted to what remaining_time() is compared with: a window  *)
(* is not set ("none"), open, or due (remaining_time() == 0).              *)
(***************************************************************************)
EXTENDS Sizes, Integers, Sequences, FiniteSets

CONSTANT
  Timed        \* is Game(round_timeout=...) a number?  FALSE: it is None

ASSUME TimedAssumption == Timed \in BOOLEAN

States == {"LOBBY", "ROUND", "DISCUSSION", "VOTING", "REVEAL"}
TimedStates == {"ROUND", "DISCUSSION", "VOTING"}
QuorumMinHumans == 2

(* The k-th player is "Jugador k"; a suspect None is an abstention.        *)
None == 0
Aliases == 1..MaxPlayers

(* What the classifier of a text may find in it (normalize_text, split).   *)
Texts == {"ok", "blank", "long"}

(* The codes apply_ai_turn passes to interrupt(), and the code only the    *)
(* domain itself uses.                                                     *)
TurnFailures == {"round_timeout", "engine_timeout", "engine_unavailable",
                 "engine_protocol", "engine_rejected",
                 "invalid_engine_response"}
Interruptions == TurnFailures \cup {"quorum_lost"}
Closings == {"completed", "voting_timeout"}

----------------------------------------------------------------------------
(* The attributes of Game.  votes maps those who voted to their suspect;   *)
(* messages holds no text, and at most one entry of an alias in a round    *)
(* (game.py refuses the second), so that the list is a set; events is what *)
(* the event sink has received.                                            *)

Message == [round : 1..Rounds, alias : Aliases]

BallotBoxes == UNION {[V -> Aliases \cup {None}] : V \in SUBSET Aliases}

Event ==
  [type : {"game.started"}]
    \cup [type : {"round.started", "round.completed"}, round : 1..Rounds]
    \cup [type : {"game.closed"}, reason : Interruptions \cup Closings,
          valid : BOOLEAN, rate : Nat \X Nat]

GameStarted == [type |-> "game.started"]
RoundStarted(k) == [type |-> "round.started", round |-> k]
RoundCompleted(k) == [type |-> "round.completed", round |-> k]

NewGame ==
  [state |-> "LOBBY", round |-> 0, players |-> << >>, messages |-> {},
   votes |-> [a \in {} |-> None], abstentions |-> {}, window |-> "none",
   interruption |-> "none", close |-> "none", events |-> << >>]

Players(g) == DOMAIN g.players
Impostors(g) == {a \in Players(g) : g.players[a]}
Humans(g) == {a \in Players(g) : ~g.players[a]}
Current(g) == {m \in g.messages : m.round = g.round}

SubmittedHumans(g) == {m.alias : m \in Current(g)} \ Impostors(g)

Scorable(g) == {a \in DOMAIN g.votes : g.votes[a] # None}

PresentHumans(g) == Scorable(g) \cup g.abstentions

----------------------------------------------------------------------------
(* Windows, events and the two ways a game closes.                         *)

SetDeadline(g) == [g EXCEPT !.window = IF Timed THEN "open" ELSE "none"]

Expired(g) == g.state \in TimedStates /\ g.window = "due"

Emit(g, event) == [g EXCEPT !.events = Append(@, event)]

(* _detection_stats: hits over scorable votes, <<0, 0>> when it is None.   *)
DetectionRate(g) ==
  <<Cardinality({a \in Scorable(g) : g.votes[a] \in Impostors(g)}),
    Cardinality(Scorable(g))>>

ValidGame(g) == g.interruption = "none"

ClosePayload(g) ==
  [type |-> "game.closed",
   reason |-> IF ValidGame(g) THEN g.close ELSE g.interruption,
   valid |-> ValidGame(g),
   rate |-> IF ValidGame(g) THEN DetectionRate(g) ELSE <<0, 0>>]

EmitClose(g) == Emit(g, ClosePayload(g))

CanInterrupt(g, reason) == g.state \in TimedStates /\ reason \in Interruptions

Interrupt(g, reason) ==
  EmitClose([g EXCEPT !.interruption = reason, !.state = "REVEAL"])

CompleteReveal(g, reason) ==
  EmitClose([g EXCEPT !.close = reason, !.state = "REVEAL"])

----------------------------------------------------------------------------
(* check_expiration: what a window that ran out does to its phase.         *)

(* The definitions named ...Faulty are used by no specification: each is a *)
(* mistake the code below it could have, and breaks a property (README).   *)
OpenBallotFaulty(g) == [g EXCEPT !.state = "VOTING"]

OpenBallot(g) == SetDeadline([g EXCEPT !.state = "VOTING"])

ForceVotesFaulty(g) == [g EXCEPT !.votes = [a \in Humans(g) |-> None]]

ForceVotes(g) ==
  [g EXCEPT !.votes = [a \in DOMAIN @ \cup Humans(g) |->
                         IF a \in DOMAIN @ THEN @[a] ELSE None]]

CloseVotingFaulty(g) == CompleteReveal(ForceVotes(g), "voting_timeout")

CloseVoting(g) ==
  LET forced == ForceVotes(g)
  IN IF Cardinality(PresentHumans(forced)) < QuorumMinHumans
       THEN Interrupt(forced, "quorum_lost")
       ELSE CompleteReveal(forced, "voting_timeout")

ExpireRound(g) ==
  Interrupt(g, IF Cardinality(SubmittedHumans(g)) < QuorumMinHumans
                 THEN "quorum_lost" ELSE "round_timeout")

CheckExpirationFaulty(g) ==
  IF Expired(g) /\ g.state = "ROUND" THEN ExpireRound(g) ELSE g

CheckExpiration(g) ==
  CASE ~Expired(g) -> g
    [] Expired(g) /\ g.state = "ROUND" -> ExpireRound(g)
    [] Expired(g) /\ g.state = "DISCUSSION" -> OpenBallot(g)
    [] Expired(g) /\ g.state = "VOTING" -> CloseVoting(g)

----------------------------------------------------------------------------
(* The methods a server or a demo calls.                                   *)

CanAddPlayer(g, ai) == g.state = "LOBBY" /\ (ai => Impostors(g) = {})

AddPlayer(g, ai) == [g EXCEPT !.players = Append(@, ai)]

CanStartFaulty(g) ==
  g.state = "LOBBY" /\ Cardinality(Impostors(g)) = 1 /\ Len(g.players) >= 2

CanStart(g) ==
  /\ g.state = "LOBBY"
  /\ Cardinality(Impostors(g)) = 1
  /\ Cardinality(Humans(g)) >= 2

Start(g) ==
  Emit(Emit(SetDeadline([g EXCEPT !.state = "ROUND", !.round = 1]),
            GameStarted),
       RoundStarted(1))

CanSubmitFaulty(g, alias, text, expected) ==
  /\ g.state = "ROUND"
  /\ expected \in {None, g.round}
  /\ alias \in Players(g)
  /\ text = "ok"

CanSubmit(g, alias, text, expected) ==
  /\ g.state = "ROUND"
  /\ expected \in {None, g.round}
  /\ alias \in Players(g)
  /\ \A m \in Current(g) : m.alias # alias
  /\ text = "ok"

NextRoundFaulty(g) ==
  Emit(Emit(SetDeadline([g EXCEPT !.round = @ + 1]), RoundCompleted(g.round)),
       RoundStarted(g.round))

NextRound(g) ==
  Emit(Emit(SetDeadline([g EXCEPT !.round = @ + 1]), RoundCompleted(g.round)),
       RoundStarted(g.round + 1))

EndRoundsFaulty(g) ==
  Emit(SetDeadline([g EXCEPT !.state = "VOTING"]), RoundCompleted(g.round))

EndRounds(g) ==
  Emit(SetDeadline([g EXCEPT !.state = "DISCUSSION"]), RoundCompleted(g.round))

SubmitMessageFaulty(g, alias) ==
  LET posted == [g EXCEPT !.messages =
                   @ \cup {[round |-> g.round, alias |-> alias]}]
  IN IF Cardinality(Current(g)) + 1 # Len(g.players) THEN posted
     ELSE IF g.round <= Rounds THEN NextRound(posted)
     ELSE EndRounds(posted)

SubmitMessage(g, alias) ==
  LET posted == [g EXCEPT !.messages =
                   @ \cup {[round |-> g.round, alias |-> alias]}]
  IN IF Cardinality(Current(g)) + 1 # Len(g.players) THEN posted
     ELSE IF g.round < Rounds THEN NextRound(posted)
     ELSE EndRounds(posted)

CanOpenVoting(g) == g.state = "DISCUSSION"

CanVoteFaulty(g, voter, suspect) ==
  /\ g.state = "VOTING"
  /\ voter \in Humans(g)
  /\ suspect \in (Players(g) \ {voter}) \cup {None}

CanVote(g, voter, suspect) ==
  /\ g.state = "VOTING"
  /\ voter \in Humans(g)
  /\ voter \notin DOMAIN g.votes
  /\ suspect \in (Players(g) \ {voter}) \cup {None}

CastVote(g, voter, suspect) ==
  LET cast == [g EXCEPT
                 !.votes = [a \in DOMAIN @ \cup {voter} |->
                              IF a = voter THEN suspect ELSE @[a]],
                 !.abstentions = @ \cup (IF suspect = None THEN {voter} ELSE {})]
  IN IF Cardinality(DOMAIN cast.votes) = Cardinality(Humans(g))
       THEN CompleteReveal(cast, "completed") ELSE cast

(* validate_ai_turn, after its check_expiration.                           *)
CanTakeTurn(g, alias, expected) ==
  /\ g.state = "ROUND"
  /\ expected = g.round
  /\ alias \in Impostors(g)
  /\ [round |-> expected, alias |-> alias] \notin g.messages

(* public_state()["votes_received"]                                        *)
VotesReceived(g) == Cardinality(DOMAIN g.votes)

============================================================================
