------------------------------- MODULE Game -------------------------------
(***************************************************************************)
(* One game and its callers: the methods of GameRules called one at a      *)
(* time, in any order, while its windows run out.  This is the domain as   *)
(* game.py describes itself, free of locks, and what the rest of the       *)
(* program relies on: Lobby breaks a method of it into the steps of        *)
(* threads, Server runs one such game in each room, and Lifecycle is what  *)
(* those who only see its phase and its events may expect.                 *)
(***************************************************************************)
EXTENDS GameRules

VARIABLE game

Init == game = NewGame

Join(ai) ==
  /\ CanAddPlayer(game, ai)
  /\ Len(game.players) < MaxPlayers
  /\ game' = AddPlayer(game, ai)

Begin == CanStart(game) /\ game' = Start(game)

(* A call that raises RuleViolation leaves what check_expiration left.     *)
Say(alias, text, expected) ==
  LET g == CheckExpiration(game)
  IN \/ /\ CanSubmit(g, alias, text, expected)
        /\ game' = SubmitMessage(g, alias)
     \/ /\ ~CanSubmit(g, alias, text, expected)
        /\ game' = g

CallVote ==
  LET g == CheckExpiration(game)
  IN \/ CanOpenVoting(g) /\ game' = OpenBallot(g)
     \/ ~CanOpenVoting(g) /\ game' = g

Vote(voter, suspect) ==
  LET g == CheckExpiration(game)
  IN \/ CanVote(g, voter, suspect) /\ game' = CastVote(g, voter, suspect)
     \/ ~CanVote(g, voter, suspect) /\ game' = g

(* apply_ai_turn gives its turn up: only while its round is still open.    *)
FailTurn(reason) ==
  /\ \E a \in Players(game) : CanTakeTurn(game, a, game.round)
  /\ reason = "round_timeout" => Expired(game)
  /\ game' = Interrupt(game, reason)

(* public_state(), validate_ai_turn() or a tick of the server's timer.     *)
Poll == game' = CheckExpiration(game)

Elapse ==
  /\ game.state \in TimedStates
  /\ game.window = "open"
  /\ game' = [game EXCEPT !.window = "due"]

Next ==
  \/ \E ai \in BOOLEAN : Join(ai)
  \/ Begin
  \/ \E a \in Aliases, t \in Texts, x \in 0..Rounds : Say(a, t, x)
  \/ CallVote
  \/ \E v \in Aliases, s \in Aliases \cup {None} : Vote(v, s)
  \/ \E r \in TurnFailures : FailTurn(r)
  \/ Poll
  \/ Elapse

Spec == Init /\ [][Next]_game

(* Time passes, and the timer thread polls every timer_tick seconds.       *)
FairSpec == Spec /\ WF_game(Elapse) /\ WF_game(Poll)

----------------------------------------------------------------------------
(* Type invariant: every attribute keeps its type, and the players are     *)
(* numbered without a gap.                                                 *)
GameType ==
  [state : States, round : 0..Rounds, players : Seq(BOOLEAN),
   messages : SUBSET Message, votes : BallotBoxes, abstentions : SUBSET Aliases,
   window : {"none", "open", "due"},
   interruption : Interruptions \cup {"none"}, close : Closings \cup {"none"},
   events : Seq(Event)]

TypeOK == game \in GameType /\ Len(game.players) <= MaxPlayers

Answered(g, k) == {m.alias : m \in {n \in g.messages : n.round = k}}

RoundComplete(g, k) == Answered(g, k) = Players(g)

(* A round is left behind only when every player, the impostor included,   *)
(* has answered it; the open round always misses somebody; discussion, a   *)
(* vote and a game that closes as valid come after the last round.         *)
RoundsInOrder(g) ==
  /\ \A m \in g.messages : m.round <= g.round /\ m.alias \in Players(g)
  /\ \A k \in 1..(g.round - 1) : RoundComplete(g, k)
  /\ g.state = "ROUND" => ~RoundComplete(g, g.round)
  /\ g.state \in {"DISCUSSION", "VOTING"} \/ g.close # "none"
       => g.round = Rounds /\ RoundComplete(g, Rounds)

RoundsAreComplete == RoundsInOrder(game)

(* A game under way or closed has one impostor and at least two humans:    *)
(* start() checks it, and nobody enters or leaves afterwards.              *)
FairRoster(g) ==
  /\ Cardinality(Impostors(g)) <= 1
  /\ g.state # "LOBBY" => /\ Cardinality(Impostors(g)) = 1
                          /\ Cardinality(Humans(g)) >= 2

RosterIsFair == FairRoster(game)

(* The ballots: only humans, only other players, none before the voting;   *)
(* while the voting is open somebody is missing and every None in the box  *)
(* is an abstention its voter asked for.                                   *)
ProperBallots(g) ==
  /\ g.state \in {"LOBBY", "ROUND", "DISCUSSION"} => DOMAIN g.votes = {}
  /\ DOMAIN g.votes \subseteq Humans(g)
  /\ \A v \in DOMAIN g.votes : g.votes[v] \in (Players(g) \ {v}) \cup {None}
  /\ g.abstentions \subseteq DOMAIN g.votes \ Scorable(g)

SoundBallots(g) ==
  /\ ProperBallots(g)
  /\ g.state = "VOTING" => /\ DOMAIN g.votes # Humans(g)
                           /\ PresentHumans(g) = DOMAIN g.votes

BallotsAreSound == SoundBallots(game)

(* The reason a game gives for its end is the one the records support: a   *)
(* completed vote has every human present, a voting timeout has a quorum   *)
(* but not everybody, and quorum_lost means that fewer than two humans     *)
(* acted in the phase that ran out.                                        *)
ReasonHasEvidence(g) ==
  /\ g.state = "REVEAL" <=> g.interruption # "none" \/ g.close # "none"
  /\ g.interruption = "none" \/ g.close = "none"
  /\ g.close # "none" => DOMAIN g.votes = Humans(g)
  /\ g.close = "completed" => PresentHumans(g) = Humans(g)
  /\ g.close = "voting_timeout" =>
       /\ PresentHumans(g) # Humans(g)
       /\ Cardinality(PresentHumans(g)) >= QuorumMinHumans
  /\ g.interruption \in TurnFailures =>
       ~RoundComplete(g, g.round) /\ DOMAIN g.votes = {}
  /\ g.interruption = "quorum_lost" =>
       IF RoundComplete(g, g.round)
         THEN /\ DOMAIN g.votes = Humans(g)
              /\ Cardinality(PresentHumans(g)) < QuorumMinHumans
         ELSE /\ DOMAIN g.votes = {}
              /\ Cardinality(SubmittedHumans(g)) < QuorumMinHumans

ReasonsHaveEvidence == ReasonHasEvidence(game)

RoundsEnded(g) == IF RoundComplete(g, g.round) THEN g.round ELSE g.round - 1

(* The sink tells the same story as the records: one game.started, then    *)
(* for each round its start and, exactly when everyone has answered it,    *)
(* its completion, then one game.closed exactly when the game is revealed, *)
(* with the payload that result() gives to every later reader.             *)
LogTellsTheGame(g) ==
  LET story == g.round + RoundsEnded(g) + 1
  IN IF g.state = "LOBBY" THEN g.events = << >> ELSE
     /\ Len(g.events) = story + IF g.state = "REVEAL" THEN 1 ELSE 0
     /\ g.events[1] = GameStarted
     /\ \A k \in 1..g.round : g.events[2 * k] = RoundStarted(k)
     /\ \A k \in 1..RoundsEnded(g) : g.events[2 * k + 1] = RoundCompleted(k)
     /\ g.state = "REVEAL" => g.events[story + 1] = ClosePayload(g)

LogIsTheGame == LogTellsTheGame(game)

----------------------------------------------------------------------------
PhaseNumber(g) ==
  CASE g.state = "LOBBY" -> 0
    [] g.state = "ROUND" -> g.round
    [] g.state = "DISCUSSION" -> Rounds + 1
    [] g.state = "VOTING" -> Rounds + 2
    [] g.state = "REVEAL" -> Rounds + 3

(* One call never skips a phase, other than to the reveal, and never goes  *)
(* back; and a phase that begins has its whole window ahead, however late  *)
(* in the previous one the call came.                                      *)
PhasesAdvance ==
  [][/\ \/ PhaseNumber(game') \in {PhaseNumber(game), PhaseNumber(game) + 1}
        \/ game.state \in TimedStates /\ game'.state = "REVEAL"
     /\ PhaseNumber(game') # PhaseNumber(game) /\ game'.state \in TimedStates
          => game'.window = IF Timed THEN "open" ELSE "none"]_game

(* What was accepted is kept: no message or event is lost, no vote is      *)
(* rewritten (a forced abstention fills only an empty place), the roster   *)
(* is fixed once the game has started, and a revealed game never changes.  *)
RecordsOnlyGrow ==
  [][/\ game.messages \subseteq game'.messages
     /\ \A v \in DOMAIN game.votes :
          v \in DOMAIN game'.votes /\ game'.votes[v] = game.votes[v]
     /\ \A i \in DOMAIN game.events :
          i \in DOMAIN game'.events /\ game'.events[i] = game.events[i]
     /\ game.state # "LOBBY" => game'.players = game.players
     /\ game.state # "REVEAL"]_game

(* check_expiration runs before anything is accepted: once the window of a *)
(* round has run out no message enters it, and once that of the voting has *)
(* no ballot of a player does.  (A vote that finds the discussion expired  *)
(* opens the voting, and is cast in it.)                                   *)
NothingAfterTheBell ==
  [][Expired(game) =>
       /\ game'.messages = game.messages
       /\ game.state = "VOTING" =>
            /\ game'.abstentions = game.abstentions
            /\ Scorable(game') = Scorable(game)]_game

(* Every game that starts is revealed, whatever its players do or omit.    *)
EveryGameEnds == game.state # "LOBBY" ~> game.state = "REVEAL"

(* The game implements the life cycle its clients and event log rely on.   *)
LC == INSTANCE Lifecycle
        WITH state <- game.state, round <- game.round, log <- game.events

FollowsLifecycle == LC!Spec

============================================================================
