---------------------------- MODULE GameProofs ----------------------------
(***************************************************************************)
(* The invariants of Game for every value of the constants.  Sound is the  *)
(* inductive invariant: a predicate of one game, so that each method of    *)
(* GameRules has a lemma of its own (from a sound game to a sound game)    *)
(* and the proof of a step only has to name the methods that a call makes. *)
(* What the methods do to types comes first, then what they do to Sound,   *)
(* then the theorems; what one step may do, and the refinement of          *)
(* Lifecycle, are in the second part.                                      *)
(***************************************************************************)
EXTENDS Game, FiniteSetTheorems, TLAPS

USE RoundsAssumption, TimedAssumption, MaxPlayersAssumption

Typed(g) == g \in GameType /\ Len(g.players) <= MaxPlayers

(* The players are the aliases 1 to n, as add_player numbers them.         *)
LEMMA PlayersAreNumbered ==
  ASSUME NEW g, Typed(g)
  PROVE  /\ Players(g) = 1..Len(g.players)
         /\ Players(g) \subseteq Aliases
         /\ IsFiniteSet(Players(g))
         /\ Cardinality(Players(g)) = Len(g.players)
<1>1. g.players \in Seq(BOOLEAN) /\ Len(g.players) \in Nat
  BY DEF Typed, GameType
<1>2. Players(g) = 1..Len(g.players)
  BY <1>1 DEF Players
<1>3. Players(g) \subseteq Aliases
  BY <1>1, <1>2 DEF Typed, Aliases
<1>4. IsFiniteSet(Players(g)) /\ Cardinality(Players(g)) = Len(g.players)
  BY <1>1, <1>2, FS_Interval
<1>5. QED  BY <1>2, <1>3, <1>4

(* What it takes to be a box of ballots.                                   *)
LEMMA BallotsAreFunctions ==
  ASSUME NEW votes
  PROVE  votes \in BallotBoxes <=>
           /\ DOMAIN votes \subseteq Aliases
           /\ votes = [a \in DOMAIN votes |-> votes[a]]
           /\ \A a \in DOMAIN votes : votes[a] \in Aliases \cup {None}
  BY DEF BallotBoxes

(* The events of a round are events.                                       *)
LEMMA EventsAreTyped ==
  ASSUME NEW k \in 1..Rounds
  PROVE  /\ GameStarted \in Event
         /\ RoundStarted(k) \in Event
         /\ RoundCompleted(k) \in Event
  BY DEF Event, GameStarted, RoundStarted, RoundCompleted

(* Emitting an event keeps the types.                                      *)
LEMMA EmitIsTyped ==
  ASSUME NEW g, Typed(g), NEW e \in Event
  PROVE  Typed(Emit(g, e))
<1>1. g.events \in Seq(Event)
  BY DEF Typed, GameType
<1>2. Append(g.events, e) \in Seq(Event)
  BY <1>1
<1>3. QED  BY <1>2 DEF Typed, GameType, Emit

(* Opening a window keeps the types.                                       *)
LEMMA SetDeadlineIsTyped ==
  ASSUME NEW g, Typed(g)
  PROVE  Typed(SetDeadline(g))
  BY DEF Typed, GameType, SetDeadline

(* Those who vote or abstain are finitely many.                            *)
LEMMA PresenceIsFinite ==
  ASSUME NEW g, Typed(g)
  PROVE  /\ IsFiniteSet(DOMAIN g.votes)
         /\ IsFiniteSet(Scorable(g)) /\ IsFiniteSet(PresentHumans(g))
         /\ IsFiniteSet(SubmittedHumans(g))
         /\ IsFiniteSet(Humans(g)) /\ IsFiniteSet(Impostors(g))
<1>1. IsFiniteSet(Aliases)
  BY FS_Interval DEF Aliases
<1>2. DOMAIN g.votes \subseteq Aliases /\ g.abstentions \subseteq Aliases
  BY BallotsAreFunctions DEF Typed, GameType
<1>3. g.messages \subseteq Message
  BY DEF Typed, GameType
<1>4. SubmittedHumans(g) \subseteq Aliases
  BY <1>3 DEF SubmittedHumans, Current, Message
<1>5. /\ Scorable(g) \subseteq Aliases /\ PresentHumans(g) \subseteq Aliases
      /\ Humans(g) \subseteq Aliases /\ Impostors(g) \subseteq Aliases
  BY <1>2, PlayersAreNumbered DEF Scorable, PresentHumans, Humans, Impostors
<1>6. QED  BY <1>1, <1>2, <1>4, <1>5, FS_Subset

(* The payload of the close is an event.                                   *)
LEMMA EmitCloseIsTyped ==
  ASSUME NEW g, Typed(g), g.interruption # "none" \/ g.close # "none"
  PROVE  Typed(EmitClose(g)) /\ ClosePayload(g) \in Event
<1>1. {a \in Scorable(g) : g.votes[a] \in Impostors(g)} \subseteq Scorable(g)
  OBVIOUS
<1>2. DetectionRate(g) \in Nat \X Nat
  BY <1>1, PresenceIsFinite, FS_Subset, FS_CardinalityType DEF DetectionRate
<1>3. /\ g.interruption \in Interruptions \cup {"none"}
      /\ g.close \in Closings \cup {"none"}
  BY DEF Typed, GameType
<1>4. ClosePayload(g) \in Event
  BY <1>2, <1>3 DEF ClosePayload, Event, ValidGame
<1>5. QED  BY <1>4, EmitIsTyped DEF EmitClose

(* Both ways to the reveal keep the types.                                 *)
LEMMA ClosingIsTyped ==
  ASSUME NEW g, Typed(g)
  PROVE  /\ \A r \in Interruptions : Typed(Interrupt(g, r))
         /\ \A r \in Closings : Typed(CompleteReveal(g, r))
<1>1. "none" \notin Interruptions /\ "none" \notin Closings
  BY DEF Interruptions, TurnFailures, Closings
<1>2. ASSUME NEW r \in Interruptions  PROVE Typed(Interrupt(g, r))
  <2> DEFINE h == [g EXCEPT !.interruption = r, !.state = "REVEAL"]
  <2>1. Typed(h) /\ h.interruption = r
    BY DEF Typed, GameType, States
  <2>2. QED  BY <1>1, <2>1, EmitCloseIsTyped DEF Interrupt
<1>3. ASSUME NEW r \in Closings  PROVE Typed(CompleteReveal(g, r))
  <2> DEFINE h == [g EXCEPT !.close = r, !.state = "REVEAL"]
  <2>1. Typed(h) /\ h.close = r
    BY DEF Typed, GameType, States
  <2>2. QED  BY <1>1, <2>1, EmitCloseIsTyped DEF CompleteReveal
<1>4. QED  BY <1>2, <1>3

(* Filling the box with abstentions keeps the types.                       *)
LEMMA ForceVotesIsTyped ==
  ASSUME NEW g, Typed(g)
  PROVE  Typed(ForceVotes(g))
<1> DEFINE box == [a \in DOMAIN g.votes \cup Humans(g) |->
                     IF a \in DOMAIN g.votes THEN g.votes[a] ELSE None]
<1>1. g.votes \in BallotBoxes
  BY DEF Typed, GameType
<1>2. Humans(g) \subseteq Aliases
  BY PlayersAreNumbered DEF Humans
<1>3. box \in BallotBoxes
  BY <1>1, <1>2, BallotsAreFunctions
<1>4. QED  BY <1>3 DEF Typed, GameType, ForceVotes

(* check_expiration() keeps the types.                                     *)
LEMMA CheckExpirationIsTyped ==
  ASSUME NEW g, Typed(g)
  PROVE  Typed(CheckExpiration(g))
<1>1. ExpireRound(g) \in {Interrupt(g, "quorum_lost"), Interrupt(g, "round_timeout")}
  BY DEF ExpireRound
<1>2. Typed(ExpireRound(g))
  BY <1>1, ClosingIsTyped DEF Interruptions, TurnFailures
<1>3. Typed(OpenBallot(g))
  <2>1. Typed([g EXCEPT !.state = "VOTING"])
    BY DEF Typed, GameType, States
  <2>2. QED  BY <2>1, SetDeadlineIsTyped DEF OpenBallot
<1>4. Typed(CloseVoting(g))
  BY ForceVotesIsTyped, ClosingIsTyped
     DEF CloseVoting, Interruptions, TurnFailures, Closings
<1>5. QED
  BY <1>2, <1>3, <1>4 DEF CheckExpiration, Expired, TimedStates

(* submit_message() keeps the types.                                       *)
LEMMA SubmitMessageIsTyped ==
  ASSUME NEW g, Typed(g), g.round \in 1..Rounds, NEW a \in Aliases
  PROVE  Typed(SubmitMessage(g, a))
<1> DEFINE posted == [g EXCEPT !.messages =
                        @ \cup {[round |-> g.round, alias |-> a]}]
<1>1. Typed(posted) /\ posted.round = g.round
  BY DEF Typed, GameType, Message
<1>2. ASSUME g.round < Rounds  PROVE Typed(NextRound(posted))
  <2> DEFINE next == [posted EXCEPT !.round = @ + 1]
  <2>0. posted.round + 1 \in 0..Rounds
    BY <1>1, <1>2
  <2>1. Typed(next)
    BY <1>1, <2>0 DEF Typed, GameType
  <2>2. Typed(SetDeadline(next))
    BY <2>1, SetDeadlineIsTyped
  <2>3. RoundCompleted(g.round) \in Event /\ RoundStarted(g.round + 1) \in Event
    BY <1>2, EventsAreTyped
  <2>4. QED  BY <1>1, <2>2, <2>3, EmitIsTyped DEF NextRound
<1>3. Typed(EndRounds(posted))
  <2> DEFINE ended == [posted EXCEPT !.state = "DISCUSSION"]
  <2>1. Typed(ended)
    BY <1>1 DEF Typed, GameType, States
  <2>2. QED
    BY <1>1, <2>1, SetDeadlineIsTyped, EmitIsTyped, EventsAreTyped DEF EndRounds
<1>4. QED  BY <1>1, <1>2, <1>3 DEF SubmitMessage

(* cast_vote() keeps the types.                                            *)
LEMMA CastVoteIsTyped ==
  ASSUME NEW g, Typed(g), NEW v \in Aliases, NEW s \in Aliases \cup {None}
  PROVE  Typed(CastVote(g, v, s))
<1> DEFINE box == [a \in DOMAIN g.votes \cup {v} |-> IF a = v THEN s ELSE g.votes[a]]
           cast == [g EXCEPT !.votes = box,
                      !.abstentions = @ \cup (IF s = None THEN {v} ELSE {})]
<1>1. box \in BallotBoxes
  BY BallotsAreFunctions DEF Typed, GameType
<1>2. Typed(cast)
  BY <1>1 DEF Typed, GameType
<1>3. CastVote(g, v, s) \in {cast, CompleteReveal(cast, "completed")}
  BY DEF CastVote
<1>4. QED  BY <1>2, <1>3, ClosingIsTyped DEF Closings

(* start() keeps the types.                                                *)
LEMMA StartIsTyped ==
  ASSUME NEW g, Typed(g)
  PROVE  Typed(Start(g))
<1> DEFINE h == [g EXCEPT !.state = "ROUND", !.round = 1]
<1>0. 1 \in 0..Rounds
  OBVIOUS
<1>1. Typed(h)
  BY <1>0 DEF Typed, GameType, States
<1>2. GameStarted \in Event /\ RoundStarted(1) \in Event
  BY EventsAreTyped
<1>3. QED  BY <1>1, <1>2, SetDeadlineIsTyped, EmitIsTyped DEF Start

----------------------------------------------------------------------------
(* The inductive invariant of Game, as a property of a game: its type, the *)
(* shape of a game that has not begun, and the safety properties.          *)
Unbegun(g) ==
  /\ g.state = "LOBBY" <=> g.round = 0
  /\ g.state = "LOBBY" => g.messages = {}

Sound(g) ==
  /\ Typed(g)
  /\ Unbegun(g)
  /\ FairRoster(g)
  /\ RoundsInOrder(g)
  /\ SoundBallots(g)
  /\ ReasonHasEvidence(g)
  /\ LogTellsTheGame(g)

(* A game under way, whose ballots may all be in: what a close starts from. *)
Closable(g) ==
  /\ Typed(g)
  /\ g.state \in TimedStates
  /\ g.round \in 1..Rounds
  /\ FairRoster(g)
  /\ RoundsInOrder(g)
  /\ ProperBallots(g)
  /\ g.interruption = "none" /\ g.close = "none"
  /\ LogTellsTheGame(g)

(* The invariant holds in a new game.                                      *)
LEMMA NewGameIsSound == Sound(NewGame)
<1>1. Typed(NewGame)
  <2>1. [a \in {} |-> None] \in BallotBoxes
    BY BallotsAreFunctions
  <2>2. << >> \in Seq(BOOLEAN) /\ << >> \in Seq(Event) /\ Len(<< >>) = 0
    OBVIOUS
  <2>3. QED  BY <2>1, <2>2 DEF Typed, GameType, NewGame, States
<1>2. Unbegun(NewGame) /\ RoundsInOrder(NewGame) /\ LogTellsTheGame(NewGame)
  BY DEF Unbegun, RoundsInOrder, LogTellsTheGame, NewGame
<1>3. FairRoster(NewGame)
  BY FS_EmptySet DEF FairRoster, NewGame, Impostors, Players
<1>4. SoundBallots(NewGame)
  BY DEF SoundBallots, ProperBallots, NewGame
<1>5. ReasonHasEvidence(NewGame)
  BY DEF ReasonHasEvidence, NewGame, TurnFailures
<1>6. QED  BY <1>1, <1>2, <1>3, <1>4, <1>5 DEF Sound

(* Every sound game under way can be closed.                               *)
LEMMA SoundIsClosable ==
  ASSUME NEW g, Sound(g), g.state \in TimedStates
  PROVE  Closable(g)
  BY DEF Sound, Closable, Unbegun, SoundBallots, ReasonHasEvidence, TimedStates,
         Typed, GameType

(* Emitting the close is all the log needs when a game is revealed.        *)
LEMMA LogOfAClose ==
  ASSUME NEW g, Closable(g), NEW h, Typed(h), h.state = "REVEAL",
         h.players = g.players, h.messages = g.messages, h.round = g.round,
         h.events = Append(g.events, ClosePayload(h))
  PROVE  LogTellsTheGame(h)
<1>1. RoundsEnded(h) = RoundsEnded(g)
  BY DEF RoundsEnded, RoundComplete, Answered, Players
<1>2. RoundsEnded(g) \in {g.round, g.round - 1} /\ g.round \in 1..Rounds
  BY DEF RoundsEnded, Closable
<1> DEFINE story == g.round + RoundsEnded(g) + 1
<1>3. /\ Len(g.events) = story
      /\ g.events[1] = GameStarted
      /\ \A k \in 1..g.round : g.events[2 * k] = RoundStarted(k)
      /\ \A k \in 1..RoundsEnded(g) : g.events[2 * k + 1] = RoundCompleted(k)
  BY <1>2 DEF LogTellsTheGame, Closable, TimedStates
<1>4. g.events \in Seq(Event)
  BY DEF Closable, Typed, GameType
<1>5. /\ Len(h.events) = story + 1
      /\ h.events[story + 1] = ClosePayload(h)
      /\ \A i \in 1..story : h.events[i] = g.events[i]
  BY <1>2, <1>3, <1>4, SMTT(30)
<1>6. /\ \A k \in 1..g.round : 2 * k \in 1..story
      /\ \A k \in 1..RoundsEnded(g) : 2 * k + 1 \in 1..story
      /\ 1 \in 1..story
  BY <1>2
<1>7. QED  BY <1>1, <1>2, <1>3, <1>5, <1>6 DEF LogTellsTheGame

(* What both ways of closing a game keep.                                  *)
LEMMA CloseKeepsRecords ==
  ASSUME NEW g, Closable(g), NEW h, Typed(h), h.state = "REVEAL",
         h.players = g.players, h.messages = g.messages, h.round = g.round,
         h.votes = g.votes, h.abstentions = g.abstentions,
         h.close # "none" => g.state = "VOTING",
         h.events = Append(g.events, ClosePayload(h))
  PROVE  /\ Typed(h) /\ Unbegun(h) /\ FairRoster(h) /\ RoundsInOrder(h)
         /\ SoundBallots(h) /\ LogTellsTheGame(h)
<1>1. Unbegun(h)
  BY DEF Unbegun, Closable
<1>2. FairRoster(h)
  BY DEF FairRoster, Closable, TimedStates, Impostors, Humans, Players
<1>3. RoundsInOrder(h)
  BY DEF RoundsInOrder, Closable, RoundComplete, Answered, Players
<1>4. SoundBallots(h)
  BY DEF SoundBallots, ProperBallots, Closable, Humans, Players, Scorable
<1>5. LogTellsTheGame(h)
  BY LogOfAClose
<1>6. QED  BY <1>1, <1>2, <1>3, <1>4, <1>5

(* interrupt(), given a reason that the records support.                   *)
LEMMA InterruptIsSound ==
  ASSUME NEW g, Closable(g), NEW r \in Interruptions,
         r \in TurnFailures =>
           ~RoundComplete(g, g.round) /\ DOMAIN g.votes = {},
         r = "quorum_lost" =>
           IF RoundComplete(g, g.round)
             THEN /\ DOMAIN g.votes = Humans(g)
                  /\ Cardinality(PresentHumans(g)) < QuorumMinHumans
             ELSE /\ DOMAIN g.votes = {}
                  /\ Cardinality(SubmittedHumans(g)) < QuorumMinHumans
  PROVE  Sound(Interrupt(g, r))
<1> DEFINE i == [g EXCEPT !.interruption = r, !.state = "REVEAL"]
           h == Interrupt(g, r)
<1>1. "none" \notin Interruptions
  BY DEF Interruptions, TurnFailures
<1>2. Typed(h)
  BY ClosingIsTyped DEF Closable
<1>3. /\ h.state = "REVEAL" /\ h.players = g.players /\ h.messages = g.messages
      /\ h.round = g.round /\ h.votes = g.votes /\ h.abstentions = g.abstentions
      /\ h.interruption = r /\ h.close = "none"
      /\ h.events = Append(g.events, ClosePayload(i))
  BY DEF Interrupt, EmitClose, Emit, Closable, Typed, GameType
<1>4. ClosePayload(i) = ClosePayload(h)
  BY <1>3, SMTT(30) DEF ClosePayload, ValidGame, DetectionRate, Scorable, Impostors, Players,
              Closable, Typed, GameType
<1>5. /\ Typed(h) /\ Unbegun(h) /\ FairRoster(h) /\ RoundsInOrder(h)
      /\ SoundBallots(h) /\ LogTellsTheGame(h)
  BY <1>2, <1>3, <1>4, CloseKeepsRecords
<1>6. ReasonHasEvidence(h)
  BY <1>1, <1>3 DEF ReasonHasEvidence, RoundComplete, Answered, Players, Humans,
       Impostors, SubmittedHumans, Current, PresentHumans, Scorable
<1>7. QED  BY <1>5, <1>6 DEF Sound

(* _complete_reveal(), once every human is in the box.                     *)
LEMMA CompleteRevealIsSound ==
  ASSUME NEW g, Closable(g), g.state = "VOTING", NEW r \in Closings,
         DOMAIN g.votes = Humans(g),
         r = "completed" => PresentHumans(g) = Humans(g),
         r = "voting_timeout" =>
           /\ PresentHumans(g) # Humans(g)
           /\ Cardinality(PresentHumans(g)) >= QuorumMinHumans
  PROVE  Sound(CompleteReveal(g, r))
<1> DEFINE i == [g EXCEPT !.close = r, !.state = "REVEAL"]
           h == CompleteReveal(g, r)
<1>1. "none" \notin Closings /\ "none" \notin Interruptions
  BY DEF Closings, Interruptions, TurnFailures
<1>2. Typed(h)
  BY ClosingIsTyped DEF Closable
<1>3. /\ h.state = "REVEAL" /\ h.players = g.players /\ h.messages = g.messages
      /\ h.round = g.round /\ h.votes = g.votes /\ h.abstentions = g.abstentions
      /\ h.interruption = "none" /\ h.close = r
      /\ h.events = Append(g.events, ClosePayload(i))
  BY DEF CompleteReveal, EmitClose, Emit, Closable, Typed, GameType
<1>4. ClosePayload(i) = ClosePayload(h)
  BY <1>3, SMTT(30) DEF ClosePayload, ValidGame, DetectionRate, Scorable, Impostors, Players,
              Closable, Typed, GameType
<1>5. /\ Typed(h) /\ Unbegun(h) /\ FairRoster(h) /\ RoundsInOrder(h)
      /\ SoundBallots(h) /\ LogTellsTheGame(h)
  BY <1>2, <1>3, <1>4, CloseKeepsRecords
<1>6. ReasonHasEvidence(h)
  BY <1>1, <1>3 DEF ReasonHasEvidence, Players, Humans, PresentHumans, Scorable,
       Interruptions
<1>7. QED  BY <1>5, <1>6 DEF Sound

----------------------------------------------------------------------------
(* check_expiration keeps the invariant in each of its phases.             *)
LEMMA RosterIsPopulated ==
  ASSUME NEW g, Sound(g), g.state # "LOBBY"
  PROVE  Humans(g) # {} /\ Players(g) # {} /\ g.round \in 1..Rounds
<1>1. Cardinality(Humans(g)) >= 2
  BY DEF Sound, FairRoster
<1>2. Humans(g) # {}
  BY <1>1, FS_EmptySet
<1>3. QED  BY <1>2 DEF Humans, Sound, Unbegun, Typed, GameType

(* The voting begins with an empty box.                                    *)
LEMMA OpenBallotIsSound ==
  ASSUME NEW g, Sound(g), g.state = "DISCUSSION"
  PROVE  Sound(OpenBallot(g))
<1> DEFINE h == OpenBallot(g)
<1>1. Typed(h)
  <2>1. Typed([g EXCEPT !.state = "VOTING"])
    BY DEF Typed, GameType, States, Sound
  <2>2. QED  BY <2>1, SetDeadlineIsTyped DEF OpenBallot
<1>2. /\ h.state = "VOTING" /\ h.players = g.players /\ h.messages = g.messages
      /\ h.round = g.round /\ h.votes = g.votes /\ h.abstentions = g.abstentions
      /\ h.interruption = g.interruption /\ h.close = g.close
      /\ h.events = g.events
  BY DEF OpenBallot, SetDeadline, Sound, Typed, GameType
<1>3. Unbegun(h) /\ FairRoster(h) /\ RoundsInOrder(h)
  BY <1>2 DEF Sound, Unbegun, FairRoster, RoundsInOrder, RoundComplete, Answered,
              Impostors, Humans, Players
<1>4. SoundBallots(h)
  BY <1>2, RosterIsPopulated DEF Sound, SoundBallots, ProperBallots, Humans, Players,
              PresentHumans, Scorable
<1>5. ReasonHasEvidence(h)
  BY <1>2 DEF Sound, ReasonHasEvidence, TurnFailures
<1>6. LogTellsTheGame(h)
  BY <1>2 DEF Sound, LogTellsTheGame, RoundsEnded, RoundComplete, Answered, Players
<1>7. QED  BY <1>1, <1>3, <1>4, <1>5, <1>6 DEF Sound

(* The expiration of a round: interrupted, with its reason.                *)
LEMMA ExpireRoundIsSound ==
  ASSUME NEW g, Sound(g), g.state = "ROUND"
  PROVE  Sound(ExpireRound(g))
<1>1. Closable(g)
  BY SoundIsClosable DEF TimedStates
<1>2. ~RoundComplete(g, g.round) /\ DOMAIN g.votes = {}
  BY DEF Sound, RoundsInOrder, SoundBallots, ProperBallots
<1>3. CASE Cardinality(SubmittedHumans(g)) < QuorumMinHumans
  BY <1>1, <1>2, <1>3, InterruptIsSound DEF ExpireRound, Interruptions, TurnFailures
<1>4. CASE ~(Cardinality(SubmittedHumans(g)) < QuorumMinHumans)
  BY <1>1, <1>2, <1>4, InterruptIsSound DEF ExpireRound, Interruptions, TurnFailures
<1>5. QED  BY <1>3, <1>4

(* A voting that runs out: its silent humans are entered with None.        *)
LEMMA ForcedVotesAreClosable ==
  ASSUME NEW g, Sound(g), g.state = "VOTING"
  PROVE  LET f == ForceVotes(g)
         IN /\ Closable(f) /\ f.state = "VOTING" /\ f.round = g.round
            /\ f.players = g.players /\ f.messages = g.messages
            /\ f.abstentions = g.abstentions /\ f.events = g.events
            /\ \A v \in DOMAIN g.votes : v \in DOMAIN f.votes /\ f.votes[v] = g.votes[v]
            /\ DOMAIN f.votes = Humans(f) /\ Scorable(f) = Scorable(g)
            /\ PresentHumans(f) # Humans(f) /\ RoundComplete(f, f.round)
<1> DEFINE f == ForceVotes(g)
<1>1. Closable(g)
  BY SoundIsClosable DEF TimedStates
<1>2. Typed(f)
  BY <1>1, ForceVotesIsTyped DEF Closable
<1>3. /\ f.state = "VOTING" /\ f.players = g.players /\ f.messages = g.messages
      /\ f.round = g.round /\ f.abstentions = g.abstentions
      /\ f.interruption = g.interruption /\ f.close = g.close
      /\ f.events = g.events
      /\ f.votes = [a \in DOMAIN g.votes \cup Humans(g) |->
                      IF a \in DOMAIN g.votes THEN g.votes[a] ELSE None]
  BY DEF ForceVotes, Sound, Typed, GameType
<1>4. /\ Players(f) = Players(g) /\ Humans(f) = Humans(g) /\ Impostors(f) = Impostors(g)
      /\ DOMAIN f.votes = Humans(g)
      /\ Scorable(f) = Scorable(g) /\ PresentHumans(f) = PresentHumans(g)
  BY <1>3 DEF Players, Humans, Impostors, Scorable, PresentHumans, Sound, SoundBallots,
              ProperBallots
<1>5. ProperBallots(f)
  BY <1>3, <1>4 DEF ProperBallots, Sound, SoundBallots, Scorable
<1>6. Closable(f)
  <2>1. \A k : RoundComplete(f, k) <=> RoundComplete(g, k)
    BY <1>3, <1>4 DEF RoundComplete, Answered
  <2>2. FairRoster(f)
    BY <1>1, <1>3, <1>4 DEF Closable, FairRoster
  <2>3. RoundsInOrder(f)
    BY <1>1, <1>3, <1>4, <2>1 DEF Closable, RoundsInOrder
  <2>4. RoundsEnded(f) = RoundsEnded(g)
    BY <1>3, <2>1 DEF RoundsEnded
  <2>5. LogTellsTheGame(f)
    BY <1>1, <1>3, <2>4 DEF Closable, LogTellsTheGame
  <2>6. QED  BY <1>1, <1>2, <1>3, <1>5, <2>2, <2>3, <2>5 DEF Closable
<1>7. PresentHumans(f) # Humans(f) /\ RoundComplete(f, f.round)
  BY <1>3, <1>4 DEF Sound, SoundBallots, RoundsInOrder, RoundComplete, Answered
<1>8. QED  BY <1>3, <1>4, <1>6, <1>7

(* The expiration of the voting: a quorum or none.                         *)
LEMMA CloseVotingIsSound ==
  ASSUME NEW g, Sound(g), g.state = "VOTING"
  PROVE  Sound(CloseVoting(g))
<1> DEFINE f == ForceVotes(g)
<1>1. /\ Closable(f) /\ f.state = "VOTING" /\ DOMAIN f.votes = Humans(f)
      /\ PresentHumans(f) # Humans(f) /\ RoundComplete(f, f.round)
  BY ForcedVotesAreClosable
<1> HIDE DEF f
<1>2. CASE Cardinality(PresentHumans(f)) < QuorumMinHumans
  BY <1>1, <1>2, InterruptIsSound DEF CloseVoting, Interruptions, TurnFailures, f
<1>3. CASE ~(Cardinality(PresentHumans(f)) < QuorumMinHumans)
  <2>1. Cardinality(PresentHumans(f)) >= QuorumMinHumans
    BY <1>1, <1>3, PresenceIsFinite, FS_CardinalityType DEF QuorumMinHumans, Closable
  <2>2. QED
    BY <1>1, <1>3, <2>1, CompleteRevealIsSound DEF CloseVoting, Closings, f
<1>4. QED  BY <1>2, <1>3

(* check_expiration() keeps the invariant.                                 *)
LEMMA CheckExpirationIsSound ==
  ASSUME NEW g, Sound(g)
  PROVE  Sound(CheckExpiration(g))
  BY ExpireRoundIsSound, OpenBallotIsSound, CloseVotingIsSound
     DEF CheckExpiration, Expired, TimedStates

----------------------------------------------------------------------------
(* The methods keep the invariant when their conditions hold.              *)
LEMMA AddPlayerIsSound ==
  ASSUME NEW g, Sound(g), NEW ai \in BOOLEAN, CanAddPlayer(g, ai),
         Len(g.players) < MaxPlayers
  PROVE  Sound(AddPlayer(g, ai))
<1> DEFINE h == AddPlayer(g, ai)  n == Len(g.players) + 1
<1>1. g.players \in Seq(BOOLEAN)
  BY DEF Sound, Typed, GameType
<1>2. /\ Append(g.players, ai) \in Seq(BOOLEAN)
      /\ Len(Append(g.players, ai)) = n
      /\ \A i \in 1..(n - 1) : Append(g.players, ai)[i] = g.players[i]
      /\ Append(g.players, ai)[n] = ai
      /\ n \in Nat /\ n <= MaxPlayers
  BY <1>1
<1>3. Typed(h)
  BY <1>2 DEF Sound, Typed, GameType, AddPlayer
<1>4. /\ h.state = "LOBBY" /\ h.players = Append(g.players, ai)
      /\ h.messages = g.messages /\ h.round = g.round /\ h.votes = g.votes
      /\ h.abstentions = g.abstentions /\ h.interruption = g.interruption
      /\ h.close = g.close /\ h.events = g.events
  BY DEF AddPlayer, CanAddPlayer, Sound, Typed, GameType
<1>5. Unbegun(h) /\ RoundsInOrder(h) /\ SoundBallots(h) /\ LogTellsTheGame(h)
  BY <1>4 DEF Unbegun, RoundsInOrder, SoundBallots, ProperBallots, LogTellsTheGame, Sound,
              CanAddPlayer
<1>6. ReasonHasEvidence(h)
  BY <1>4 DEF ReasonHasEvidence, Sound, CanAddPlayer, TurnFailures
<1>7. FairRoster(h)
  <2>1. Players(h) = Players(g) \cup {n} /\ Players(g) = 1..(n - 1)
    BY <1>2, <1>3, <1>4, PlayersAreNumbered DEF Sound
  <2>2. Impostors(h) = IF ai THEN Impostors(g) \cup {n} ELSE Impostors(g)
    BY <1>2, <1>4, <2>1 DEF Impostors
  <2>3. CASE ai
    <3>1. Impostors(h) = {n}
      BY <2>2, <2>3 DEF CanAddPlayer
    <3>2. Cardinality({n}) = 1
      BY FS_Singleton
    <3>3. QED  BY <1>4, <3>1, <3>2 DEF FairRoster
  <2>4. CASE ~ai
    BY <1>4, <2>2, <2>4 DEF FairRoster, Sound
  <2>5. QED  BY <2>3, <2>4
<1>8. QED  BY <1>3, <1>5, <1>6, <1>7 DEF Sound

(* start() keeps the invariant.                                            *)
LEMMA StartIsSound ==
  ASSUME NEW g, Sound(g), CanStart(g)
  PROVE  Sound(Start(g))
<1> DEFINE h == Start(g)
<1>1. Typed(h)
  BY StartIsTyped DEF Sound
<1>2. /\ h.state = "ROUND" /\ h.round = 1 /\ h.players = g.players
      /\ h.messages = g.messages /\ h.votes = g.votes
      /\ h.abstentions = g.abstentions /\ h.interruption = g.interruption
      /\ h.close = g.close
      /\ h.events = Append(Append(g.events, GameStarted), RoundStarted(1))
  BY DEF Start, Emit, SetDeadline, Sound, Typed, GameType
<1>3. /\ g.state = "LOBBY" /\ g.messages = {} /\ g.events = << >>
      /\ DOMAIN g.votes = {} /\ g.interruption = "none" /\ g.close = "none"
  BY DEF CanStart, Sound, Unbegun, LogTellsTheGame, SoundBallots, ProperBallots,
         ReasonHasEvidence
<1>4. Players(h) # {}
  <2>1. Humans(g) # {}
    BY FS_EmptySet DEF CanStart
  <2>2. QED  BY <1>2, <2>1 DEF Players, Humans
<1>5. Unbegun(h) /\ FairRoster(h)
  BY <1>2 DEF Unbegun, FairRoster, CanStart, Impostors, Humans, Players
<1>6. ~RoundComplete(h, 1) /\ RoundsInOrder(h)
  BY <1>2, <1>3, <1>4 DEF RoundComplete, Answered, RoundsInOrder
<1>7. SoundBallots(h)
  BY <1>2, <1>3 DEF SoundBallots, ProperBallots, Sound
<1>8. ReasonHasEvidence(h)
  BY <1>2, <1>3 DEF ReasonHasEvidence, TurnFailures
<1>9. LogTellsTheGame(h)
  <2>1. RoundsEnded(h) = 0
    BY <1>2, <1>6 DEF RoundsEnded
  <2>2. Len(h.events) = 2 /\ h.events[1] = GameStarted /\ h.events[2] = RoundStarted(1)
    BY <1>2, <1>3
  <2>3. QED  BY <1>2, <2>1, <2>2 DEF LogTellsTheGame
<1>10. QED  BY <1>1, <1>5, <1>6, <1>7, <1>8, <1>9 DEF Sound

(* A log that tells n starts and m ends of rounds, and how it grows.       *)
Tells(log, n, m) ==
  /\ log[1] = GameStarted
  /\ \A k \in 1..n : log[2 * k] = RoundStarted(k)
  /\ \A k \in 1..m : log[2 * k + 1] = RoundCompleted(k)

(* A log that tells k starts and m ends suits a game that has had them.    *)
LEMMA ToldLog ==
  ASSUME NEW g, NEW k \in 1..Rounds, NEW m \in 0..Rounds,
         g.state \in TimedStates, g.round = k, RoundsEnded(g) = m,
         Len(g.events) = k + m + 1, Tells(g.events, k, m)
  PROVE  LogTellsTheGame(g)
  BY DEF LogTellsTheGame, Tells, TimedStates

(* A log of k starts and k - 1 ends, and one more end ...                  *)
LEMMA TellingAnEnd ==
  ASSUME NEW log \in Seq(Event), NEW k \in 1..Rounds,
         Len(log) = 2 * k, Tells(log, k, k - 1)
  PROVE  /\ Append(log, RoundCompleted(k)) \in Seq(Event)
         /\ Len(Append(log, RoundCompleted(k))) = 2 * k + 1
         /\ Tells(Append(log, RoundCompleted(k)), k, k)
<1> DEFINE c == Append(log, RoundCompleted(k))
<1>1. /\ c \in Seq(Event) /\ Len(c) = 2 * k + 1 /\ c[2 * k + 1] = RoundCompleted(k)
      /\ \A i \in 1..(2 * k) : c[i] = log[i]
  BY EventsAreTyped
<1> HIDE DEF c
<1>2. c[1] = GameStarted
  BY <1>1 DEF Tells
<1>3. ASSUME NEW j \in 1..k  PROVE c[2 * j] = RoundStarted(j)
  <2>1. 2 * j \in 1..(2 * k)  OBVIOUS
  <2>2. QED  BY <1>1, <2>1 DEF Tells
<1>4. ASSUME NEW j \in 1..k  PROVE c[2 * j + 1] = RoundCompleted(j)
  <2>1. CASE j = k  BY <1>1, <2>1
  <2>2. CASE j # k
    <3>1. 2 * j + 1 \in 1..(2 * k) /\ j \in 1..(k - 1)  BY <2>2
    <3>2. QED  BY <1>1, <3>1 DEF Tells
  <2>3. QED  BY <2>1, <2>2
<1>5. Tells(c, k, k)
  BY <1>2, <1>3, <1>4 DEF Tells
<1>6. QED  BY <1>1, <1>5 DEF c

(* ... and one more start.                                                 *)
LEMMA TellingAStart ==
  ASSUME NEW log \in Seq(Event), NEW k \in 1..Rounds, k < Rounds,
         Len(log) = 2 * k + 1, Tells(log, k, k)
  PROVE  /\ Append(log, RoundStarted(k + 1)) \in Seq(Event)
         /\ Len(Append(log, RoundStarted(k + 1))) = 2 * k + 2
         /\ Tells(Append(log, RoundStarted(k + 1)), k + 1, k)
<1> DEFINE c == Append(log, RoundStarted(k + 1))
<1>1. /\ c \in Seq(Event) /\ Len(c) = 2 * k + 2
      /\ c[2 * (k + 1)] = RoundStarted(k + 1)
      /\ \A i \in 1..(2 * k + 1) : c[i] = log[i]
  <2>1. RoundStarted(k + 1) \in Event
    BY EventsAreTyped
  <2>2. Len(log) \in Nat /\ Len(log) + 1 = 2 * (k + 1)
    OBVIOUS
  <2>3. QED  BY <2>1, <2>2
<1> HIDE DEF c
<1>2. c[1] = GameStarted
  BY <1>1 DEF Tells
<1>3. ASSUME NEW j \in 1..(k + 1)  PROVE c[2 * j] = RoundStarted(j)
  <2>1. CASE j = k + 1  BY <1>1, <2>1
  <2>2. CASE j # k + 1
    <3>1. 2 * j \in 1..(2 * k + 1) /\ j \in 1..k  BY <2>2
    <3>2. QED  BY <1>1, <3>1 DEF Tells
  <2>3. QED  BY <2>1, <2>2
<1>4. ASSUME NEW j \in 1..k  PROVE c[2 * j + 1] = RoundCompleted(j)
  <2>1. 2 * j + 1 \in 1..(2 * k + 1)  OBVIOUS
  <2>2. QED  BY <1>1, <2>1 DEF Tells
<1>5. Tells(c, k + 1, k)
  BY <1>2, <1>3, <1>4 DEF Tells
<1>6. QED  BY <1>1, <1>5 DEF c

(* A round has been answered by those who have a message in it.            *)
LEMMA AnswersAreMessages ==
  ASSUME NEW g, Typed(g), NEW k, NEW a
  PROVE  a \in Answered(g, k) <=> [round |-> k, alias |-> a] \in g.messages
<1>1. \A m \in g.messages : m = [round |-> m.round, alias |-> m.alias]
  BY DEF Typed, GameType, Message
<1>2. ASSUME a \in Answered(g, k)  PROVE [round |-> k, alias |-> a] \in g.messages
  BY <1>1, <1>2 DEF Answered
<1>3. ASSUME [round |-> k, alias |-> a] \in g.messages  PROVE a \in Answered(g, k)
  BY <1>3 DEF Answered
<1>4. QED  BY <1>2, <1>3

(* An alias answers a round at most once, so that the messages of a round  *)
(* count its answered players.                                             *)
LEMMA CurrentCountsAnswers ==
  ASSUME NEW g, Sound(g)
  PROVE  /\ IsFiniteSet(Answered(g, g.round))
         /\ Answered(g, g.round) \subseteq Players(g)
         /\ Cardinality(Current(g)) = Cardinality(Answered(g, g.round))
<1> DEFINE f == [a \in Answered(g, g.round) |-> [round |-> g.round, alias |-> a]]
<1>1. g.messages \subseteq Message
  BY DEF Sound, Typed, GameType
<1>2. Answered(g, g.round) \subseteq Players(g)
  BY DEF Answered, Sound, RoundsInOrder
<1>3. IsFiniteSet(Answered(g, g.round))
  BY <1>2, PlayersAreNumbered, FS_Subset DEF Sound
<1>4. \A m \in Current(g) : m = [round |-> g.round, alias |-> m.alias]
  BY <1>1 DEF Current, Message
<1>5. Answered(g, g.round) = {m.alias : m \in Current(g)}
  BY DEF Answered, Current
<1>6. f \in [Answered(g, g.round) -> Current(g)]
  <2>1. ASSUME NEW a \in Answered(g, g.round)
        PROVE  [round |-> g.round, alias |-> a] \in Current(g)
    BY <1>4, <1>5
  <2>2. QED  BY <2>1
<1>7. \A m \in Current(g) : m.alias \in Answered(g, g.round) /\ f[m.alias] = m
  BY <1>4, <1>5
<1>8. f \in Bijection(Answered(g, g.round), Current(g))
  <2>1. \A a \in Answered(g, g.round) : f[a].alias = a
    OBVIOUS
  <2>2. f \in Injection(Answered(g, g.round), Current(g))
    BY <1>6, <2>1 DEF Injection, IsInjective
  <2>3. f \in Surjection(Answered(g, g.round), Current(g))
    BY <1>6, <1>7 DEF Surjection
  <2>4. QED  BY <2>2, <2>3 DEF Bijection
<1>9. ExistsBijection(Answered(g, g.round), Current(g))
  BY <1>8 DEF ExistsBijection
<1>10. QED  BY <1>2, <1>3, <1>9, FS_Bijection

(* submit_message() keeps the invariant.                                   *)
LEMMA SubmitMessageIsSound ==
  ASSUME NEW g, Sound(g), NEW a, NEW t, NEW x, CanSubmit(g, a, t, x)
  PROVE  Sound(SubmitMessage(g, a))
<1> DEFINE p == [g EXCEPT !.messages = @ \cup {[round |-> g.round, alias |-> a]}]
           h == SubmitMessage(g, a)
           k == g.round
<1>1. /\ g.state = "ROUND" /\ a \in Players(g) /\ k \in 1..Rounds
      /\ ~RoundComplete(g, k) /\ DOMAIN g.votes = {} /\ g.abstentions = {}
      /\ g.interruption = "none" /\ g.close = "none"
      /\ RoundsEnded(g) = k - 1
  BY RosterIsPopulated DEF CanSubmit, Sound, RoundsInOrder, SoundBallots, ProperBallots,
     ReasonHasEvidence, RoundsEnded
<1>2. Typed(h)
  BY <1>1, PlayersAreNumbered, SubmitMessageIsTyped DEF Sound
<1>3. /\ p.state = "ROUND" /\ p.players = g.players /\ p.round = k
      /\ p.messages = g.messages \cup {[round |-> k, alias |-> a]}
      /\ p.votes = g.votes /\ p.abstentions = g.abstentions
      /\ p.interruption = "none" /\ p.close = "none" /\ p.events = g.events
      /\ p.window = g.window
  BY <1>1 DEF Sound, Typed, GameType
<1>15. h = IF Cardinality(Current(g)) + 1 # Len(g.players) THEN p
           ELSE IF k < Rounds THEN NextRound(p) ELSE EndRounds(p)
  BY DEF SubmitMessage
<1>16. Typed(p) /\ k = g.round
  <2>1. [round |-> k, alias |-> a] \in Message
    BY <1>1, PlayersAreNumbered DEF Sound, Message
  <2>2. QED  BY <2>1 DEF Sound, Typed, GameType
<1> HIDE DEF p, h, k
<1>4. \A j : Answered(p, j) = IF j = k THEN Answered(g, j) \cup {a} ELSE Answered(g, j)
  <2>1. \A j, b : b \in Answered(p, j) <=>
           [round |-> j, alias |-> b] \in g.messages \/ (j = k /\ b = a)
    BY <1>3, <1>16, AnswersAreMessages
  <2>2. \A j, b : b \in Answered(g, j) <=> [round |-> j, alias |-> b] \in g.messages
    BY AnswersAreMessages DEF Sound
  <2>3. \A j, b : b \in Answered(p, j) <=> b \in Answered(g, j) \/ (j = k /\ b = a)
    BY <2>1, <2>2
  <2>4. ASSUME NEW j, j # k  PROVE Answered(p, j) = Answered(g, j)
    <3>1. \A b : b \in Answered(p, j) <=> b \in Answered(g, j)
      BY <2>3, <2>4
    <3>2. QED  BY <3>1, Zenon
  <2>5. \A b : b \in Answered(p, k) <=> b \in Answered(g, k) \cup {a}
    BY <2>3, Zenon
  <2>6. Answered(p, k) = Answered(g, k) \cup {a}
    BY <2>5, Zenon
  <2>7. QED  BY <2>4, <2>6
<1>5. a \notin Answered(g, k)
  BY <1>16 DEF CanSubmit, Answered, Current
<1>6. /\ Answered(p, k) \subseteq Players(p)
      /\ Cardinality(Answered(p, k)) = Cardinality(Current(g)) + 1
  <2>1. /\ IsFiniteSet(Answered(g, k)) /\ Answered(g, k) \subseteq Players(g)
        /\ Cardinality(Current(g)) = Cardinality(Answered(g, k))
    BY <1>16, CurrentCountsAnswers
  <2>2. Answered(p, k) = Answered(g, k) \cup {a}
    BY <1>4
  <2>3. QED  BY <1>1, <1>3, <1>5, <2>1, <2>2, FS_AddElement DEF Players
<1>7. RoundComplete(p, k) <=> Cardinality(Current(g)) + 1 = Len(g.players)
  BY <1>3, <1>6, PlayersAreNumbered, FS_Subset DEF RoundComplete, Players, Sound
<1>8. /\ \A m \in p.messages : m.round <= k /\ m.alias \in Players(p)
      /\ \A j \in 1..(k - 1) : RoundComplete(p, j)
  <2>1. \A m \in g.messages : m.round <= k /\ m.alias \in Players(g)
    BY <1>16 DEF Sound, RoundsInOrder
  <2>2. \A j \in 1..(k - 1) : RoundComplete(g, j) /\ j # k
    BY <1>1, <1>16 DEF Sound, RoundsInOrder
  <2>3. \A m \in p.messages : m.round <= k /\ m.alias \in Players(p)
    BY <1>1, <1>3, <1>16, <2>1 DEF Players
  <2>4. \A j \in 1..(k - 1) : RoundComplete(p, j)
    BY <1>3, <1>4, <2>2 DEF RoundComplete, Players
  <2>5. QED  BY <2>3, <2>4
<1>9. g.events \in Seq(Event) /\ Len(g.events) = 2 * k
  <2>1. g.events \in Seq(Event)
    BY DEF Sound, Typed, GameType
  <2>2. LogTellsTheGame(g)
    BY DEF Sound
  <2>3. Len(g.events) = k + (k - 1) + 1 + 0
    BY <1>1, <1>16, <2>2 DEF LogTellsTheGame
  <2>4. QED  BY <1>1, <2>1, <2>3
<1>10. Tells(g.events, k, k - 1)
  BY <1>1, <1>16 DEF Sound, LogTellsTheGame, Tells
<1>11. ASSUME h.state \in {"ROUND", "DISCUSSION"}, h.round \in 1..Rounds,
              h.players = g.players, h.votes = g.votes, h.abstentions = g.abstentions,
              h.interruption = "none", h.close = "none"
       PROVE  Unbegun(h) /\ FairRoster(h) /\ SoundBallots(h) /\ ReasonHasEvidence(h)
  <2>1. Unbegun(h)
    BY <1>11 DEF Unbegun
  <2>2. FairRoster(h)
    BY <1>1, <1>11 DEF FairRoster, Sound, Impostors, Humans, Players
  <2>3. SoundBallots(h)
    BY <1>1, <1>11 DEF SoundBallots, ProperBallots
  <2>4. ReasonHasEvidence(h)
    BY <1>11 DEF ReasonHasEvidence, TurnFailures
  <2>5. QED  BY <2>1, <2>2, <2>3, <2>4
<1>12. CASE Cardinality(Current(g)) + 1 # Len(g.players)
  <2>1. h = p
    BY <1>12, <1>15
  <2>2. RoundsInOrder(h)
    BY <1>3, <1>7, <1>8, <1>12, <2>1 DEF RoundsInOrder
  <2>3. RoundsEnded(h) = k - 1
    BY <1>3, <1>7, <1>12, <2>1 DEF RoundsEnded
  <2>4. LogTellsTheGame(h)
    <3>1. k - 1 \in 0..Rounds /\ 2 * k = k + (k - 1) + 1
      BY <1>1
    <3>2. QED  BY <1>1, <1>3, <1>9, <1>10, <2>1, <2>3, <3>1, ToldLog DEF TimedStates
  <2>5. QED  BY <1>1, <1>2, <1>3, <1>11, <2>1, <2>2, <2>4 DEF Sound, h
<1>13. CASE Cardinality(Current(g)) + 1 = Len(g.players) /\ k < Rounds
  <2>1. h = NextRound(p)
    BY <1>13, <1>15
  <2>2. /\ h.state = "ROUND" /\ h.round = k + 1 /\ h.players = g.players
        /\ h.messages = p.messages /\ h.votes = g.votes
        /\ h.abstentions = g.abstentions
        /\ h.interruption = "none" /\ h.close = "none"
        /\ h.events = Append(Append(g.events, RoundCompleted(k)), RoundStarted(k + 1))
    BY <1>1, <1>3, <1>16, <2>1 DEF NextRound, Emit, SetDeadline, Typed, GameType
  <2>3. \A j : RoundComplete(h, j) <=> RoundComplete(p, j)
    BY <1>3, <2>2 DEF RoundComplete, Answered, Players
  <2>4. Answered(h, k + 1) = {} /\ Players(h) # {}
    BY <1>1, <1>3, <1>8, <2>2 DEF Answered, Players
  <2>5. RoundsInOrder(h)
    <3>1. \A m \in h.messages : m.round <= k + 1 /\ m.alias \in Players(h)
      <4>1. g.messages \subseteq Message
        BY DEF Sound, Typed, GameType
      <4>2. QED  BY <1>1, <1>3, <1>8, <2>2, <4>1 DEF Players, Message
    <3>2. \A j \in 1..k : RoundComplete(h, j)
      BY <1>1, <1>7, <1>8, <1>13, <2>3
    <3>3. QED  BY <1>1, <2>2, <2>4, <3>1, <3>2 DEF RoundsInOrder, RoundComplete
  <2>6. RoundsEnded(h) = k
    BY <1>1, <2>2, <2>4 DEF RoundsEnded, RoundComplete
  <2>7. Len(h.events) = 2 * k + 2 /\ Tells(h.events, k + 1, k)
    BY <1>1, <1>9, <1>10, <1>13, <2>2, TellingAnEnd, TellingAStart, ZenonT(60)
  <2>8. LogTellsTheGame(h)
    <3>1. k + 1 \in 1..Rounds /\ k \in 0..Rounds /\ 2 * k + 2 = (k + 1) + k + 1
      BY <1>1, <1>13
    <3>2. QED  BY <2>2, <2>6, <2>7, <3>1, ToldLog DEF TimedStates
  <2>9. h.round \in 1..Rounds
    BY <1>1, <1>13, <2>2
  <2>10. QED  BY <1>2, <1>11, <2>2, <2>5, <2>8, <2>9 DEF Sound, h
<1>14. CASE Cardinality(Current(g)) + 1 = Len(g.players) /\ ~(k < Rounds)
  <2>1. h = EndRounds(p) /\ k = Rounds
    BY <1>1, <1>14, <1>15
  <2>2. /\ h.state = "DISCUSSION" /\ h.round = k /\ h.players = g.players
        /\ h.messages = p.messages /\ h.votes = g.votes
        /\ h.abstentions = g.abstentions
        /\ h.interruption = "none" /\ h.close = "none"
        /\ h.events = Append(g.events, RoundCompleted(k))
    BY <1>1, <1>3, <1>16, <2>1 DEF EndRounds, Emit, SetDeadline, Typed, GameType
  <2>3. \A j : RoundComplete(h, j) <=> RoundComplete(p, j)
    BY <1>3, <2>2 DEF RoundComplete, Answered, Players
  <2>4. RoundsInOrder(h)
    BY <1>1, <1>3, <1>7, <1>8, <1>14, <2>1, <2>2, <2>3 DEF RoundsInOrder, Players
  <2>5. RoundsEnded(h) = k
    BY <1>7, <1>14, <2>2, <2>3 DEF RoundsEnded
  <2>6. Len(h.events) = 2 * k + 1 /\ Tells(h.events, k, k)
    BY <1>1, <1>9, <1>10, <2>2, TellingAnEnd
  <2>7. LogTellsTheGame(h)
    <3>1. k \in 0..Rounds /\ 2 * k + 1 = k + k + 1
      BY <1>1
    <3>2. QED  BY <1>1, <2>2, <2>5, <2>6, <3>1, ToldLog DEF TimedStates
  <2>8. QED  BY <1>1, <1>2, <1>11, <2>2, <2>4, <2>7 DEF Sound, h
<1>17. QED  BY <1>12, <1>13, <1>14 DEF h

(* cast_vote() keeps the invariant, the closing vote included.             *)
LEMMA CastVoteIsSound ==
  ASSUME NEW g, Sound(g), NEW v, NEW s, CanVote(g, v, s)
  PROVE  Sound(CastVote(g, v, s))
<1> DEFINE c == [g EXCEPT
                   !.votes = [a \in DOMAIN @ \cup {v} |-> IF a = v THEN s ELSE @[a]],
                   !.abstentions = @ \cup (IF s = None THEN {v} ELSE {})]
<1>1. /\ g.state = "VOTING" /\ v \in Humans(g) /\ v \notin DOMAIN g.votes
      /\ s \in (Players(g) \ {v}) \cup {None}
      /\ DOMAIN g.votes \subseteq Humans(g) /\ Closable(g)
  BY SoundIsClosable DEF CanVote, Sound, SoundBallots, ProperBallots, TimedStates
<1>2. v \in Aliases /\ s \in Aliases \cup {None} /\ None \notin Aliases
  BY <1>1, PlayersAreNumbered DEF Sound, Humans, Aliases, None
<1> DEFINE box == [a \in DOMAIN g.votes \cup {v} |-> IF a = v THEN s ELSE g.votes[a]]
<1>3. /\ c.state = "VOTING" /\ c.players = g.players /\ c.messages = g.messages
      /\ c.round = g.round /\ c.interruption = g.interruption /\ c.close = g.close
      /\ c.events = g.events /\ c.votes = box
      /\ c.abstentions = g.abstentions \cup (IF s = None THEN {v} ELSE {})
  BY <1>1 DEF Sound, Typed, GameType
<1>4. Typed(c)
  <2>1. box \in BallotBoxes
    BY <1>2, BallotsAreFunctions DEF Sound, Typed, GameType
  <2>2. QED  BY <1>2, <2>1 DEF Sound, Typed, GameType
<1>5. CastVote(g, v, s) =
        IF Cardinality(DOMAIN c.votes) = Cardinality(Humans(g))
          THEN CompleteReveal(c, "completed") ELSE c
  BY DEF CastVote
<1> HIDE DEF c
<1>6. /\ Players(c) = Players(g) /\ Humans(c) = Humans(g) /\ Impostors(c) = Impostors(g)
      /\ DOMAIN c.votes = DOMAIN g.votes \cup {v}
      /\ c.votes[v] = s /\ \A a \in DOMAIN g.votes : c.votes[a] = g.votes[a]
  BY <1>1, <1>3 DEF Players, Humans, Impostors
<1>7. Scorable(c) = IF s = None THEN Scorable(g) ELSE Scorable(g) \cup {v}
  BY <1>1, <1>6 DEF Scorable
<1>8. PresentHumans(c) = DOMAIN c.votes
  BY <1>1, <1>3, <1>6, <1>7 DEF PresentHumans, Sound, SoundBallots
<1>9. ProperBallots(c)
  <2>1. DOMAIN c.votes \subseteq Humans(c)
    BY <1>1, <1>6
  <2>2. \A a \in DOMAIN c.votes : c.votes[a] \in (Players(c) \ {a}) \cup {None}
    BY <1>1, <1>6 DEF Sound, SoundBallots, ProperBallots
  <2>3. c.abstentions \subseteq DOMAIN c.votes \ Scorable(c)
    BY <1>1, <1>3, <1>6, <1>7 DEF Sound, SoundBallots, ProperBallots, Scorable
  <2>4. QED  BY <1>3, <2>1, <2>2, <2>3 DEF ProperBallots
<1>10. /\ Unbegun(c) /\ FairRoster(c) /\ RoundsInOrder(c) /\ LogTellsTheGame(c)
       /\ ReasonHasEvidence(c)
  <2>1. \A k : RoundComplete(c, k) <=> RoundComplete(g, k)
    BY <1>3, <1>6 DEF RoundComplete, Answered
  <2>2. Unbegun(c) /\ FairRoster(c)
    BY <1>1, <1>3, <1>6 DEF Unbegun, FairRoster, Sound
  <2>3. RoundsInOrder(c)
    BY <1>1, <1>3, <1>6, <2>1 DEF RoundsInOrder, Sound
  <2>4. LogTellsTheGame(c)
    BY <1>1, <1>3, <2>1 DEF LogTellsTheGame, RoundsEnded, Sound
  <2>5. ReasonHasEvidence(c)
    BY <1>1, <1>3 DEF ReasonHasEvidence, Closable, TurnFailures
  <2>6. QED  BY <2>2, <2>3, <2>4, <2>5
<1>11. Closable(c)
  BY <1>1, <1>3, <1>4, <1>9, <1>10 DEF Closable, TimedStates
<1>12. CASE Cardinality(DOMAIN c.votes) = Cardinality(Humans(g))
  <2>1. DOMAIN c.votes = Humans(c)
    BY <1>1, <1>6, <1>12, PresenceIsFinite, FS_Subset DEF Sound
  <2>2. Sound(CompleteReveal(c, "completed"))
    BY <1>3, <1>8, <1>11, <2>1, CompleteRevealIsSound DEF Closings
  <2>3. QED  BY <1>5, <1>12, <2>2
<1>13. CASE Cardinality(DOMAIN c.votes) # Cardinality(Humans(g))
  <2>1. SoundBallots(c)
    BY <1>3, <1>6, <1>8, <1>9, <1>13 DEF SoundBallots
  <2>2. Sound(c)
    BY <1>4, <1>10, <2>1 DEF Sound
  <2>3. QED  BY <1>5, <1>13, <2>2
<1>14. QED  BY <1>12, <1>13

(* A turn of the impostor that is given up keeps the invariant.            *)
LEMMA FailTurnIsSound ==
  ASSUME NEW g, Sound(g), g.state = "ROUND", NEW r \in TurnFailures
  PROVE  Sound(Interrupt(g, r))
<1>1. r \in Interruptions /\ r # "quorum_lost"
  BY DEF Interruptions, TurnFailures
<1>2. Closable(g)
  BY SoundIsClosable DEF TimedStates
<1>3. ~RoundComplete(g, g.round) /\ DOMAIN g.votes = {}
  BY DEF Sound, RoundsInOrder, SoundBallots, ProperBallots
<1>4. QED  BY <1>1, <1>2, <1>3, InterruptIsSound

(* Time alone breaks nothing.                                              *)
LEMMA ElapseIsSound ==
  ASSUME NEW g, Sound(g)
  PROVE  Sound([g EXCEPT !.window = "due"])
<1> DEFINE h == [g EXCEPT !.window = "due"]
<1>1. Typed(h)
  BY DEF Sound, Typed, GameType
<1>2. /\ h.state = g.state /\ h.players = g.players /\ h.messages = g.messages
      /\ h.round = g.round /\ h.votes = g.votes /\ h.abstentions = g.abstentions
      /\ h.interruption = g.interruption /\ h.close = g.close /\ h.events = g.events
  BY DEF Sound, Typed, GameType
<1> HIDE DEF h
<1>3. /\ Players(h) = Players(g) /\ Humans(h) = Humans(g) /\ Impostors(h) = Impostors(g)
      /\ Scorable(h) = Scorable(g) /\ PresentHumans(h) = PresentHumans(g)
      /\ SubmittedHumans(h) = SubmittedHumans(g)
  BY <1>2 DEF Players, Humans, Impostors, Scorable, PresentHumans, SubmittedHumans, Current
<1>4. \A k : RoundComplete(h, k) <=> RoundComplete(g, k)
  BY <1>2, <1>3 DEF RoundComplete, Answered
<1>5. ClosePayload(h) = ClosePayload(g)
  BY <1>2, <1>3 DEF ClosePayload, ValidGame, DetectionRate
<1>6. Unbegun(h) /\ FairRoster(h) /\ SoundBallots(h)
  BY <1>2, <1>3 DEF Unbegun, FairRoster, SoundBallots, ProperBallots, Sound
<1>7. RoundsInOrder(h)
  BY <1>2, <1>3, <1>4 DEF RoundsInOrder, Sound
<1>8. ReasonHasEvidence(h)
  BY <1>2, <1>3, <1>4 DEF ReasonHasEvidence, Sound
<1>9. LogTellsTheGame(h)
  BY <1>2, <1>4, <1>5 DEF LogTellsTheGame, RoundsEnded, Sound
<1>10. QED  BY <1>1, <1>6, <1>7, <1>8, <1>9 DEF Sound, h

----------------------------------------------------------------------------
(* One call of the game, whichever it is and however late it comes.        *)
LEMMA StepIsSound ==
  ASSUME Sound(game), [Next]_game
  PROVE  Sound(game')
<1> DEFINE g == CheckExpiration(game)
<1>1. Sound(g)
  BY CheckExpirationIsSound
<1>2. ASSUME NEW ai \in BOOLEAN, Join(ai)  PROVE Sound(game')
  BY <1>2, AddPlayerIsSound DEF Join
<1>3. CASE Begin
  BY <1>3, StartIsSound DEF Begin
<1>4. ASSUME NEW a, NEW t, NEW x, Say(a, t, x)  PROVE Sound(game')
  BY <1>1, <1>4, SubmitMessageIsSound DEF Say
<1>5. CASE CallVote
  BY <1>1, <1>5, OpenBallotIsSound DEF CallVote, CanOpenVoting
<1>6. ASSUME NEW v, NEW s, Vote(v, s)  PROVE Sound(game')
  BY <1>1, <1>6, CastVoteIsSound DEF Vote
<1>7. ASSUME NEW r \in TurnFailures, FailTurn(r)  PROVE Sound(game')
  BY <1>7, FailTurnIsSound DEF FailTurn, CanTakeTurn
<1>8. CASE Poll
  BY <1>1, <1>8 DEF Poll
<1>9. CASE Elapse
  BY <1>9, ElapseIsSound DEF Elapse
<1>10. CASE UNCHANGED game
  BY <1>10
<1>11. QED
  BY <1>2, <1>3, <1>4, <1>5, <1>6, <1>7, <1>8, <1>9, <1>10 DEF Next

(* Whatever the callers do, in whatever order and however late, the game   *)
(* stays sound: for any number of rounds, any bound on the players, with   *)
(* and without windows.                                                    *)
THEOREM GameIsSound == Spec => []Sound(game)
<1>1. Init => Sound(game)
  BY NewGameIsSound DEF Init
<1>2. Sound(game) /\ [Next]_game => Sound(game)'
  BY StepIsSound
<1>3. QED  BY <1>1, <1>2, PTL DEF Spec

(* Every attribute of the game keeps its type.                             *)
THEOREM TypeCorrect == Spec => []TypeOK
<1>1. Sound(game) => TypeOK
  BY DEF Sound, Typed, TypeOK
<1>2. QED  BY <1>1, GameIsSound, PTL

(* A round is left behind only when everybody, the impostor included, has  *)
(* answered it, and the voting comes after the last.                       *)
THEOREM EveryRoundIsComplete == Spec => []RoundsAreComplete
<1>1. Sound(game) => RoundsAreComplete
  BY DEF Sound, RoundsAreComplete
<1>2. QED  BY <1>1, GameIsSound, PTL

(* A game that has begun has one impostor and two humans at least.         *)
THEOREM EveryRosterIsFair == Spec => []RosterIsFair
<1>1. Sound(game) => RosterIsFair
  BY DEF Sound, RosterIsFair
<1>2. QED  BY <1>1, GameIsSound, PTL

(* The box holds a ballot of humans only, for others or for nobody, and    *)
(* somebody is missing from it while the voting is open.                   *)
THEOREM EveryBallotIsSound == Spec => []BallotsAreSound
<1>1. Sound(game) => BallotsAreSound
  BY DEF Sound, BallotsAreSound
<1>2. QED  BY <1>1, GameIsSound, PTL

(* The reason a game gives for its end is borne out by its records.        *)
THEOREM EveryReasonHasEvidence == Spec => []ReasonsHaveEvidence
<1>1. Sound(game) => ReasonsHaveEvidence
  BY DEF Sound, ReasonsHaveEvidence
<1>2. QED  BY <1>1, GameIsSound, PTL

(* The events the sink was given tell what the records of the game tell.   *)
THEOREM EveryLogTellsItsGame == Spec => []LogIsTheGame
<1>1. Sound(game) => LogIsTheGame
  BY DEF Sound, LogIsTheGame
<1>2. QED  BY <1>1, GameIsSound, PTL

-----------------------------------------------------------------------------
(* What one step of Game may do: its action properties, and that every     *)
(* step of Game is a step of Lifecycle or changes nothing Lifecycle sees.  *)
(* Each operator of Game is looked at by itself; a call is                 *)
(* check_expiration followed by at most one of them.                       *)

(* h remembers all that g did.                                             *)
Remembers(h, g) ==
  /\ g.messages \subseteq h.messages
  /\ \A v \in DOMAIN g.votes : v \in DOMAIN h.votes /\ h.votes[v] = g.votes[v]
  /\ \A i \in DOMAIN g.events : i \in DOMAIN h.events /\ h.events[i] = g.events[i]
  /\ g.state # "LOBBY" => h.players = g.players /\ h.state # "LOBBY"

(* Remembering is reflexive ...                                            *)
LEMMA RemembersItself == ASSUME NEW g  PROVE Remembers(g, g)
  BY DEF Remembers

(* ... and transitive, so a call of two parts remembers if both do.        *)
LEMMA RemembersIsTransitive ==
  ASSUME NEW f, NEW g, NEW h, Remembers(g, f), Remembers(h, g)
  PROVE  Remembers(h, f)
  BY DEF Remembers

(* The steps of Lifecycle, as relations between two games.                 *)
Same(g, h) == h.state = g.state /\ h.round = g.round /\ h.events = g.events

Opens(g, h) ==
  /\ g.state = "DISCUSSION" /\ h.state = "VOTING"
  /\ h.round = g.round /\ h.events = g.events

Ends(g, h) ==
  /\ g.state \in TimedStates /\ h.state = "REVEAL" /\ h.round = g.round
  /\ \E e \in Event : /\ h.events = Append(g.events, e)
                      /\ e.type = "game.closed"
                      /\ e.valid => g.state = "VOTING"

Begins(g, h) ==
  /\ g.state = "LOBBY" /\ h.state = "ROUND" /\ h.round = 1
  /\ h.events = Append(Append(g.events, GameStarted), RoundStarted(1))

Advances(g, h) ==
  /\ g.state = "ROUND" /\ g.round < Rounds
  /\ h.state = "ROUND" /\ h.round = g.round + 1
  /\ h.events = Append(Append(g.events, RoundCompleted(g.round)),
                       RoundStarted(g.round + 1))

Discusses(g, h) ==
  /\ g.state = "ROUND" /\ g.round = Rounds
  /\ h.state = "DISCUSSION" /\ h.round = g.round
  /\ h.events = Append(g.events, RoundCompleted(g.round))

Fresh(h) == h.window = IF Timed THEN "open" ELSE "none"

(* One step: what Lifecycle sees of it, the records kept, a fresh window.  *)
Stepped(g, h) ==
  /\ \/ Same(g, h)
     \/ Begins(g, h) \/ Advances(g, h) \/ Discusses(g, h) \/ Opens(g, h)
     \/ Ends(g, h)
  /\ Same(g, h) \/ Ends(g, h) \/ Fresh(h)
  /\ Remembers(h, g)

(* Opening the voting is the abstract StartVoting.                         *)
LEMMA OpenBallotSteps ==
  ASSUME NEW g, Sound(g), g.state = "DISCUSSION"
  PROVE  Opens(g, OpenBallot(g)) /\ Stepped(g, OpenBallot(g))
  BY DEF Opens, Stepped, Fresh, Remembers, OpenBallot, SetDeadline, Sound, Typed, GameType

(* A log that is appended to is remembered.                                *)
LEMMA AppendRemembers ==
  ASSUME NEW s \in Seq(Event), NEW e \in Event
  PROVE  \A i \in DOMAIN s : i \in DOMAIN Append(s, e) /\ Append(s, e)[i] = s[i]
  OBVIOUS

(* An interruption is the abstract Reveal.                                 *)
LEMMA InterruptSteps ==
  ASSUME NEW g, Closable(g), NEW r \in Interruptions
  PROVE  Ends(g, Interrupt(g, r)) /\ Remembers(Interrupt(g, r), g)
<1> DEFINE i == [g EXCEPT !.interruption = r, !.state = "REVEAL"]
           e == ClosePayload(i)
<1>1. Typed(i) /\ i.interruption = r /\ r # "none"
  BY DEF Closable, Typed, GameType, States, Interruptions, TurnFailures
<1>2. e \in Event /\ e.type = "game.closed" /\ ~e.valid
  BY <1>1, EmitCloseIsTyped DEF ClosePayload, ValidGame
<1>3. /\ Interrupt(g, r).state = "REVEAL"
      /\ Interrupt(g, r).round = g.round
      /\ Interrupt(g, r).messages = g.messages
      /\ Interrupt(g, r).votes = g.votes
      /\ Interrupt(g, r).players = g.players
      /\ Interrupt(g, r).events = Append(g.events, e)
      /\ g.events \in Seq(Event) /\ g.state \in TimedStates
  BY DEF Interrupt, EmitClose, Emit, Closable, Typed, GameType
<1>4. QED  BY <1>2, <1>3, AppendRemembers DEF Ends, Remembers

(* So is a completed vote.                                                 *)
LEMMA CompleteRevealSteps ==
  ASSUME NEW g, Typed(g), g.state = "VOTING", NEW r \in Closings
  PROVE  Ends(g, CompleteReveal(g, r)) /\ Remembers(CompleteReveal(g, r), g)
<1> DEFINE i == [g EXCEPT !.close = r, !.state = "REVEAL"]
           e == ClosePayload(i)
<1>1. Typed(i) /\ i.close = r /\ r # "none"
  BY DEF Typed, GameType, States, Closings
<1>2. e \in Event /\ e.type = "game.closed"
  BY <1>1, EmitCloseIsTyped DEF ClosePayload
<1>3. /\ CompleteReveal(g, r).state = "REVEAL"
      /\ CompleteReveal(g, r).round = g.round
      /\ CompleteReveal(g, r).messages = g.messages
      /\ CompleteReveal(g, r).votes = g.votes
      /\ CompleteReveal(g, r).players = g.players
      /\ CompleteReveal(g, r).events = Append(g.events, e)
      /\ g.events \in Seq(Event) /\ g.state \in TimedStates
  BY DEF CompleteReveal, EmitClose, Emit, Typed, GameType, TimedStates
<1>4. QED  BY <1>2, <1>3, AppendRemembers DEF Ends, Remembers

(* So is a voting that times out.                                          *)
LEMMA CloseVotingSteps ==
  ASSUME NEW g, Sound(g), g.state = "VOTING"
  PROVE  /\ Ends(g, CloseVoting(g)) /\ Remembers(CloseVoting(g), g)
         /\ CloseVoting(g).abstentions = g.abstentions
         /\ CloseVoting(g).messages = g.messages
         /\ Scorable(CloseVoting(g)) = Scorable(g)
<1> DEFINE f == ForceVotes(g)
           h == CloseVoting(g)
<1>1. /\ Closable(f) /\ f.state = "VOTING" /\ f.round = g.round
      /\ f.players = g.players /\ f.messages = g.messages
      /\ f.abstentions = g.abstentions /\ f.events = g.events
      /\ \A v \in DOMAIN g.votes : v \in DOMAIN f.votes /\ f.votes[v] = g.votes[v]
      /\ Scorable(f) = Scorable(g)
  BY ForcedVotesAreClosable
<1>2. Remembers(f, g)
  BY <1>1 DEF Remembers
<1> HIDE DEF f
<1>3. \/ h = Interrupt(f, "quorum_lost")
      \/ h = CompleteReveal(f, "voting_timeout")
  BY DEF CloseVoting, f
<1>4. /\ h.abstentions = f.abstentions /\ h.messages = f.messages /\ h.votes = f.votes
  BY <1>1, <1>3
     DEF Interrupt, CompleteReveal, EmitClose, Emit, Closable, Typed, GameType
<1>5. Ends(f, h) /\ Remembers(h, f)
  BY <1>1, <1>3, InterruptSteps, CompleteRevealSteps
     DEF Interruptions, TurnFailures, Closings, Closable
<1> HIDE DEF h
<1>6. Ends(g, h)
  BY <1>1, <1>5 DEF Ends, TimedStates
<1>7. Remembers(h, g)
  BY <1>2, <1>5, RemembersIsTransitive
<1>8. Scorable(h) = Scorable(g)
  BY <1>1, <1>4 DEF Scorable
<1>9. QED  BY <1>1, <1>4, <1>6, <1>7, <1>8 DEF h

(* check_expiration: one step; after it nothing has expired, and it leaves *)
(* the phase of an expired game without hearing anybody.                   *)
LEMMA CheckExpirationSteps ==
  ASSUME NEW g, Sound(g)
  PROVE  LET h == CheckExpiration(g)
         IN /\ Stepped(g, h)
            /\ ~Expired(g) => h = g
            /\ Expired(g) => /\ h.messages = g.messages
                             /\ h.state # "ROUND" /\ h.state # "DISCUSSION"
            /\ Expired(g) /\ g.state = "DISCUSSION" => Opens(g, h) /\ Fresh(h)
            /\ Expired(g) /\ g.state # "DISCUSSION" => h.state = "REVEAL"
            /\ Expired(g) /\ g.state = "VOTING" =>
                 h.abstentions = g.abstentions /\ Scorable(h) = Scorable(g)
<1> DEFINE h == CheckExpiration(g)
<1>1. CASE ~Expired(g)
  BY <1>1, RemembersItself DEF CheckExpiration, Stepped, Same
<1>2. CASE Expired(g) /\ g.state = "ROUND"
  <2>1. h \in {Interrupt(g, "quorum_lost"), Interrupt(g, "round_timeout")}
    BY <1>2 DEF CheckExpiration, ExpireRound
  <2>2. Closable(g)
    BY <1>2, SoundIsClosable DEF TimedStates
  <2>3. Ends(g, h) /\ Remembers(h, g)
    BY <2>1, <2>2, InterruptSteps DEF Interruptions, TurnFailures
  <2>4. h.messages = g.messages /\ h.state = "REVEAL"
    BY <2>1 DEF Interrupt, EmitClose, Emit, Sound, Typed, GameType
  <2>5. QED  BY <1>2, <2>3, <2>4 DEF Stepped
<1>3. CASE Expired(g) /\ g.state = "DISCUSSION"
  <2>1. h = OpenBallot(g)
    BY <1>3 DEF CheckExpiration
  <2>2. h.messages = g.messages /\ h.state = "VOTING" /\ Fresh(h)
    BY <2>1 DEF OpenBallot, SetDeadline, Fresh, Sound, Typed, GameType
  <2>3. QED  BY <1>3, <2>1, <2>2, OpenBallotSteps
<1>4. CASE Expired(g) /\ g.state = "VOTING"
  <2>1. h = CloseVoting(g)
    BY <1>4 DEF CheckExpiration
  <2>2. QED  BY <1>4, <2>1, CloseVotingSteps DEF Stepped, Ends
<1>5. QED  BY <1>1, <1>2, <1>3, <1>4 DEF Expired, TimedStates

(* The message that completes a round begins the next, or the discussion.  *)
LEMMA SubmitMessageSteps ==
  ASSUME NEW g, Sound(g), NEW a, NEW t, NEW x, CanSubmit(g, a, t, x)
  PROVE  Stepped(g, SubmitMessage(g, a))
<1> DEFINE p == [g EXCEPT !.messages = @ \cup {[round |-> g.round, alias |-> a]}]
           h == SubmitMessage(g, a)
<1>1. g.state = "ROUND" /\ g.round \in 1..Rounds
  BY RosterIsPopulated DEF CanSubmit
<1>2. /\ p.state = "ROUND" /\ p.round = g.round /\ p.players = g.players
      /\ p.votes = g.votes /\ p.events = g.events /\ g.events \in Seq(Event)
      /\ g.messages \subseteq p.messages
      /\ p = [p EXCEPT !.window = p.window]
  BY <1>1 DEF Sound, Typed, GameType
<1>3. Typed(p)
  <2>1. [round |-> g.round, alias |-> a] \in Message
    BY <1>1, PlayersAreNumbered DEF CanSubmit, Sound, Message
  <2>2. QED  BY <2>1 DEF Sound, Typed, GameType
<1>4. h = IF Cardinality(Current(g)) + 1 # Len(g.players) THEN p
          ELSE IF g.round < Rounds THEN NextRound(p) ELSE EndRounds(p)
  BY DEF SubmitMessage
<1> HIDE DEF p, h
<1>5. CASE h = p
  BY <1>1, <1>2, <1>5 DEF Stepped, Same, Remembers, h
<1>6. CASE h = NextRound(p) /\ g.round < Rounds
  <2> DEFINE c == RoundCompleted(g.round)  b == RoundStarted(g.round + 1)
  <2>1. c \in Event /\ b \in Event
    BY <1>1, <1>6, EventsAreTyped
  <2>2. /\ h.state = "ROUND" /\ h.round = g.round + 1 /\ h.players = g.players
        /\ h.messages = p.messages /\ h.votes = g.votes /\ Fresh(h)
        /\ h.events = Append(Append(g.events, c), b)
    BY <1>2, <1>3, <1>6 DEF NextRound, Emit, SetDeadline, Fresh, Typed, GameType
  <2> HIDE DEF c, b
  <2>3. \A i \in DOMAIN g.events : i \in DOMAIN h.events /\ h.events[i] = g.events[i]
    BY <1>2, <2>1, <2>2
  <2>4. Remembers(h, g)
    BY <1>1, <1>2, <2>2, <2>3 DEF Remembers
  <2>5. Advances(g, h)
    BY <1>1, <1>6, <2>2 DEF Advances, c, b
  <2>6. QED  BY <2>2, <2>4, <2>5 DEF Stepped, h
<1>7. CASE h = EndRounds(p) /\ g.round = Rounds
  <2>1. RoundCompleted(g.round) \in Event
    BY <1>1, EventsAreTyped
  <2>2. /\ h.state = "DISCUSSION" /\ h.round = g.round /\ h.players = g.players
        /\ h.messages = p.messages /\ h.votes = g.votes /\ Fresh(h)
        /\ h.events = Append(g.events, RoundCompleted(g.round))
    BY <1>2, <1>3, <1>7 DEF EndRounds, Emit, SetDeadline, Fresh, Typed, GameType
  <2>3. Remembers(h, g)
    BY <1>1, <1>2, <2>1, <2>2, AppendRemembers DEF Remembers
  <2>4. Discusses(g, h)
    BY <1>1, <1>7, <2>2 DEF Discusses
  <2>5. QED  BY <2>2, <2>3, <2>4 DEF Stepped, h
<1>8. QED  BY <1>1, <1>4, <1>5, <1>6, <1>7

(* A ballot is added to the box, or is the last one and closes the game;   *)
(* the first one is never the last.                                        *)
LEMMA CastVoteSteps ==
  ASSUME NEW g, Sound(g), NEW v, NEW s, CanVote(g, v, s)
  PROVE  LET h == CastVote(g, v, s)
         IN /\ Stepped(g, h)
            /\ DOMAIN g.votes = {} => Same(g, h) /\ h.window = g.window
<1> DEFINE c == [g EXCEPT
                   !.votes = [a \in DOMAIN @ \cup {v} |-> IF a = v THEN s ELSE @[a]],
                   !.abstentions = @ \cup (IF s = None THEN {v} ELSE {})]
           h == CastVote(g, v, s)
<1> DEFINE box == [a \in DOMAIN g.votes \cup {v} |-> IF a = v THEN s ELSE g.votes[a]]
<1>1. /\ g.state = "VOTING" /\ v \in Humans(g) /\ v \notin DOMAIN g.votes
      /\ s \in (Players(g) \ {v}) \cup {None} /\ Closable(g)
  BY SoundIsClosable DEF CanVote, TimedStates
<1>2. /\ c.state = "VOTING" /\ c.players = g.players /\ c.messages = g.messages
      /\ c.round = g.round /\ c.events = g.events /\ c.votes = box
      /\ c.window = g.window
  BY <1>1 DEF Sound, Typed, GameType
<1>3. h = IF Cardinality(DOMAIN c.votes) = Cardinality(Humans(g))
            THEN CompleteReveal(c, "completed") ELSE c
  BY DEF CastVote
<1>4. Remembers(c, g)
  BY <1>1, <1>2 DEF Remembers
<1>5. ASSUME h = c  PROVE Stepped(g, h)
  BY <1>1, <1>2, <1>4, <1>5 DEF Stepped, Same
<1>6. ASSUME h = CompleteReveal(c, "completed")  PROVE Stepped(g, h)
  <2>1. Typed(c)
    <3>1. v \in Aliases /\ s \in Aliases \cup {None}
      BY <1>1, PlayersAreNumbered DEF Sound, Humans
    <3>2. box \in BallotBoxes
      BY <3>1, BallotsAreFunctions DEF Sound, Typed, GameType
    <3>3. QED  BY <3>1, <3>2 DEF Sound, Typed, GameType
  <2> HIDE DEF c, h
  <2>2. Ends(c, h) /\ Remembers(h, c)
    BY <1>2, <1>6, <2>1, CompleteRevealSteps DEF Closings
  <2>3. Ends(g, h)
    BY <1>1, <1>2, <2>2 DEF Ends
  <2>4. Remembers(h, g)
    BY <1>4, <2>2, RemembersIsTransitive
  <2>5. QED  BY <2>3, <2>4 DEF Stepped, h
<1>7. ASSUME DOMAIN g.votes = {}  PROVE h = c
  <2>1. DOMAIN c.votes = {v}
    BY <1>2, <1>7
  <2>2. Cardinality({v}) = 1 /\ Cardinality(Humans(g)) >= 2
    BY <1>1, FS_Singleton DEF Sound, FairRoster
  <2>3. QED  BY <1>3, <2>1, <2>2
<1>8. QED  BY <1>1, <1>2, <1>3, <1>5, <1>6, <1>7 DEF Same

(* start() is the abstract StartGame.                                      *)
LEMMA StartSteps ==
  ASSUME NEW g, Sound(g), CanStart(g)
  PROVE  Stepped(g, Start(g))
<1> DEFINE h == Start(g)
<1>1. g.state = "LOBBY" /\ g.events = << >>
  BY DEF CanStart, Sound, LogTellsTheGame
<1>2. /\ h.state = "ROUND" /\ h.round = 1 /\ h.messages = g.messages
      /\ h.votes = g.votes /\ Fresh(h)
      /\ h.events = Append(Append(g.events, GameStarted), RoundStarted(1))
  BY DEF Start, Emit, SetDeadline, Fresh, Sound, Typed, GameType
<1>3. QED  BY <1>1, <1>2 DEF Stepped, Begins, Remembers

(* When the voting opens nobody has voted.                                 *)
LEMMA BallotBoxStartsEmpty ==
  ASSUME NEW g, Sound(g), Expired(g), g.state = "DISCUSSION"
  PROVE  DOMAIN CheckExpiration(g).votes = {}
<1>1. CheckExpiration(g) = OpenBallot(g) /\ DOMAIN g.votes = {}
  BY DEF CheckExpiration, Sound, SoundBallots, ProperBallots
<1>2. QED  BY <1>1 DEF OpenBallot, SetDeadline, Sound, Typed, GameType

(* Every step of the game is one step of Lifecycle, or none.               *)
LEMMA EveryStep ==
  ASSUME Sound(game), Next
  PROVE  Stepped(game, game')
<1> DEFINE g == CheckExpiration(game)
<1>1. /\ Sound(g) /\ Stepped(game, g) /\ (~Expired(game) => g = game)
      /\ Expired(game) => g.state # "ROUND" /\ g.state # "DISCUSSION"
      /\ Expired(game) /\ game.state = "DISCUSSION" => Opens(game, g) /\ Fresh(g)
      /\ Expired(game) /\ game.state = "DISCUSSION" => DOMAIN g.votes = {}
      /\ Expired(game) /\ game.state # "DISCUSSION" => g.state = "REVEAL"
  BY CheckExpirationIsSound, CheckExpirationSteps, BallotBoxStartsEmpty
<1> HIDE DEF g
<1>2. ASSUME NEW ai \in BOOLEAN, Join(ai)  PROVE Stepped(game, game')
  BY <1>2 DEF Join, CanAddPlayer, AddPlayer, Stepped, Same, Remembers, Sound, Typed, GameType
<1>3. CASE Begin
  BY <1>3, StartSteps DEF Begin
<1>4. ASSUME NEW a, NEW t, NEW x, Say(a, t, x)  PROVE Stepped(game, game')
  <2>1. CASE game' = g
    BY <1>1, <2>1
  <2>2. CASE CanSubmit(g, a, t, x) /\ game' = SubmitMessage(g, a)
    <3>1. g = game
      BY <1>1, <2>2 DEF CanSubmit
    <3>2. QED  BY <1>1, <2>2, <3>1, SubmitMessageSteps
  <2>3. QED  BY <1>4, <2>1, <2>2 DEF Say, g
<1>5. CASE CallVote
  <2>1. CASE game' = g
    BY <1>1, <2>1
  <2>2. CASE CanOpenVoting(g) /\ game' = OpenBallot(g)
    <3>1. g = game
      BY <1>1, <2>2 DEF CanOpenVoting
    <3>2. QED  BY <1>1, <2>2, <3>1, OpenBallotSteps DEF CanOpenVoting
  <2>3. QED  BY <1>5, <2>1, <2>2 DEF CallVote, g
<1>6. ASSUME NEW v, NEW s, Vote(v, s)  PROVE Stepped(game, game')
  <2>1. CASE game' = g
    BY <1>1, <2>1
  <2>2. CASE CanVote(g, v, s) /\ game' = CastVote(g, v, s)
    <3>1. /\ Stepped(g, game')
          /\ DOMAIN g.votes = {} => Same(g, game') /\ game'.window = g.window
      BY <1>1, <2>2, CastVoteSteps
    <3>2. CASE g = game
      BY <3>1, <3>2
    <3>3. CASE Expired(game) /\ Opens(game, g) /\ Fresh(g)
      <4>1. DOMAIN g.votes = {}
        BY <1>1, <3>3 DEF Opens
      <4>2. Opens(game, game') /\ Fresh(game')
        BY <3>1, <3>3, <4>1 DEF Opens, Same, Fresh
      <4>3. Remembers(game', game)
        BY <1>1, <3>1, RemembersIsTransitive DEF Stepped
      <4>4. QED  BY <4>2, <4>3 DEF Stepped
    <3>4. g.state = "VOTING"
      BY <2>2 DEF CanVote
    <3>5. QED  BY <1>1, <3>2, <3>3, <3>4
  <2>3. QED  BY <1>6, <2>1, <2>2 DEF Vote, g
<1>7. ASSUME NEW r \in TurnFailures, FailTurn(r)  PROVE Stepped(game, game')
  <2>1. Closable(game) /\ r \in Interruptions
    BY <1>7, SoundIsClosable DEF FailTurn, CanTakeTurn, TimedStates, Interruptions
  <2>2. QED  BY <1>7, <2>1, InterruptSteps DEF FailTurn, Stepped
<1>8. CASE Poll
  BY <1>1, <1>8 DEF Poll, g
<1>9. CASE Elapse
  BY <1>9 DEF Elapse, Stepped, Same, Remembers, Sound, Typed, GameType
<1>10. QED
  BY <1>2, <1>3, <1>4, <1>5, <1>6, <1>7, <1>8, <1>9 DEF Next

(* Everybody but the impostor has answered the open round.                 *)
Due(g) == g.state = "ROUND" /\ Humans(g) \subseteq SubmittedHumans(g)

(* The impostor may answer, or give up, a round that is due.               *)
LEMMA ImpostorIsMissing ==
  ASSUME NEW g, Sound(g), Due(g), NEW a \in Impostors(g)
  PROVE  CanSubmit(g, a, "ok", None) /\ CanTakeTurn(g, a, g.round)
<1>1. Typed(g) /\ g.state = "ROUND" /\ ~RoundComplete(g, g.round)
  BY DEF Sound, Due, RoundsInOrder
<1>2. \A b \in Players(g) \ {a} : b \in Humans(g)
  <2>1. Cardinality(Impostors(g)) = 1
    BY <1>1 DEF Sound, FairRoster
  <2>2. PICK c : Impostors(g) = {c}
    BY <2>1, <1>1, PresenceIsFinite, FS_Singleton
  <2>3. QED  BY <2>2 DEF Impostors, Humans
<1>3. Humans(g) \subseteq Answered(g, g.round)
  BY DEF Due, SubmittedHumans, Current, Answered
<1>4. Answered(g, g.round) \subseteq Players(g)
  BY DEF Answered, Sound, RoundsInOrder
<1>5. a \notin Answered(g, g.round)
  BY <1>1, <1>2, <1>3, <1>4 DEF RoundComplete
<1>6. [round |-> g.round, alias |-> a] \notin g.messages
  BY <1>1, <1>5, AnswersAreMessages
<1>7. \A m \in Current(g) : m.alias # a
  BY <1>5 DEF Current, Answered
<1>8. QED  BY <1>1, <1>6, <1>7 DEF CanSubmit, CanTakeTurn, Impostors

(* Phases advance one by one, other than to the reveal.                    *)
LEMMA PhasesStep ==
  ASSUME NEW g, NEW h, Sound(g), Stepped(g, h)
  PROVE  /\ \/ PhaseNumber(h) \in {PhaseNumber(g), PhaseNumber(g) + 1}
            \/ g.state \in TimedStates /\ h.state = "REVEAL"
         /\ PhaseNumber(h) # PhaseNumber(g) /\ h.state \in TimedStates
              => Fresh(h)
<1>1. CASE Same(g, h)
  <2>1. PhaseNumber(h) = PhaseNumber(g)
    BY <1>1 DEF Same, PhaseNumber
  <2>2. QED  BY <2>1
<1>2. CASE Begins(g, h)
  BY <1>2 DEF Begins, PhaseNumber, Stepped, Same, Ends
<1>3. CASE Advances(g, h)
  BY <1>3 DEF Advances, PhaseNumber, Stepped, Same, Ends, Sound, Typed, GameType
<1>4. CASE Discusses(g, h)
  BY <1>4 DEF Discusses, PhaseNumber, Stepped, Same, Ends
<1>5. CASE Opens(g, h)
  BY <1>5 DEF Opens, PhaseNumber, Stepped, Same, Ends
<1>6. CASE Ends(g, h)
  BY <1>6 DEF Ends, TimedStates
<1>7. QED  BY <1>1, <1>2, <1>3, <1>4, <1>5, <1>6 DEF Stepped

----------------------------------------------------------------------------
(* One call never skips a phase nor goes back, and every phase begins with *)
(* its whole window: for every value of the constants.                     *)
THEOREM PhasesOnlyAdvance == Spec => PhasesAdvance
<1>1. Sound(game) /\ [Next]_game =>
        [/\ \/ PhaseNumber(game') \in {PhaseNumber(game), PhaseNumber(game) + 1}
            \/ game.state \in TimedStates /\ game'.state = "REVEAL"
         /\ PhaseNumber(game') # PhaseNumber(game) /\ game'.state \in TimedStates
              => game'.window = IF Timed THEN "open" ELSE "none"]_game
  BY PhasesStep, EveryStep DEF Fresh
<1>2. QED  BY <1>1, GameIsSound, PTL DEF Spec, PhasesAdvance

(* Nobody changes a game that has been revealed.                           *)
LEMMA RevealIsFinal ==
  ASSUME game.state = "REVEAL", Next
  PROVE  game' = game
<1>1. CheckExpiration(game) = game
  BY DEF CheckExpiration, Expired, TimedStates
<1>2. \A a, t, x : ~CanSubmit(game, a, t, x)
  BY DEF CanSubmit
<1>3. \A v, s : ~CanVote(game, v, s)
  BY DEF CanVote
<1>4. QED
  BY <1>1, <1>2, <1>3
     DEF Next, Join, CanAddPlayer, Begin, CanStart, Say, CallVote, CanOpenVoting,
         Vote, FailTurn, CanTakeTurn, Poll, Elapse, TimedStates

(* Accepted messages, votes and events are kept, the roster is fixed from  *)
(* the start on and a revealed game is final: for every value of the       *)
(* constants.                                                              *)
THEOREM RecordsAreKept == Spec => RecordsOnlyGrow
<1>1. Sound(game) /\ [Next]_game =>
        [/\ game.messages \subseteq game'.messages
         /\ \A v \in DOMAIN game.votes :
              v \in DOMAIN game'.votes /\ game'.votes[v] = game.votes[v]
         /\ \A i \in DOMAIN game.events :
              i \in DOMAIN game'.events /\ game'.events[i] = game.events[i]
         /\ game.state # "LOBBY" => game'.players = game.players
         /\ game.state # "REVEAL"]_game
  BY EveryStep, RevealIsFinal DEF Stepped, Remembers
<1>2. QED  BY <1>1, GameIsSound, PTL DEF Spec, RecordsOnlyGrow

(* check_expiration() adds no message and no ballot of a player.           *)
LEMMA NobodyIsHeardLate ==
  ASSUME Sound(game), Next, Expired(game)
  PROVE  /\ game'.messages = game.messages
         /\ game.state = "VOTING" =>
              /\ game'.abstentions = game.abstentions
              /\ Scorable(game') = Scorable(game)
<1> DEFINE g == CheckExpiration(game)
<1>1. /\ g.messages = game.messages
      /\ g.state # "ROUND" /\ g.state # "DISCUSSION"
      /\ game.state = "VOTING" =>
           /\ g.abstentions = game.abstentions /\ Scorable(g) = Scorable(game)
           /\ g.state = "REVEAL"
  BY CheckExpirationSteps
<1>2. Sound(g)
  BY CheckExpirationIsSound
<1> HIDE DEF g
<1>3. CASE game' = g
  BY <1>1, <1>3
<1>4. ASSUME NEW v, NEW s, CanVote(g, v, s), game' = CastVote(g, v, s)
      PROVE  game'.messages = g.messages /\ game.state # "VOTING"
  <2>1. CastVote(g, v, s).messages = g.messages
    BY <1>2 DEF CastVote, CompleteReveal, EmitClose, Emit, Sound, Typed, GameType
  <2>2. QED  BY <1>1, <1>4, <2>1 DEF CanVote
<1>5. ASSUME NEW r, FailTurn(r)
      PROVE  game'.messages = game.messages /\ game.state # "VOTING"
  BY <1>5 DEF FailTurn, CanTakeTurn, Interrupt, EmitClose, Emit, Sound, Typed, GameType
<1>6. QED
  BY <1>1, <1>3, <1>4, <1>5
     DEF Next, Join, CanAddPlayer, Begin, CanStart, Say, CanSubmit, CallVote,
         CanOpenVoting, Vote, Poll, Elapse, Expired, TimedStates, g

(* What comes after a window has run out is not accepted in its phase: for *)
(* every value of the constants.                                           *)
THEOREM TheBellIsFinal == Spec => NothingAfterTheBell
<1>1. Sound(game) /\ [Next]_game =>
        [Expired(game) =>
           /\ game'.messages = game.messages
           /\ game.state = "VOTING" =>
                /\ game'.abstentions = game.abstentions
                /\ Scorable(game') = Scorable(game)]_game
  BY NobodyIsHeardLate
<1>2. QED  BY <1>1, GameIsSound, PTL DEF Spec, NothingAfterTheBell

----------------------------------------------------------------------------
(* A game changes a bounded number of times.  Work counts what it has      *)
(* behind it: players, messages, votes, phases, each phase twice so that   *)
(* its window may be due and still be opened anew in the next.             *)
Work(g) ==
  Len(g.players) + Cardinality(g.messages) + Cardinality(DOMAIN g.votes)
    + 2 * PhaseNumber(g) + (IF g.window = "due" THEN 1 ELSE 0)

MostWork == 2 * MaxPlayers + Rounds * MaxPlayers + 2 * (Rounds + 3) + 1

(* What a step can do within a phase: one thing, and it adds.              *)
AddsOne(g, h) ==
  \/ /\ Len(h.players) = Len(g.players) + 1
     /\ h.messages = g.messages /\ h.votes = g.votes /\ h.window = g.window
  \/ /\ \E m : m \notin g.messages /\ h.messages = g.messages \cup {m}
     /\ h.players = g.players /\ h.votes = g.votes /\ h.window = g.window
  \/ /\ \E v : v \notin DOMAIN g.votes /\ DOMAIN h.votes = DOMAIN g.votes \cup {v}
     /\ h.players = g.players /\ h.messages = g.messages /\ h.window = g.window
  \/ /\ g.window # "due" /\ h.window = "due"
     /\ h.players = g.players /\ h.messages = g.messages /\ h.votes = g.votes

LEMMA PhasesAreCounted ==
  ASSUME NEW g, Sound(g)
  PROVE  /\ PhaseNumber(g) \in 0..(Rounds + 3)
         /\ g.state # "LOBBY" => PhaseNumber(g) > 0
  BY RosterIsPopulated DEF PhaseNumber, Sound, Typed, GameType, States

(* Whatever is not the same phase is a later one.                          *)
LEMMA OtherPhasesAreLater ==
  ASSUME NEW g, NEW h, Sound(g), Sound(h), Stepped(g, h), ~Same(g, h)
  PROVE  PhaseNumber(h) > PhaseNumber(g)
<1>1. g.round \in 0..Rounds /\ h.round \in 0..Rounds
  BY DEF Sound, Typed, GameType
<1>2. CASE Begins(g, h)
  BY <1>2 DEF Begins, PhaseNumber
<1>3. CASE Advances(g, h)
  BY <1>1, <1>3 DEF Advances, PhaseNumber
<1>4. CASE Discusses(g, h)
  BY <1>1, <1>4 DEF Discusses, PhaseNumber
<1>5. CASE Opens(g, h)
  BY <1>5 DEF Opens, PhaseNumber
<1>6. CASE Ends(g, h)
  BY <1>1, <1>6 DEF Ends, TimedStates, PhaseNumber
<1>7. QED  BY <1>2, <1>3, <1>4, <1>5, <1>6 DEF Stepped

(* Where the window of a phase has run out every call, whosever it is and  *)
(* accepted or not, goes on to a later phase (check_expiration at the head *)
(* of each method, game.py:128): none leaves the game as it found it.      *)
THEOREM EveryCallRingsTheBell ==
  ASSUME Sound(game), Expired(game), Next
  PROVE  PhaseNumber(game') > PhaseNumber(game)
<1> DEFINE g == CheckExpiration(game)
<1>1. /\ g.state # game.state /\ g.state # "ROUND" /\ g.state # "DISCUSSION"
      /\ game.state = "DISCUSSION" \/ g.state = "REVEAL"
      /\ Sound(g)
  BY CheckExpirationSteps, CheckExpirationIsSound DEF Opens, Expired, TimedStates
<1> HIDE DEF g
<1>2. game'.state # game.state
  <2>1. CASE game' = g
    BY <1>1, <2>1
  <2>2. ASSUME NEW v, NEW s, CanVote(g, v, s), game' = CastVote(g, v, s)
        PROVE  game'.state # game.state
    <3>1. game.state = "DISCUSSION"
      BY <1>1, <2>2 DEF CanVote
    <3>2. CastVote(g, v, s).state \in {"VOTING", "REVEAL"}
      BY <1>1, <2>2 DEF CanVote, CastVote, CompleteReveal, EmitClose, Emit,
         Sound, Typed, GameType
    <3>3. QED  BY <2>2, <3>1, <3>2
  <2>3. ASSUME NEW r, FailTurn(r)  PROVE game'.state # game.state
    BY <2>3 DEF FailTurn, CanTakeTurn, Interrupt, EmitClose, Emit, Sound, Typed, GameType
  <2>4. QED
    BY <1>1, <2>1, <2>2, <2>3
       DEF Next, Join, CanAddPlayer, Begin, CanStart, Say, CanSubmit, CallVote,
           CanOpenVoting, Vote, Poll, Elapse, Expired, TimedStates, g
<1>3. ~Same(game, game')
  BY <1>2 DEF Same
<1>4. QED  BY <1>3, EveryStep, StepIsSound, OtherPhasesAreLater

(* A change within a phase adds one thing.                                 *)
LEMMA ChangesWithinAPhaseAdd ==
  ASSUME Sound(game), Next, game' # game, Same(game, game')
  PROVE  AddsOne(game, game')
<1>1. ~Expired(game)
  <2>1. SUFFICES ASSUME Expired(game)  PROVE FALSE
    OBVIOUS
  <2>2. PhaseNumber(game') = PhaseNumber(game)
    BY DEF Same, PhaseNumber
  <2>3. PhaseNumber(game) \in 0..(Rounds + 3)
    BY PhasesAreCounted
  <2>4. QED  BY <2>1, <2>2, <2>3, EveryCallRingsTheBell
<1>2. CheckExpiration(game) = game /\ game \in GameType
  BY <1>1 DEF CheckExpiration, Sound, Typed
<1>3. ASSUME NEW ai \in BOOLEAN, Join(ai)  PROVE AddsOne(game, game')
  BY <1>2, <1>3 DEF Join, AddPlayer, AddsOne, GameType
<1>4. CASE Elapse
  BY <1>2, <1>4 DEF Elapse, AddsOne, GameType
<1>5. ASSUME NEW a, NEW t, NEW x, Say(a, t, x)  PROVE AddsOne(game, game')
  <2> DEFINE m == [round |-> game.round, alias |-> a]
             p == [game EXCEPT !.messages = @ \cup {m}]
  <2>1. CanSubmit(game, a, t, x) /\ game' = SubmitMessage(game, a)
    BY <1>2, <1>5 DEF Say
  <2>2. /\ p.messages = game.messages \cup {m} /\ p.players = game.players
        /\ p.votes = game.votes /\ p.window = game.window /\ p.round = game.round
        /\ p.state = game.state
    BY <1>2 DEF GameType
  <2>3. m \notin game.messages
    BY <2>1 DEF CanSubmit, Current
  <2>4. game' = p
    <3>1. NextRound(p).round = game.round + 1 /\ EndRounds(p).state = "DISCUSSION"
      BY <1>2 DEF NextRound, EndRounds, Emit, SetDeadline, GameType
    <3>2. game.round \in 0..Rounds /\ game.state = "ROUND"
      BY <1>2, <2>1 DEF GameType, CanSubmit
    <3>3. \/ game' = p \/ game' = NextRound(p) \/ game' = EndRounds(p)
      BY <2>1 DEF SubmitMessage
    <3>4. QED  BY <3>1, <3>2, <3>3 DEF Same
  <2> HIDE DEF m, p
  <2>5. QED  BY <2>2, <2>3, <2>4 DEF AddsOne
<1>6. ASSUME NEW v, NEW s, Vote(v, s)  PROVE AddsOne(game, game')
  <2> DEFINE c == [game EXCEPT
                     !.votes = [a \in DOMAIN @ \cup {v} |-> IF a = v THEN s ELSE @[a]],
                     !.abstentions = @ \cup (IF s = None THEN {v} ELSE {})]
  <2>1. CanVote(game, v, s) /\ game' = CastVote(game, v, s)
    BY <1>2, <1>6 DEF Vote
  <2>2. /\ DOMAIN c.votes = DOMAIN game.votes \cup {v} /\ c.players = game.players
        /\ c.messages = game.messages /\ c.window = game.window
    BY <1>2 DEF GameType
  <2>3. v \notin DOMAIN game.votes
    BY <2>1 DEF CanVote
  <2>4. game' = c
    <3>1. CompleteReveal(c, "completed").state = "REVEAL"
      BY <1>2 DEF CompleteReveal, EmitClose, Emit, GameType
    <3>2. game.state = "VOTING"
      BY <2>1 DEF CanVote
    <3>3. \/ game' = c \/ game' = CompleteReveal(c, "completed")
      BY <2>1 DEF CastVote
    <3>4. QED  BY <3>1, <3>2, <3>3 DEF Same
  <2> HIDE DEF c
  <2>5. QED  BY <2>2, <2>3, <2>4 DEF AddsOne
<1>7. CASE Begin
  BY <1>2, <1>7 DEF Begin, CanStart, Start, Emit, SetDeadline, Same, GameType
<1>8. CASE CallVote
  BY <1>2, <1>8 DEF CallVote, CanOpenVoting, OpenBallot, SetDeadline, Same, GameType
<1>9. ASSUME NEW r, FailTurn(r)  PROVE FALSE
  BY <1>2, <1>9 DEF FailTurn, CanTakeTurn, Interrupt, EmitClose, Emit, Same, GameType
<1>10. CASE Poll
  BY <1>2, <1>10 DEF Poll
<1>11. QED
  BY <1>3, <1>4, <1>5, <1>6, <1>7, <1>8, <1>9, <1>10 DEF Next

(* The start takes the roster as it is.                                    *)
LEMMA StartKeepsTheRoster ==
  ASSUME Sound(game), Next, game.state = "LOBBY", game'.state # "LOBBY"
  PROVE  game'.players = game.players
<1>1. CheckExpiration(game) = game /\ game \in GameType
  BY DEF CheckExpiration, Expired, TimedStates, Sound, Typed
<1>2. CASE Begin
  BY <1>1, <1>2 DEF Begin, Start, Emit, SetDeadline, GameType
<1>3. QED
  BY <1>1, <1>2
     DEF Next, Join, AddPlayer, Say, CanSubmit, CallVote, CanOpenVoting, Vote, CanVote,
         FailTurn, CanTakeTurn, Poll, Elapse, TimedStates, GameType

(* What there is to count.                                                 *)
LEMMA MessagesAreFinite ==
  /\ IsFiniteSet(Message)
  /\ Cardinality(Message) <= Rounds * MaxPlayers
  /\ Rounds * MaxPlayers \in Nat
<1> DEFINE R == 1..Rounds
           f == [m \in Message |-> <<m.round, m.alias>>]
<1>1. /\ IsFiniteSet(R) /\ Cardinality(R) = Rounds
      /\ IsFiniteSet(Aliases) /\ Cardinality(Aliases) = MaxPlayers
  BY FS_Interval DEF Aliases
<1>2. IsFiniteSet(R \X Aliases) /\ Cardinality(R \X Aliases) = Rounds * MaxPlayers
  BY <1>1, FS_Product
<1>3. f \in [Message -> R \X Aliases]
  BY DEF Message
<1>4. \A m, n \in Message : f[m] = f[n] => m = n
  BY DEF Message
<1> HIDE DEF f, R
<1>5. f \in Injection(Message, R \X Aliases)
  BY <1>3, <1>4 DEF Injection, IsInjective
<1>6. QED  BY <1>2, <1>5, FS_Injection, FS_CardinalityType

LEMMA WorkIsCounted ==
  ASSUME NEW g, Sound(g)
  PROVE  /\ Len(g.players) \in 0..MaxPlayers
         /\ IsFiniteSet(g.messages) /\ Cardinality(g.messages) \in 0..(Rounds * MaxPlayers)
         /\ IsFiniteSet(DOMAIN g.votes) /\ Cardinality(DOMAIN g.votes) \in 0..MaxPlayers
         /\ PhaseNumber(g) \in 0..(Rounds + 3)
<1>1. Typed(g)
  BY DEF Sound
<1>2. Len(g.players) \in 0..MaxPlayers
  BY <1>1 DEF Typed, GameType
<1>3. IsFiniteSet(g.messages) /\ Cardinality(g.messages) \in 0..(Rounds * MaxPlayers)
  <2>1. g.messages \subseteq Message
    BY <1>1 DEF Typed, GameType
  <2>2. /\ IsFiniteSet(g.messages) /\ Cardinality(g.messages) \in Nat
        /\ Cardinality(g.messages) <= Cardinality(Message) /\ Cardinality(Message) \in Nat
    BY <2>1, MessagesAreFinite, FS_Subset, FS_CardinalityType
  <2> DEFINE most == Rounds * MaxPlayers
  <2>3. Cardinality(Message) <= most /\ most \in Nat
    BY MessagesAreFinite
  <2> HIDE DEF most
  <2>4. Cardinality(g.messages) \in 0..most
    BY <2>2, <2>3
  <2>5. QED  BY <2>2, <2>4 DEF most
<1>4. IsFiniteSet(DOMAIN g.votes) /\ Cardinality(DOMAIN g.votes) \in 0..MaxPlayers
  <2>1. IsFiniteSet(Aliases) /\ Cardinality(Aliases) = MaxPlayers
    BY FS_Interval DEF Aliases
  <2>2. DOMAIN g.votes \subseteq Aliases
    BY <1>1, BallotsAreFunctions DEF Typed, GameType
  <2>3. QED  BY <2>1, <2>2, FS_Subset, FS_CardinalityType
<1>5. QED  BY <1>2, <1>3, <1>4, PhasesAreCounted

LEMMA WorkIsBounded ==
  ASSUME NEW g, Sound(g)
  PROVE  Work(g) \in 0..MostWork
<1> DEFINE most == Rounds * MaxPlayers
<1>1. most \in Nat /\ Cardinality(g.messages) \in 0..most
  BY WorkIsCounted, MessagesAreFinite
<1> HIDE DEF most
<1>2. /\ Len(g.players) \in 0..MaxPlayers /\ Cardinality(DOMAIN g.votes) \in 0..MaxPlayers
      /\ PhaseNumber(g) \in 0..(Rounds + 3)
  BY WorkIsCounted
<1> DEFINE due == IF g.window = "due" THEN 1 ELSE 0
<1>3. due \in 0..1 /\ Work(g) = Len(g.players) + Cardinality(g.messages)
                               + Cardinality(DOMAIN g.votes) + 2 * PhaseNumber(g) + due
  BY DEF Work
<1> HIDE DEF due
<1> DEFINE p == PhaseNumber(g)
           n == Len(g.players) + Cardinality(g.messages) + Cardinality(DOMAIN g.votes)
<1>4. n \in 0..(2 * MaxPlayers + most) /\ p \in 0..(Rounds + 3) /\ Work(g) = n + 2 * p + due
  BY <1>1, <1>2, <1>3, SMTT(30)
<1> HIDE DEF n, p
<1>5. Work(g) \in 0..(2 * MaxPlayers + most + 2 * (Rounds + 3) + 1)
  BY <1>1, <1>3, <1>4
<1>6. QED  BY <1>5 DEF MostWork, most

LEMMA ChangesAreWork ==
  ASSUME Sound(game), Next, game' # game
  PROVE  Work(game') > Work(game)
<1>1. Sound(game') /\ Stepped(game, game')
  BY StepIsSound, EveryStep
<1>2. /\ Len(game.players) \in Nat /\ Len(game'.players) \in Nat
      /\ IsFiniteSet(game.messages) /\ IsFiniteSet(game'.messages)
      /\ Cardinality(game.messages) \in Nat /\ Cardinality(game'.messages) \in Nat
      /\ IsFiniteSet(DOMAIN game.votes) /\ IsFiniteSet(DOMAIN game'.votes)
      /\ Cardinality(DOMAIN game.votes) \in Nat /\ Cardinality(DOMAIN game'.votes) \in Nat
      /\ PhaseNumber(game) \in Nat /\ PhaseNumber(game') \in Nat
  BY <1>1, WorkIsCounted, FS_CardinalityType
<1>3. CASE Same(game, game')
  <2>1. PhaseNumber(game') = PhaseNumber(game)
    BY <1>3 DEF Same, PhaseNumber
  <2>2. AddsOne(game, game')
    BY <1>3, ChangesWithinAPhaseAdd
  <2>3. \A m : m \notin game.messages =>
          Cardinality(game.messages \cup {m}) = Cardinality(game.messages) + 1
    BY <1>2, FS_AddElement
  <2>4. \A v : v \notin DOMAIN game.votes =>
          Cardinality(DOMAIN game.votes \cup {v}) = Cardinality(DOMAIN game.votes) + 1
    BY <1>2, FS_AddElement
  <2> DEFINE n == Len(game.players) + Cardinality(game.messages)
                    + Cardinality(DOMAIN game.votes)
             m == Len(game'.players) + Cardinality(game'.messages)
                    + Cardinality(DOMAIN game'.votes)
  <2>5. /\ n \in Nat /\ m \in Nat
        /\ \/ m = n + 1 /\ game'.window = game.window
           \/ m = n /\ game.window # "due" /\ game'.window = "due"
    <3>1. n \in Nat /\ m \in Nat
      BY <1>2
    <3>2. CASE /\ Len(game'.players) = Len(game.players) + 1
               /\ game'.messages = game.messages /\ game'.votes = game.votes
               /\ game'.window = game.window
      BY <1>2, <3>1, <3>2
    <3>3. CASE /\ \E e : /\ e \notin game.messages
                         /\ game'.messages = game.messages \cup {e}
               /\ game'.players = game.players /\ game'.votes = game.votes
               /\ game'.window = game.window
      <4>1. Cardinality(game'.messages) = Cardinality(game.messages) + 1
        BY <2>3, <3>3
      <4>2. QED  BY <1>2, <3>1, <3>3, <4>1
    <3>4. CASE /\ \E v : /\ v \notin DOMAIN game.votes
                         /\ DOMAIN game'.votes = DOMAIN game.votes \cup {v}
               /\ game'.players = game.players /\ game'.messages = game.messages
               /\ game'.window = game.window
      <4>1. Cardinality(DOMAIN game'.votes) = Cardinality(DOMAIN game.votes) + 1
        BY <2>4, <3>4
      <4>2. QED  BY <1>2, <3>1, <3>4, <4>1
    <3>5. CASE /\ game.window # "due" /\ game'.window = "due"
               /\ game'.players = game.players /\ game'.messages = game.messages
               /\ game'.votes = game.votes
      BY <3>1, <3>5
    <3>6. QED  BY <2>2, <3>2, <3>3, <3>4, <3>5 DEF AddsOne
  <2>6. /\ Work(game) = n + 2 * PhaseNumber(game) + (IF game.window = "due" THEN 1 ELSE 0)
        /\ Work(game') = m + 2 * PhaseNumber(game') + (IF game'.window = "due" THEN 1 ELSE 0)
    BY DEF Work
  <2> HIDE DEF n, m
  <2>7. QED  BY <1>2, <2>1, <2>5, <2>6
<1>4. CASE ~Same(game, game')
  <2>1. PhaseNumber(game') > PhaseNumber(game)
    BY <1>1, <1>4, OtherPhasesAreLater
  <2>2. Cardinality(game.messages) <= Cardinality(game'.messages)
    BY <1>1, <1>2, FS_Subset DEF Stepped, Remembers
  <2>3. Cardinality(DOMAIN game.votes) <= Cardinality(DOMAIN game'.votes)
    <3>1. DOMAIN game.votes \subseteq DOMAIN game'.votes
      BY <1>1 DEF Stepped, Remembers
    <3>2. QED  BY <1>2, <3>1, FS_Subset
  <2>4. game'.players = game.players
    <3>1. game.state = "LOBBY" => game'.state # "LOBBY"
      BY <1>4, <1>1 DEF Stepped, Begins, Advances, Discusses, Opens, Ends, TimedStates
    <3>2. QED  BY <1>1, <3>1, StartKeepsTheRoster DEF Stepped, Remembers
  <2> DEFINE n == Len(game.players) + Cardinality(game.messages)
                    + Cardinality(DOMAIN game.votes)
             m == Len(game'.players) + Cardinality(game'.messages)
                    + Cardinality(DOMAIN game'.votes)
  <2>5. n \in Nat /\ m \in Nat /\ n <= m
    BY <1>2, <2>2, <2>3, <2>4
  <2>6. /\ Work(game) = n + 2 * PhaseNumber(game) + (IF game.window = "due" THEN 1 ELSE 0)
        /\ Work(game') = m + 2 * PhaseNumber(game') + (IF game'.window = "due" THEN 1 ELSE 0)
    BY DEF Work
  <2> HIDE DEF n, m
  <2>7. QED  BY <1>2, <2>1, <2>5, <2>6
<1>5. QED  BY <1>3, <1>4

(* Whatever is called, in any order and by anyone, a game changes no more  *)
(* often than MostWork times: no sequence of calls keeps it from coming to *)
(* rest, and what is left for it to be revealed is only that time passes   *)
(* and that somebody calls.                                                *)
THEOREM EveryChangeIsProgress ==
  Spec => [](Work(game) \in 0..MostWork) /\ [][Work(game') > Work(game)]_game
<1>1. Sound(game) => Work(game) \in 0..MostWork
  BY WorkIsBounded
<1>2. Sound(game) /\ [Next]_game => [Work(game') > Work(game)]_game
  BY ChangesAreWork
<1>3. QED  BY <1>1, <1>2, GameIsSound, PTL DEF Spec

----------------------------------------------------------------------------
(* The game implements its life cycle, for every value of the constants:   *)
(* the initial state maps to the initial state, and what Lifecycle sees of *)
(* a step of the game is one of its own steps, or nothing.                 *)
THEOREM GameFollowsLifecycle == Spec => FollowsLifecycle
<1>1. Init => LC!Init
  BY DEF Init, NewGame, LC!Init
<1>2. ASSUME Sound(game), Stepped(game, game')
      PROVE  LC!Next \/ UNCHANGED LC!vars
  <2>1. CASE Same(game, game')
    BY <1>2, <2>1 DEF Same, LC!vars
  <2>2. CASE Begins(game, game')
    BY <1>2, <2>2 DEF Begins, LC!Next, LC!StartGame, LC!Started, GameStarted, RoundStarted
  <2>3. CASE Advances(game, game')
    BY <1>2, <2>3 DEF Advances, LC!Next, LC!AdvanceRound, LC!Started, LC!Completed,
                      RoundStarted, RoundCompleted
  <2>4. CASE Discusses(game, game')
    BY <1>2, <2>4 DEF Discusses, LC!Next, LC!StartDiscussion, LC!Completed, RoundCompleted
  <2>5. CASE Opens(game, game')
    BY <1>2, <2>5 DEF Opens, LC!Next, LC!StartVoting
  <2>6. CASE Ends(game, game')
    <3>1. PICK e \in Event : /\ game'.events = Append(game.events, e)
                             /\ e.type = "game.closed"
                             /\ e.valid => game.state = "VOTING"
      BY <2>6 DEF Ends
    <3>2. game.events \in Seq(Event)
      BY <1>2 DEF Sound, Typed, GameType
    <3>3. game'.events[Len(game.events) + 1] = e
      BY <3>1, <3>2
    <3>4. LC!Reveal
      BY <1>2, <2>6, <3>1, <3>3 DEF Ends, LC!Reveal, LC!Active, TimedStates
    <3>5. QED  BY <3>4 DEF LC!Next
  <2>7. QED  BY <1>2, <2>1, <2>2, <2>3, <2>4, <2>5, <2>6 DEF Stepped
<1>3. Sound(game) /\ [Next]_game => [LC!Next]_(LC!vars)
  BY <1>2, EveryStep DEF LC!vars
<1>4. QED  BY <1>1, <1>3, GameIsSound, PTL DEF Spec, FollowsLifecycle, LC!Spec

=============================================================================
