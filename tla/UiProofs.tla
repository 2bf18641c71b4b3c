------------------------------ MODULE UiProofs ------------------------------
(***************************************************************************)
(* What the screens show, for any number of browsers, players, rounds and  *)
(* late requests.                                                          *)
(*                                                                         *)
(* Goes is what any call of a room does to a game: it goes forward, and    *)
(* adds no vote but that of the request.  A page was told a view of the    *)
(* room's past, and with Goes that past stays behind; what a page may      *)
(* think of its vote rests, besides, on its alias being its own and on     *)
(* every late vote being that of a session that knows of a loss.  Aliases  *)
(* are given by joins that overlap: Seated is what one of them may rely on *)
(* between its reading and its writing, and Welcomes is what every step of *)
(* another keeps true meanwhile.                                           *)
(***************************************************************************)
EXTENDS Api, GameProofs

USE RoundsAssumption, TimedAssumption, MaxPlayersAssumption, UiAssumption

(* There is a place left for the impostor.                                 *)
Fit(g) == Sound(g) /\ (Impostors(g) = {} => Len(g.players) < MaxPlayers)

(* g has gone on to h, and of the votes in h only those of V are new.      *)
Goes(g, h, V) ==
  /\ Fit(h) /\ Remembers(h, g)
  /\ \A a \in Players(g) : a \in Players(h) /\ h.players[a] = g.players[a]
  /\ PhaseNumber(g) <= PhaseNumber(h)
  /\ g.state = "REVEAL" => h = g
  /\ Scorable(h) \subseteq Scorable(g) \cup V

(* Phases are numbered, and only the revelation has the last number.       *)
LEMMA PhasesAreNumbered ==
  ASSUME NEW g, Typed(g)
  PROVE  PhaseNumber(g) \in Nat /\ (PhaseNumber(g) = Rounds + 3 <=> g.state = "REVEAL")
<1>1. g.state \in States /\ g.round \in 0..Rounds
  BY DEF Typed, GameType
<1>2. CASE g.state = "LOBBY"
  BY <1>2 DEF PhaseNumber
<1>3. CASE g.state = "ROUND"
  BY <1>1, <1>3 DEF PhaseNumber
<1>4. CASE g.state = "DISCUSSION"
  BY <1>4 DEF PhaseNumber
<1>5. CASE g.state = "VOTING"
  BY <1>5 DEF PhaseNumber
<1>6. CASE g.state = "REVEAL"
  BY <1>6 DEF PhaseNumber
<1>7. QED  BY <1>1, <1>2, <1>3, <1>4, <1>5, <1>6 DEF States

(* A game that stays as it is has gone on.                                 *)
LEMMA StayingGoes ==
  ASSUME NEW g, Fit(g), NEW V
  PROVE  Goes(g, g, V)
  BY RemembersItself, PhasesAreNumbered DEF Goes, Fit, Sound

(* No player leaves.                                                       *)
LEMMA RostersGrow ==
  ASSUME NEW g, NEW h, NEW V, Fit(g), Goes(g, h, V)
  PROVE  /\ Len(g.players) \in Nat /\ Len(h.players) \in Nat
         /\ Len(g.players) <= Len(h.players)
<1>1. Typed(g) /\ Typed(h)
  BY DEF Goes, Fit, Sound
<1>2. Len(g.players) \in Nat /\ Len(h.players) \in Nat
  BY <1>1 DEF Typed, GameType
<1>3. Players(g) = 1..Len(g.players) /\ Players(h) = 1..Len(h.players)
  BY <1>1, PlayersAreNumbered
<1>4. Players(g) \subseteq Players(h)
  BY DEF Goes
<1>5. QED  BY <1>2, <1>3, <1>4

(* What goes on twice has gone on, with the votes of both.                 *)
LEMMA GoingIsTransitive ==
  ASSUME NEW f, NEW g, NEW h, NEW U, NEW V, Fit(f), Goes(f, g, U), Goes(g, h, V)
  PROVE  Goes(f, h, U \cup V)
<1>1. Typed(f) /\ Typed(g) /\ Typed(h)
  BY DEF Goes, Fit, Sound
<1>2. /\ PhaseNumber(f) \in Nat /\ PhaseNumber(g) \in Nat /\ PhaseNumber(h) \in Nat
      /\ PhaseNumber(f) <= PhaseNumber(g) /\ PhaseNumber(g) <= PhaseNumber(h)
  BY <1>1, PhasesAreNumbered DEF Goes
<1>3. PhaseNumber(f) <= PhaseNumber(h)
  BY <1>2
<1>4. Remembers(h, f)
  BY RemembersIsTransitive DEF Goes
<1>5. /\ \A a \in Players(f) : a \in Players(h) /\ h.players[a] = f.players[a]
      /\ f.state = "REVEAL" => h = f
      /\ Scorable(h) \subseteq Scorable(f) \cup (U \cup V)
  BY DEF Goes
<1>6. QED  BY <1>3, <1>4, <1>5 DEF Goes

(* A step of a game under way.                                             *)
LEMMA SteppingGoes ==
  ASSUME NEW g, NEW h, NEW V, Fit(g), g.state \in TimedStates,
         Sound(h), Stepped(g, h), Scorable(h) \subseteq Scorable(g) \cup V
  PROVE  Goes(g, h, V)
<1>1. Remembers(h, g) /\ h.players = g.players
  BY DEF Stepped, Remembers, TimedStates
<1>2. Typed(g) /\ Typed(h) /\ Sound(g)
  BY DEF Fit, Sound
<1>3. PhaseNumber(g) \in Nat /\ PhaseNumber(h) \in Nat
  BY <1>2, PhasesAreNumbered
<1>4. \/ PhaseNumber(h) \in {PhaseNumber(g), PhaseNumber(g) + 1}
      \/ h.state = "REVEAL"
  BY <1>2, PhasesStep
<1>5. PhaseNumber(g) <= Rounds + 3
  <2>1. g.round \in 0..Rounds
    BY <1>2 DEF Typed, GameType
  <2>2. PhaseNumber(g) \in {g.round, Rounds + 1, Rounds + 2}
    BY DEF PhaseNumber, TimedStates
  <2>3. QED  BY <2>1, <2>2
<1>6. h.state = "REVEAL" => PhaseNumber(h) = Rounds + 3
  BY <1>2, PhasesAreNumbered
<1>7. PhaseNumber(g) <= PhaseNumber(h)
  BY <1>3, <1>4, <1>5, <1>6
<1>8. Impostors(h) = Impostors(g) /\ Players(h) = Players(g)
  BY <1>1 DEF Impostors, Players
<1>9. Fit(h)
  BY <1>1, <1>8 DEF Fit
<1>10. QED  BY <1>1, <1>7, <1>8, <1>9 DEF Goes, TimedStates

(* check_expiration brings no vote that counts.                            *)
LEMMA LookingGoes ==
  ASSUME NEW g, Fit(g)
  PROVE  Goes(g, CheckExpiration(g), {})
<1> DEFINE h == CheckExpiration(g)
<1>1. Sound(g) /\ Sound(h) /\ Stepped(g, h)
  BY CheckExpirationIsSound, CheckExpirationSteps DEF Fit
<1>2. CASE ~Expired(g)
  <2>1. h = g
    BY <1>2 DEF CheckExpiration
  <2>2. QED  BY <2>1, StayingGoes
<1>3. CASE Expired(g)
  <2>1. g.state \in TimedStates
    BY <1>3 DEF Expired
  <2>2. Scorable(h) = Scorable(g)
    <3>1. CASE g.state = "VOTING"
      BY <1>1, <1>3, <3>1, CheckExpirationSteps
    <3>2. CASE g.state # "VOTING"
      <4>1. h.votes = g.votes
        BY <1>1, <1>3, <3>2 DEF CheckExpiration, Expired, ExpireRound, OpenBallot,
           SetDeadline, Interrupt, EmitClose, Emit, Sound, Typed, GameType, TimedStates
      <4> HIDE DEF h
      <4>2. QED  BY <4>1 DEF Scorable
    <3>3. QED  BY <3>1, <3>2
  <2>3. QED  BY <1>1, <2>1, <2>2, SteppingGoes
<1>4. QED  BY <1>2, <1>3

(* Nor does submit_message,                                                *)
LEMMA SubmittingGoes ==
  ASSUME NEW g, Fit(g), NEW a, NEW t, NEW x, CanSubmit(g, a, t, x)
  PROVE  Goes(g, SubmitMessage(g, a), {})
<1> DEFINE h == SubmitMessage(g, a)
<1>1. Sound(g) /\ Sound(h) /\ Stepped(g, h) /\ g.state \in TimedStates
  BY SubmitMessageIsSound, SubmitMessageSteps DEF Fit, CanSubmit, TimedStates
<1>2. h.votes = g.votes
  BY <1>1 DEF SubmitMessage, NextRound, EndRounds, Emit, SetDeadline, Sound, Typed, GameType
<1> HIDE DEF h
<1>3. Scorable(h) = Scorable(g)
  BY <1>2 DEF Scorable
<1>4. QED  BY <1>1, <1>3, SteppingGoes DEF h

(* nor open_voting.                                                        *)
LEMMA OpeningGoes ==
  ASSUME NEW g, Fit(g), CanOpenVoting(g)
  PROVE  Goes(g, OpenBallot(g), {})
<1> DEFINE h == OpenBallot(g)
<1>1. Sound(g) /\ Sound(h) /\ Stepped(g, h) /\ g.state \in TimedStates
  BY OpenBallotIsSound, OpenBallotSteps DEF Fit, CanOpenVoting, TimedStates
<1>2. h.votes = g.votes
  BY <1>1 DEF OpenBallot, SetDeadline, Sound, Typed, GameType
<1> HIDE DEF h
<1>3. Scorable(h) = Scorable(g)
  BY <1>2 DEF Scorable
<1>4. QED  BY <1>1, <1>3, SteppingGoes DEF h

(* vote brings that of its caller.                                         *)
LEMMA VotingGoes ==
  ASSUME NEW g, Fit(g), NEW v, NEW s, CanVote(g, v, s)
  PROVE  /\ Goes(g, CastVote(g, v, s), {v})
         /\ s # None => v \in Scorable(CastVote(g, v, s))
<1> DEFINE h == CastVote(g, v, s)
<1>1. Sound(g) /\ Sound(h) /\ Stepped(g, h) /\ g.state \in TimedStates
  BY CastVoteIsSound, CastVoteSteps DEF Fit, CanVote, TimedStates
<1>2. h.votes = [a \in DOMAIN g.votes \cup {v} |-> IF a = v THEN s ELSE g.votes[a]]
  BY <1>1 DEF CastVote, CompleteReveal, EmitClose, Emit, Sound, Typed, GameType
<1> HIDE DEF h
<1>3. /\ Scorable(h) \subseteq Scorable(g) \cup {v}
      /\ s # None => v \in Scorable(h)
  BY <1>2 DEF Scorable
<1>4. QED  BY <1>1, <1>3, SteppingGoes DEF h

(* interrupt_by_engine brings none,                                        *)
LEMMA InterruptingGoes ==
  ASSUME NEW g, Fit(g), g.state = "ROUND", NEW r \in TurnFailures
  PROVE  Goes(g, Interrupt(g, r), {})
<1> DEFINE h == Interrupt(g, r)
<1>1. Sound(g) /\ Closable(g) /\ g.state \in TimedStates /\ r \in Interruptions
  BY SoundIsClosable DEF Fit, TimedStates, Interruptions
<1>2. Sound(h) /\ Stepped(g, h)
  BY <1>1, FailTurnIsSound, InterruptSteps DEF Stepped
<1>3. h.votes = g.votes
  BY <1>1 DEF Interrupt, EmitClose, Emit, Sound, Typed, GameType
<1> HIDE DEF h
<1>4. Scorable(h) = Scorable(g)
  BY <1>3 DEF Scorable
<1>5. QED  BY <1>1, <1>2, <1>4, SteppingGoes DEF h

(* nor does add_player, while a place is left,                             *)
LEMMA SeatingGoes ==
  ASSUME NEW g, Fit(g), NEW ai \in BOOLEAN, CanAddPlayer(g, ai),
         ai \/ Len(g.players) + 1 < MaxPlayers
  PROVE  /\ Goes(g, AddPlayer(g, ai), {})
         /\ AddPlayer(g, ai).players = Append(g.players, ai)
         /\ AddPlayer(g, ai).state = "LOBBY"
<1> DEFINE h == AddPlayer(g, ai)
<1>1. Sound(g) /\ Typed(g) /\ g.state = "LOBBY" /\ Len(g.players) \in Nat
      /\ g.players \in Seq(BOOLEAN)
  BY DEF Fit, Sound, Typed, GameType, CanAddPlayer
<1>2. Len(g.players) < MaxPlayers
  BY <1>1 DEF Fit, CanAddPlayer
<1>3. Sound(h)
  BY <1>1, <1>2, AddPlayerIsSound
<1>4. /\ h.players = Append(g.players, ai) /\ h.state = "LOBBY"
      /\ h.messages = g.messages /\ h.votes = g.votes /\ h.events = g.events
  BY <1>1 DEF AddPlayer, Typed, GameType
<1> HIDE DEF h
<1>5. /\ Players(g) = 1..Len(g.players) /\ Players(h) = 1..(Len(g.players) + 1)
      /\ Len(h.players) = Len(g.players) + 1
      /\ h.players[Len(g.players) + 1] = ai
      /\ \A a \in Players(g) : h.players[a] = g.players[a]
  BY <1>1, <1>4 DEF Players
<1>6. Fit(h)
  <2>1. ASSUME ai  PROVE Len(g.players) + 1 \in Impostors(h)
    <3>1. Len(g.players) + 1 \in Players(h)
      BY <1>1, <1>5
    <3>2. h.players[Len(g.players) + 1]
      BY <1>5, <2>1, Zenon
    <3>3. QED  BY <3>1, <3>2 DEF Impostors
  <2>2. QED  BY <1>3, <1>5, <2>1 DEF Fit
<1>7. Remembers(h, g) /\ Scorable(h) = Scorable(g)
  BY <1>1, <1>4 DEF Remembers, Scorable
<1>8. PhaseNumber(g) = 0 /\ PhaseNumber(h) = 0
  BY <1>1, <1>4 DEF PhaseNumber
<1>9. \A a \in Players(g) : a \in Players(h)
  BY <1>1, <1>5
<1>10. QED  BY <1>1, <1>4, <1>5, <1>6, <1>7, <1>8, <1>9 DEF Goes, h

(* nor start,                                                              *)
LEMMA StartingGoes ==
  ASSUME NEW g, Fit(g), CanStart(g)
  PROVE  Goes(g, Start(g), {})
<1> DEFINE h == Start(g)
<1>1. Sound(g) /\ Typed(g) /\ Sound(h) /\ Stepped(g, h) /\ g.state = "LOBBY"
  BY StartIsSound, StartSteps DEF Fit, Sound, CanStart
<1>2. h.votes = g.votes /\ h.players = g.players
  BY <1>1 DEF Start, SetDeadline, Emit, Typed, GameType
<1>3. Remembers(h, g) /\ Typed(h)
  BY <1>1 DEF Stepped, Sound
<1> HIDE DEF h
<1>4. Scorable(h) = Scorable(g) /\ Players(h) = Players(g) /\ Impostors(h) = Impostors(g)
  BY <1>2 DEF Scorable, Players, Impostors
<1>5. PhaseNumber(g) = 0 /\ PhaseNumber(h) \in Nat
  BY <1>1, <1>3, PhasesAreNumbered DEF PhaseNumber
<1>6. QED  BY <1>1, <1>2, <1>3, <1>4, <1>5 DEF Goes, Fit, h

(* nor time itself.                                                        *)
LEMMA ElapsingGoes ==
  ASSUME NEW g, Fit(g), g.state \in TimedStates
  PROVE  Goes(g, [g EXCEPT !.window = "due"], {})
<1> DEFINE h == [g EXCEPT !.window = "due"]
<1>1. Sound(g) /\ Sound(h)
  BY ElapseIsSound DEF Fit
<1>2. /\ h.state = g.state /\ h.round = g.round /\ h.events = g.events
      /\ h.messages = g.messages /\ h.votes = g.votes /\ h.players = g.players
  BY <1>1 DEF Sound, Typed, GameType
<1> HIDE DEF h
<1>3. Stepped(g, h) /\ Scorable(h) = Scorable(g)
  BY <1>2 DEF Stepped, Same, Remembers, Scorable
<1>4. QED  BY <1>1, <1>3, SteppingGoes DEF h

----------------------------------------------------------------------------
(* The handlers.                                                           *)

(* The turn of the impostor comes when only its message is missing.        *)
LEMMA TurnsGo ==
  ASSUME NEW g, Fit(g), NEW h \in AfterMessage(g)
  PROVE  Goes(g, h, {})
<1> DEFINE ai == CHOOSE a \in Impostors(g) : TRUE
<1>1. CASE ~(g.state = "ROUND" /\ SubmittedHumans(g) = Humans(g))
  <2>1. h = g
    BY <1>1 DEF AfterMessage
  <2>2. QED  BY <2>1, StayingGoes
<1>2. CASE g.state = "ROUND" /\ SubmittedHumans(g) = Humans(g)
  <2>1. h \in {SubmitMessage(g, ai)} \cup {Interrupt(g, r) : r \in TurnFailures}
    BY <1>2 DEF AfterMessage
  <2>2. Sound(g) /\ Due(g)
    BY <1>2 DEF Fit, Due
  <2>3. Impostors(g) # {}
    BY <1>2, <2>2, FS_EmptySet DEF Sound, FairRoster
  <2>4. ai \in Impostors(g)
    BY <2>3
  <2> HIDE DEF ai
  <2>5. CanSubmit(g, ai, "ok", None)
    BY <2>2, <2>4, ImpostorIsMissing
  <2>6. QED  BY <1>2, <2>1, <2>5, SubmittingGoes, InterruptingGoes
<1>3. QED  BY <1>1, <1>2

(* h is still a lobby if g was, and who is new in it is human.             *)
Welcomes(g, h) ==
  g.state = "LOBBY" =>
    h.state = "LOBBY" /\ \A a \in Players(h) \ Players(g) : a \in Humans(h)

(* check_expiration leaves a lobby as it is.                               *)
LEMMA LookingWelcomes ==
  ASSUME NEW g
  PROVE  g.state = "LOBBY" => CheckExpiration(g) = g
  BY DEF CheckExpiration, Expired, TimedStates

Calls == {"start", "message", "voting/open", "vote"}
Kinds == Calls \cup {"join", "joining"}

(* The votes a request may bring.                                          *)
NewVotes(q, ok) == IF q.kind = "vote" /\ ok THEN {q.alias} ELSE {}

(* A request is answered, and the game goes on.                            *)
Handled(g, q, o) ==
  /\ o.ok \in BOOLEAN
  /\ Goes(g, o.game, NewVotes(q, o.ok))
  /\ q.kind = "vote" /\ o.ok /\ q.suspect # None => q.alias \in Scorable(o.game)
  /\ q.kind # "start" => Welcomes(g, o.game)

(* start, whether refused or not.                                          *)
LEMMA StartIsHandled ==
  ASSUME NEW g, Fit(g), NEW q, q.kind = "start", NEW o \in Handle(g, q)
  PROVE  Handled(g, q, o)
<1> DEFINE s == AddPlayer(g, TRUE)
<1>1. NewVotes(q, o.ok) = {}
  BY DEF NewVotes
<1>2. o \in HandleStart(g)
  BY DEF Handle
<1>3. CASE o = Refused(g)
  BY <1>1, <1>3, StayingGoes DEF Refused, Handled
<1>4. ASSUME CanAddPlayer(g, TRUE)  PROVE Goes(g, s, {}) /\ Fit(s)
  BY <1>4, SeatingGoes DEF Goes
<1>5. CASE CanAddPlayer(g, TRUE) /\ CanStart(s) /\ o = Accepted(Start(s))
  <2> HIDE DEF s
  <2>1. Goes(s, Start(s), {}) /\ o.game = Start(s) /\ o.ok = TRUE
    BY <1>4, <1>5, StartingGoes DEF Accepted
  <2>2. Goes(g, o.game, {} \cup {})
    BY <1>4, <1>5, <2>1, GoingIsTransitive
  <2>3. {} \cup {} = {}
    OBVIOUS
  <2>4. QED  BY <1>1, <2>1, <2>2, <2>3 DEF Handled
<1>6. CASE CanAddPlayer(g, TRUE) /\ o = Refused(s)
  <2> HIDE DEF s
  <2>1. o.game = s /\ o.ok = FALSE
    BY <1>6 DEF Refused
  <2>2. QED  BY <1>1, <1>4, <1>6, <2>1 DEF Handled
<1>7. QED  BY <1>2, <1>3, <1>5, <1>6 DEF HandleStart

(* The requests of a game under way: first the clock, then the call.       *)
LEMMA PlayIsHandled ==
  ASSUME NEW g, Fit(g), NEW q, q.kind \in {"message", "voting/open", "vote"},
         NEW o \in Handle(g, q)
  PROVE  Handled(g, q, o)
<1> DEFINE h == CheckExpiration(g)
<1>1. Goes(g, h, {}) /\ Fit(h)
  BY LookingGoes DEF Goes
<1>a. g.state = "LOBBY" => h = g
  BY LookingWelcomes
<1> HIDE DEF h
<1>b. Welcomes(g, h) /\ \A k : h.state # "LOBBY" => Welcomes(g, k)
  BY <1>a DEF Welcomes
<1>2. ASSUME NEW k, NEW V, Goes(h, k, V)  PROVE Goes(g, k, V)
  <2>1. Goes(g, k, {} \cup V) /\ {} \cup V = V
    BY <1>1, <1>2, GoingIsTransitive
  <2>2. QED  BY <2>1
<1>3. ASSUME o = Refused(h)  PROVE Handled(g, q, o)
  <2>1. o.game = h /\ o.ok = FALSE /\ NewVotes(q, FALSE) = {}
    BY <1>3 DEF Refused, NewVotes
  <2>2. QED  BY <1>1, <1>b, <2>1 DEF Handled
<1>4. ASSUME NEW k, Goes(h, k, {}), o = Accepted(k), q.kind # "vote", h.state # "LOBBY"
      PROVE  Handled(g, q, o)
  <2>1. o.game = k /\ o.ok = TRUE /\ NewVotes(q, TRUE) = {}
    BY <1>4 DEF Accepted, NewVotes
  <2>2. QED  BY <1>2, <1>4, <1>b, <2>1 DEF Handled
<1>5. CASE q.kind = "message"
  <2> DEFINE p == SubmitMessage(h, q.alias)
  <2>1. o \in HandleMessage(g, q.alias, q.text)
    BY <1>5 DEF Handle
  <2>2. \/ o = Refused(h)
        \/ /\ CanSubmit(h, q.alias, q.text, h.round)
           /\ o \in {Accepted(k) : k \in AfterMessage(p)}
    BY <2>1 DEF HandleMessage, h
  <2>3. ASSUME CanSubmit(h, q.alias, q.text, h.round), NEW k \in AfterMessage(p)
        PROVE  Goes(h, k, {})
    <3>1. Goes(h, p, {})
      BY <1>1, <2>3, SubmittingGoes
    <3>2. Fit(p)
      BY <3>1 DEF Goes
    <3> HIDE DEF p
    <3>3. Goes(h, k, {} \cup {}) /\ {} \cup {} = {}
      BY <1>1, <2>3, <3>1, <3>2, TurnsGo, GoingIsTransitive
    <3>4. QED  BY <3>3
  <2> HIDE DEF p
  <2>4. CanSubmit(h, q.alias, q.text, h.round) => h.state # "LOBBY"
    BY DEF CanSubmit
  <2>5. QED  BY <1>3, <1>4, <1>5, <2>2, <2>3, <2>4
<1>6. CASE q.kind = "voting/open"
  <2>1. o \in HandleOpenVoting(g)
    BY <1>6 DEF Handle
  <2>2. o = Refused(h) \/ (CanOpenVoting(h) /\ o = Accepted(OpenBallot(h)))
    BY <2>1 DEF HandleOpenVoting, h
  <2>3. CanOpenVoting(h) => h.state # "LOBBY"
    BY DEF CanOpenVoting
  <2>4. QED  BY <1>1, <1>3, <1>4, <1>6, <2>2, <2>3, OpeningGoes
<1>7. CASE q.kind = "vote"
  <2>1. o \in HandleVote(g, q.alias, q.suspect)
    BY <1>7 DEF Handle
  <2>2. \/ o = Refused(h)
        \/ CanVote(h, q.alias, q.suspect) /\ o = Accepted(CastVote(h, q.alias, q.suspect))
    BY <2>1 DEF HandleVote, h
  <2>3. ASSUME CanVote(h, q.alias, q.suspect), o = Accepted(CastVote(h, q.alias, q.suspect))
        PROVE  Handled(g, q, o)
    <3>1. /\ o.game = CastVote(h, q.alias, q.suspect) /\ o.ok = TRUE
          /\ NewVotes(q, o.ok) = {q.alias}
      BY <1>7, <2>3 DEF Accepted, NewVotes
    <3>2. /\ Goes(h, o.game, {q.alias})
          /\ q.suspect # None => q.alias \in Scorable(o.game)
      BY <1>1, <2>3, <3>1, VotingGoes
    <3>3. h.state # "LOBBY"
      BY <2>3 DEF CanVote
    <3>4. QED  BY <1>2, <1>7, <1>b, <3>1, <3>2, <3>3 DEF Handled
  <2>4. QED  BY <1>3, <2>2, <2>3
<1>8. QED  BY <1>5, <1>6, <1>7

(* So every request of a session, but a join.                              *)
LEMMA RequestsAreHandled ==
  ASSUME NEW g, Fit(g), NEW q, q.kind \in Calls, NEW o \in Handle(g, q)
  PROVE  Handled(g, q, o)
  BY StartIsHandled, PlayIsHandled DEF Calls

----------------------------------------------------------------------------
(* The joins.                                                              *)

(* What a join that has found n players relies on: nobody starts the game  *)
(* or seats an impostor before it is written.                              *)
Seated(n, g) ==
  /\ g.state = "LOBBY" /\ n \in 0..Len(g.players) /\ n + 1 < MaxPlayers
  /\ n < Len(g.players) => n + 1 \in Humans(g)

(* Then it is written over another human, or after the last.               *)
LEMMA SittingGoes ==
  ASSUME NEW g, Fit(g), NEW n, Seated(n, g)
  PROVE  LET h == Sit(g, Seat(n))
         IN /\ Goes(g, h, {}) /\ Welcomes(g, h) /\ h.state = "LOBBY"
            /\ Seat(n) \in Humans(h)
            /\ n = Len(g.players) => Seat(n) \notin Players(g)
<1> DEFINE m == n + 1  h == Sit(g, m)
<1>1. /\ Typed(g) /\ g \in GameType /\ g.players \in Seq(BOOLEAN)
      /\ Len(g.players) \in Nat /\ Players(g) = 1..Len(g.players)
      /\ DOMAIN g.players = 1..Len(g.players)
  BY PlayersAreNumbered DEF Fit, Sound, Typed, GameType
<1>2. /\ n \in Nat /\ n <= Len(g.players) /\ m \in Nat /\ m >= 1 /\ m < MaxPlayers
      /\ g.state = "LOBBY"
  BY <1>1 DEF Seated
<1>3. CASE n < Len(g.players)
  <2>1. m \in Humans(g)
    BY <1>3 DEF Seated
  <2>2. m \in DOMAIN g.players /\ g.players[m] = FALSE
    BY <1>1, <2>1 DEF Humans, Players
  <2> HIDE DEF m
  <2>3. [g.players EXCEPT ![m] = FALSE] = g.players
    <3>1. g.players \in [1..Len(g.players) -> BOOLEAN]
      BY <1>1
    <3>2. QED  BY <2>2, <3>1
  <2>4. h = g
    <3>1. h = [g EXCEPT !.players[m] = FALSE]
      BY <2>2 DEF Sit
    <3>2. h = [g EXCEPT !.players = [g.players EXCEPT ![m] = FALSE]]
      BY <3>1, Zenon
    <3>3. h = [g EXCEPT !.players = g.players]
      BY <2>3, <3>2
    <3>4. QED  BY <1>1, <3>3 DEF GameType
  <2>5. Goes(g, h, {}) /\ Welcomes(g, h) /\ h.state = "LOBBY" /\ m \in Humans(h)
    BY <1>2, <2>1, <2>4, StayingGoes DEF Welcomes
  <2>6. n # Len(g.players)
    BY <1>1, <1>2, <1>3
  <2>7. QED  BY <2>5, <2>6 DEF Seat, m
<1>4. CASE n = Len(g.players)
  <2>1. m \notin DOMAIN g.players /\ m \notin Players(g)
    BY <1>1, <1>2, <1>4
  <2>2. h = AddPlayer(g, FALSE)
    BY <2>1 DEF Sit
  <2>3. CanAddPlayer(g, FALSE) /\ Len(g.players) + 1 < MaxPlayers
    BY <1>2, <1>4 DEF CanAddPlayer
  <2>4. Goes(g, h, {}) /\ h.players = Append(g.players, FALSE) /\ h.state = "LOBBY"
    BY <2>2, <2>3, SeatingGoes
  <2> HIDE DEF h
  <2>5. Players(h) = 1..m /\ h.players[m] = FALSE
    BY <1>1, <1>2, <1>4, <2>4 DEF Players
  <2>6. m \in Humans(h) /\ \A a \in Players(h) \ Players(g) : a = m
    BY <1>1, <1>2, <1>4, <2>5 DEF Humans
  <2>7. Welcomes(g, h)
    BY <2>4, <2>6 DEF Welcomes
  <2>8. QED  BY <2>1, <2>4, <2>6, <2>7 DEF Seat, h, m
<1>5. QED  BY <1>1, <1>2, <1>3, <1>4

(* Meanwhile other joins are written, and it is not disturbed.             *)
LEMMA JoinsWait ==
  ASSUME NEW g, NEW h, NEW V, Fit(g), Goes(g, h, V), Welcomes(g, h), NEW n, Seated(n, g)
  PROVE  Seated(n, h)
<1>1. Typed(g) /\ Typed(h)
  BY DEF Goes, Fit, Sound
<1>2. /\ Players(g) = 1..Len(g.players) /\ Len(g.players) \in Nat
      /\ Players(h) = 1..Len(h.players) /\ Len(h.players) \in Nat
  BY <1>1, PlayersAreNumbered DEF Typed, GameType
<1>3. Players(g) \subseteq Players(h) /\ Humans(g) \subseteq Humans(h)
  BY DEF Goes, Humans
<1>4. n \in Nat /\ n <= Len(g.players)
  BY <1>2 DEF Seated
<1>5. n <= Len(h.players)
  BY <1>2, <1>3, <1>4
<1>6. ASSUME n < Len(h.players)  PROVE n + 1 \in Humans(h)
  <2>1. CASE n < Len(g.players)
    BY <1>3, <2>1 DEF Seated
  <2>2. CASE n = Len(g.players)
    <3>1. n + 1 \in Players(h) \ Players(g)
      BY <1>2, <1>4, <1>6, <2>2
    <3>2. QED  BY <3>1 DEF Welcomes, Seated
  <2>3. QED  BY <1>2, <1>4, <2>1, <2>2
<1>7. QED  BY <1>2, <1>4, <1>5, <1>6 DEF Seated, Welcomes

----------------------------------------------------------------------------
(* The pages.                                                              *)

SnapshotType ==
  {NoSnapshot} \cup
  [state : States, round : Nat, players : Nat, messages : SUBSET Message, votes : Nat]

PageType ==
  [consent : BOOLEAN, alias : Aliases \cup {None}, snapshot : SnapshotType,
   notice : BOOLEAN, voted : BOOLEAN, at : {"ready", "joining", "refresh", "vote"},
   found : Nat, crowded : BOOLEAN, lost : BOOLEAN]

Told(s, g) ==
  s # NoSnapshot =>
    /\ s.messages \subseteq g.messages /\ s.votes <= VotesReceived(g)
    /\ s.players <= Len(g.players)
    /\ PhaseNumber(s) <= PhaseNumber(g)
    /\ s.state = "REVEAL" => s = View(g)

PageSound(p, g) ==
  /\ p \in PageType
  /\ p.alias \in Humans(g) \cup {None}
  /\ p.found <= Len(g.players)
  /\ Told(p.snapshot, g)
  /\ p.voted \/ p.at = "vote" => p.alias \in Scorable(g)
  /\ p.at = "joining" => p.alias = None
  /\ p.alias = None => ~p.crowded

(* A page that has lost nothing knows of the vote of its alias.            *)
Knows(p, g) == p.alias \in Scorable(g) /\ ~p.lost /\ p.at # "vote" => p.voted

(* No other page acts for it.                                              *)
Own(b) == Alone(b) \/ page[b].alias = None

(* Who sent a vote that may still arrive knows that something was lost.    *)
LateSound(q, pages) ==
  /\ q.kind \in Kinds
  /\ q.kind = "vote" /\ q.alias # None =>
       \E b \in Browsers : pages[b].alias = q.alias /\ pages[b].lost

AliasesAreOwn ==
  \A b, c \in Browsers :
    page[b].alias = page[c].alias =>
      b = c \/ page[b].alias = None \/ page[b].crowded \/ page[c].crowded

JoinsAreSeated ==
  /\ \A b \in Browsers : page[b].at = "joining" => Seated(page[b].found, game)
  /\ \A q \in late : q.kind = "joining" => Seated(q.found, game)

UiSound ==
  /\ Fit(game)
  /\ page \in [Browsers -> PageType]
  /\ \A b \in Browsers : PageSound(page[b], game) /\ (Own(b) => Knows(page[b], game))
  /\ AliasesAreOwn /\ JoinsAreSeated
  /\ \A q \in late : LateSound(q, page)

(* VotesReceived is a number.                                              *)
LEMMA VotesAreCounted ==
  ASSUME NEW g, Typed(g)
  PROVE  VotesReceived(g) \in Nat
  BY PresenceIsFinite, FS_CardinalityType DEF VotesReceived

(* A view of the room as it is tells the truth about it.                   *)
LEMMA ViewsAreTold ==
  ASSUME NEW g, Typed(g)
  PROVE  /\ View(g) \in SnapshotType /\ View(g) # NoSnapshot
         /\ Told(View(g), g)
         /\ PhaseNumber(View(g)) = PhaseNumber(g)
         /\ View(g).messages = g.messages
<1>1. /\ g.state \in States /\ g.round \in Nat /\ Len(g.players) \in Nat
      /\ g.messages \in SUBSET Message
  BY DEF Typed, GameType
<1>2. VotesReceived(g) \in Nat
  BY VotesAreCounted
<1>3. View(g) \in SnapshotType
  BY <1>1, <1>2 DEF View, SnapshotType
<1>4. /\ View(g).state = g.state /\ View(g).round = g.round
      /\ View(g).messages = g.messages /\ View(g).votes = VotesReceived(g)
      /\ View(g).players = Len(g.players)
  BY DEF View
<1>5. View(g) # NoSnapshot
  BY <1>1, <1>4 DEF NoSnapshot, States
<1>6. PhaseNumber(View(g)) = PhaseNumber(g)
  BY <1>4 DEF PhaseNumber
<1>7. PhaseNumber(g) \in Nat
  BY PhasesAreNumbered
<1>8. Told(View(g), g)
  BY <1>1, <1>2, <1>4, <1>6, <1>7 DEF Told
<1>9. QED  BY <1>3, <1>4, <1>5, <1>6, <1>8

(* The past stays behind.                                                  *)
LEMMA TalesStayTrue ==
  ASSUME NEW g, NEW h, NEW V, Fit(g), Goes(g, h, V), NEW s \in SnapshotType, Told(s, g)
  PROVE  Told(s, h)
<1> SUFFICES ASSUME s # NoSnapshot  PROVE Told(s, h)
  BY DEF Told
<1>1. Typed(g) /\ Typed(h)
  BY DEF Fit, Goes, Sound
<1>2. /\ s \in [state : States, round : Nat, players : Nat,
                messages : SUBSET Message, votes : Nat]
  BY DEF SnapshotType
<1>3. PhaseNumber(s) \in Nat
  <2>1. s.state \in States /\ s.round \in Nat
    BY <1>2
  <2>2. QED  BY <2>1 DEF PhaseNumber, States
<1>4. PhaseNumber(s) <= PhaseNumber(h)
  <2>1. /\ PhaseNumber(g) \in Nat /\ PhaseNumber(h) \in Nat
        /\ PhaseNumber(s) <= PhaseNumber(g) /\ PhaseNumber(g) <= PhaseNumber(h)
    BY <1>1, PhasesAreNumbered DEF Told, Goes
  <2>2. QED  BY <1>3, <2>1
<1>5. s.votes <= VotesReceived(h)
  <2>1. DOMAIN g.votes \subseteq DOMAIN h.votes
    BY DEF Goes, Remembers
  <2>2. VotesReceived(g) <= VotesReceived(h)
    BY <1>1, <2>1, PresenceIsFinite, FS_Subset DEF VotesReceived
  <2>3. /\ VotesReceived(g) \in Nat /\ VotesReceived(h) \in Nat
        /\ s.votes \in Nat /\ s.votes <= VotesReceived(g)
    BY <1>1, <1>2, VotesAreCounted DEF Told
  <2>4. QED  BY <2>2, <2>3
<1>6. s.players <= Len(h.players)
  <2>1. s.players \in Nat /\ s.players <= Len(g.players)
    BY <1>2 DEF Told
  <2>2. QED  BY <2>1, RostersGrow
<1>7. s.messages \subseteq h.messages
  BY DEF Told, Goes, Remembers
<1>8. s.state = "REVEAL" => s = View(h)
  <2>1. View(g).state = g.state
    BY DEF View
  <2>2. QED  BY <2>1 DEF Told, Goes
<1>9. QED  BY <1>4, <1>5, <1>6, <1>7, <1>8 DEF Told

(* Only humans have a vote that counts.                                    *)
LEMMA VotersAreHumans ==
  ASSUME NEW g, Sound(g)
  PROVE  Scorable(g) \subseteq Humans(g) /\ None \notin Humans(g)
<1>1. Scorable(g) \subseteq Humans(g)
  BY DEF Sound, SoundBallots, ProperBallots, Scorable
<1>2. Players(g) \subseteq Aliases
  BY PlayersAreNumbered DEF Sound
<1>3. QED  BY <1>1, <1>2 DEF Humans, Aliases, None

(* Who has a seat, or a vote, keeps it.                                    *)
LEMMA MembersStay ==
  ASSUME NEW g, NEW h, NEW V, Goes(g, h, V)
  PROVE  /\ Players(g) \subseteq Players(h) /\ Humans(g) \subseteq Humans(h)
         /\ Scorable(g) \subseteq Scorable(h)
  BY DEF Goes, Remembers, Humans, Scorable

(* A page p becomes r while the room goes on.                              *)
Turns(p, r, h) ==
  /\ r \in PageType /\ r.alias = p.alias
  /\ r.snapshot \in {p.snapshot, View(h), NoSnapshot}
  /\ r.found \in {p.found, 0} \/ r.found <= Len(h.players)
  /\ r.voted => p.voted \/ p.at = "vote"
  /\ p.voted => r.voted
  /\ r.at = "vote" => p.at = "vote" \/ p.alias \in Scorable(h)
  /\ r.at = "joining" => p.at = "joining" \/ p.alias = None
  /\ r.crowded = p.crowded
  /\ p.lost => r.lost

(* Of the new votes of V it learns, or that something was lost.            *)
Learns(p, r, V) ==
  \/ r.lost \/ r.at = "vote"
  \/ p.alias \notin V \ {None} /\ (p.at = "vote" => r.voted)

(* A page that turns is as sound of the room as it is then.                *)
LEMMA PagesGoOn ==
  ASSUME NEW g, NEW h, NEW V, Fit(g), Goes(g, h, V),
         NEW p, PageSound(p, g), NEW r, Turns(p, r, h)
  PROVE  PageSound(r, h)
<1>1. Sound(h) /\ Typed(h) /\ Sound(g) /\ Typed(g)
  BY DEF Goes, Fit, Sound
<1>2. /\ Humans(g) \subseteq Humans(h) /\ Scorable(g) \subseteq Scorable(h)
      /\ Players(g) \subseteq Players(h)
  BY <1>1, MembersStay
<1>3. r.alias \in Humans(h) \cup {None}
  BY <1>2 DEF Turns, PageSound
<1>4. Told(r.snapshot, h)
  <2>1. p.snapshot \in SnapshotType /\ Told(p.snapshot, g)
    BY DEF PageSound, PageType
  <2>2. Told(p.snapshot, h)
    BY <2>1, TalesStayTrue
  <2>3. Told(View(h), h) /\ Told(NoSnapshot, h)
    BY <1>1, ViewsAreTold DEF Told
  <2>4. QED  BY <2>2, <2>3 DEF Turns
<1>5. r.voted \/ r.at = "vote" => r.alias \in Scorable(h)
  BY <1>2 DEF Turns, PageSound
<1>6. r.found <= Len(h.players)
  <2>1. p.found \in Nat /\ p.found <= Len(g.players)
    BY DEF PageSound, PageType
  <2>2. QED  BY <2>1, RostersGrow DEF Turns
<1>7. r.at = "joining" => r.alias = None
  BY DEF Turns, PageSound
<1>8. QED  BY <1>3, <1>4, <1>5, <1>6, <1>7 DEF PageSound, Turns

(* If it learns of the new votes, it knows of its own.                     *)
LEMMA PagesLearn ==
  ASSUME NEW g, NEW h, NEW V, Fit(g), Goes(g, h, V), NEW p, PageSound(p, g), Knows(p, g),
         NEW r, Turns(p, r, h), Learns(p, r, V)
  PROVE  Knows(r, h)
<1>1. None \notin Scorable(h)
  BY VotersAreHumans DEF Goes, Fit
<1>2. SUFFICES ASSUME r.alias \in Scorable(h), ~r.lost, r.at # "vote"  PROVE r.voted
  BY DEF Knows
<1>3. /\ p.alias \in Scorable(h) /\ ~p.lost /\ p.alias \notin V \ {None}
      /\ p.at = "vote" => r.voted
  BY <1>2 DEF Turns, Learns
<1>4. p.alias \in Scorable(g)
  BY <1>1, <1>3 DEF Goes
<1>5. p.voted \/ p.at = "vote"
  BY <1>3, <1>4 DEF Knows
<1>6. QED  BY <1>3, <1>5 DEF Turns

(* A newcomer's page r: a player, and a vote not cast.                     *)
LEMMA NewcomersAreSound ==
  ASSUME NEW g, NEW h, NEW V, Fit(g), Goes(g, h, V), h.state = "LOBBY",
         NEW p, PageSound(p, g), p.alias = None,
         NEW r, r \in PageType, r.alias \in Humans(h), r.snapshot = p.snapshot,
         r.voted = p.voted, r.at = "refresh", r.found \in {p.found, 0}
  PROVE  PageSound(r, h) /\ Knows(r, h)
<1>1. Sound(h) /\ Sound(g) /\ Typed(h) /\ Typed(g) /\ p \in PageType
  BY DEF Goes, Fit, Sound, PageSound
<1>2. ~p.voted /\ r.alias # None
  BY <1>1, VotersAreHumans DEF PageSound
<1>3. Scorable(h) = {}
  BY <1>1 DEF Sound, SoundBallots, ProperBallots, Scorable
<1>4. Told(p.snapshot, h)
  BY <1>1, TalesStayTrue DEF PageSound, PageType
<1>5. r.found <= Len(h.players)
  <2>1. p.found \in Nat /\ p.found <= Len(g.players)
    BY DEF PageSound, PageType
  <2>2. QED  BY <2>1, RostersGrow
<1>6. PageSound(r, h)
  BY <1>2, <1>4, <1>5 DEF PageSound
<1>7. QED  BY <1>3, <1>6 DEF Knows

----------------------------------------------------------------------------
(* The steps.  RoomGoes: no page changes.  PageGoes: that of b becomes r,  *)
(* and the new votes are those of b.  Nothing but a start disturbs a join. *)

RoomGoes(V) ==
  /\ Goes(game, game', V) /\ page' = page /\ (Entering => Welcomes(game, game'))
  /\ \A q \in late' \ late : q.kind = "joining" /\ Seated(q.found, game')
  /\ \A c \in Browsers : Own(c) /\ page[c].alias \in V \ {None} => page[c].lost

PageGoes(b, r, V) ==
  /\ Goes(game, game', V) /\ V \subseteq {page[b].alias}
  /\ Entering => Welcomes(game, game')
  /\ page' = [page EXCEPT ![b] = r] /\ PageSound(r, game')
  /\ Own(b) => Knows(r, game')
  /\ page[b].lost => r.lost
  /\ page[b].crowded => r.crowded
  /\ \/ r.alias = page[b].alias
     \/ page[b].alias = None /\ (r.crowded \/ r.alias \notin Players(game))
  /\ \/ r.snapshot \in {page[b].snapshot, View(game')}
     \/ r.snapshot = NoSnapshot /\ r.lost
  /\ r.at = "joining" =>
       Seated(r.found, game') \/ (page[b].at = "joining" /\ r.found = page[b].found)
  /\ \A q \in late' \ late :
       /\ q.kind \in Kinds \ {"joining"}
       /\ q.kind = "vote" => q.alias = r.alias /\ r.lost

(* A join that goes on waiting may rely on what it relied on.              *)
LEMMA JoinsAreNotDisturbed ==
  ASSUME UiSound, NEW V, Goes(game, game', V), Entering => Welcomes(game, game')
  PROVE  /\ \A b \in Browsers : page[b].at = "joining" => Seated(page[b].found, game')
         /\ \A q \in late : q.kind = "joining" => Seated(q.found, game')
<1>1. Fit(game)
  BY DEF UiSound
<1>2. ASSUME NEW n, Seated(n, game), Entering  PROVE Seated(n, game')
  BY <1>1, <1>2, JoinsWait
<1>3. QED  BY <1>2 DEF UiSound, JoinsAreSeated, Entering

(* When only the room goes on, the pages stay sound.                       *)
LEMMA RoomsKeepPages ==
  ASSUME UiSound, NEW V, RoomGoes(V)
  PROVE  UiSound'
<1>1. Fit(game) /\ Fit(game') /\ Goes(game, game', V) /\ page' = page
  BY DEF UiSound, RoomGoes, Goes
<1>2. ASSUME NEW c \in Browsers
      PROVE  PageSound(page[c], game') /\ (Own(c) => Knows(page[c], game'))
  <2>1. PageSound(page[c], game) /\ page[c] \in PageType
    BY DEF UiSound, PageSound
  <2>2. Turns(page[c], page[c], game')
    BY <2>1 DEF Turns
  <2>3. PageSound(page[c], game')
    BY <1>1, <2>1, <2>2, PagesGoOn
  <2>4. ASSUME Own(c)  PROVE Knows(page[c], game')
    <3>1. Knows(page[c], game)
      BY <2>4 DEF UiSound
    <3>2. Learns(page[c], page[c], V)
      BY <2>4 DEF RoomGoes, Learns
    <3>3. QED  BY <1>1, <2>1, <2>2, <3>1, <3>2, PagesLearn
  <2>5. QED  BY <2>3, <2>4
<1>3. ASSUME NEW q \in late'  PROVE LateSound(q, page')
  <2>1. CASE q \in late
    BY <1>1, <2>1 DEF UiSound
  <2>2. CASE q \notin late
    BY <1>3, <2>2 DEF RoomGoes, LateSound, Kinds
  <2>3. QED  BY <2>1, <2>2
<1>4. JoinsAreSeated'
  BY <1>1, JoinsAreNotDisturbed DEF RoomGoes, JoinsAreSeated
<1>5. AliasesAreOwn' /\ \A c \in Browsers : Own(c)' <=> Own(c)
  BY <1>1 DEF UiSound, AliasesAreOwn, Own, Alone
<1>6. QED  BY <1>1, <1>2, <1>3, <1>4, <1>5 DEF UiSound

(* When one page turns too, so do all.                                     *)
LEMMA PagesKeepPages ==
  ASSUME UiSound, NEW b \in Browsers, NEW r, NEW V, PageGoes(b, r, V)
  PROVE  UiSound'
<1>1. Fit(game) /\ Fit(game') /\ Goes(game, game', V)
  BY DEF UiSound, PageGoes, Goes
<1>2. /\ page \in [Browsers -> PageType] /\ r \in PageType
      /\ page' = [page EXCEPT ![b] = r]
  BY DEF UiSound, PageGoes, PageSound
<1>3. /\ page' \in [Browsers -> PageType] /\ page'[b] = r
      /\ \A c \in Browsers \ {b} : page'[c] = page[c]
  BY <1>2
<1>4. \A c \in Browsers :
        /\ page[c].alias # None => page'[c].alias = page[c].alias
        /\ page[c].lost => page'[c].lost
        /\ page[c].crowded => page'[c].crowded
  BY <1>3 DEF PageGoes
<1>5. ASSUME NEW c \in Browsers, Own(c)'  PROVE Own(c)
  <2>1. SUFFICES ASSUME page[c].alias # None, NEW d \in Browsers,
                        page[d].alias = page[c].alias
                 PROVE  d = c
    BY DEF Own, Alone
  <2>2. page'[c].alias = page[c].alias /\ page'[d].alias = page[d].alias
    BY <1>4, <2>1
  <2>3. QED  BY <1>5, <2>1, <2>2 DEF Own, Alone
<1>6. ASSUME NEW c \in Browsers
      PROVE  PageSound(page'[c], game') /\ (Own(c) => Knows(page'[c], game'))
  <2>1. CASE c = b
    BY <1>3, <2>1 DEF PageGoes
  <2>2. CASE c # b
    <3>1. PageSound(page[c], game) /\ page[c] \in PageType /\ page'[c] = page[c]
      BY <1>3, <2>2 DEF UiSound, PageSound
    <3>2. Turns(page[c], page[c], game')
      BY <3>1 DEF Turns
    <3>3. PageSound(page[c], game')
      BY <1>1, <3>1, <3>2, PagesGoOn
    <3>4. ASSUME Own(c)  PROVE Knows(page[c], game')
      <4>1. Knows(page[c], game)
        BY <3>4 DEF UiSound
      <4>2. page[c].alias \notin V \ {None}
        BY <2>2, <3>4 DEF Own, Alone, PageGoes
      <4>3. CASE page[c].at = "vote"
        BY <4>3 DEF Knows
      <4>4. CASE page[c].at # "vote"
        <5>1. Learns(page[c], page[c], V)
          BY <4>2, <4>4 DEF Learns
        <5>2. QED  BY <1>1, <3>1, <3>2, <4>1, <5>1, PagesLearn
      <4>5. QED  BY <4>3, <4>4
    <3>5. QED  BY <3>1, <3>3, <3>4
  <2>3. QED  BY <2>1, <2>2
<1>7. \A c \in Browsers : page[c].alias \in Players(game) \cup {None}
  BY DEF UiSound, PageSound, Humans
<1>8. AliasesAreOwn'
  <2> SUFFICES ASSUME NEW c \in Browsers, NEW d \in Browsers, c # d,
                      page'[c].alias = page'[d].alias, page'[c].alias # None
               PROVE  page'[c].crowded \/ page'[d].crowded
    BY DEF AliasesAreOwn
  <2>1. CASE page[c].alias = page[d].alias /\ page[c].alias # None
    BY <1>4, <2>1 DEF UiSound, AliasesAreOwn
  <2>2. CASE r.alias = page[b].alias
    BY <1>3, <2>1, <2>2
  <2>3. CASE r.crowded
    BY <1>3, <2>1, <2>3
  <2>4. CASE r.alias \notin Players(game)
    BY <1>3, <1>7, <2>1, <2>4
  <2>5. QED  BY <2>2, <2>3, <2>4 DEF PageGoes
<1>9. JoinsAreSeated'
  <2>1. /\ \A c \in Browsers : page[c].at = "joining" => Seated(page[c].found, game')
        /\ \A q \in late : q.kind = "joining" => Seated(q.found, game')
    BY <1>1, JoinsAreNotDisturbed DEF PageGoes
  <2>2. \A c \in Browsers : page'[c].at = "joining" => Seated(page'[c].found, game')
    BY <1>3, <2>1 DEF PageGoes
  <2>3. \A q \in late' : q.kind = "joining" => Seated(q.found, game')
    BY <2>1 DEF PageGoes
  <2>4. QED  BY <2>2, <2>3 DEF JoinsAreSeated
<1>10. ASSUME NEW q \in late'  PROVE LateSound(q, page')
  <2>1. CASE q \in late
    BY <1>4, <2>1 DEF UiSound, LateSound
  <2>2. CASE q \notin late
    BY <1>3, <1>10, <2>2 DEF PageGoes, LateSound
  <2>3. QED  BY <2>1, <2>2
<1>11. QED  BY <1>1, <1>3, <1>5, <1>6, <1>8, <1>9, <1>10 DEF UiSound

(* What a page becomes by a call that fails, is lost, or is accepted.      *)
LEMMA FailuresTurn ==
  ASSUME NEW p \in PageType, NEW h, NEW V
  PROVE  /\ Turns(p, Fail(p), h) /\ Learns(p, Fail(p), {})
         /\ Fail(p).snapshot = p.snapshot
         /\ Fail(p).at = p.at
         /\ Turns(p, Lose(p), h) /\ Learns(p, Lose(p), V)
         /\ Lose(p).snapshot = p.snapshot
         /\ Lose(p).at = p.at /\ Lose(p).lost
<1>1. /\ Fail(p) \in PageType /\ Fail(p).alias = p.alias /\ Fail(p).snapshot = p.snapshot
      /\ Fail(p).voted = p.voted /\ Fail(p).at = p.at /\ Fail(p).lost = p.lost
      /\ Fail(p).found = p.found /\ Fail(p).crowded = p.crowded
  BY DEF Fail, PageType
<1>2. /\ Lose(p) \in PageType /\ Lose(p).alias = p.alias /\ Lose(p).snapshot = p.snapshot
      /\ Lose(p).voted = p.voted /\ Lose(p).at = p.at /\ Lose(p).lost
      /\ Lose(p).found = p.found /\ Lose(p).crowded = p.crowded
  BY DEF Lose, Fail, PageType
<1>3. QED  BY <1>1, <1>2 DEF Turns, Learns

(* An answer, accepted or refused, turns a page.                           *)
LEMMA AnswersTurn ==
  ASSUME NEW p \in PageType, p.at = "ready", NEW h
  PROVE  /\ LET r == Answer(p, TRUE, "refresh")
            IN /\ Turns(p, r, h) /\ Learns(p, r, {}) /\ r.snapshot = p.snapshot
               /\ r.at # "joining"
         /\ LET r == Answer(p, TRUE, "vote")
            IN p.alias \in Scorable(h) =>
                 /\ Turns(p, r, h) /\ Learns(p, r, {p.alias}) /\ r.snapshot = p.snapshot
                 /\ r.at # "joining"
<1>1. ASSUME NEW t \in {"refresh", "vote"}
      PROVE  LET r == Answer(p, TRUE, t)
             IN /\ r \in PageType /\ r.alias = p.alias /\ r.snapshot = p.snapshot
                /\ r.voted = p.voted /\ r.at = t /\ r.lost = p.lost
                /\ r.found = p.found /\ r.crowded = p.crowded
  BY DEF Answer, PageType
<1>2. QED  BY <1>1 DEF Turns, Learns

(* A page that turns is a step of the browser.                             *)
LEMMA TurningGoes ==
  ASSUME UiSound, NEW b \in Browsers, NEW r, NEW V, V \subseteq {page[b].alias},
         Goes(game, game', V), Entering => Welcomes(game, game'),
         Turns(page[b], r, game'), Learns(page[b], r, V),
         page' = [page EXCEPT ![b] = r],
         r.snapshot = NoSnapshot => r.lost \/ r.snapshot = page[b].snapshot,
         r.at = "joining" =>
           Seated(r.found, game') \/ (page[b].at = "joining" /\ r.found = page[b].found),
         late' = late
  PROVE  PageGoes(b, r, V)
<1>1. Fit(game) /\ PageSound(page[b], game) /\ (Own(b) => Knows(page[b], game))
  BY DEF UiSound
<1>2. PageSound(r, game')
  BY <1>1, PagesGoOn
<1>3. Own(b) => Knows(r, game')
  BY <1>1, PagesLearn
<1>4. QED  BY <1>2, <1>3 DEF PageGoes, Turns

(* So does a request given up, which may come late.                        *)
LEMMA GivingUpGoes ==
  ASSUME UiSound, NEW b \in Browsers, NEW q, q.kind \in Kinds \ {"joining"},
         q.kind = "vote" => q.alias = page[b].alias, page[b].at = "ready", GiveUp(b, q)
  PROVE  \E r, V : PageGoes(b, r, V)
<1> DEFINE r == Lose(page[b])
<1>1. /\ page[b] \in PageType /\ PageSound(page[b], game) /\ Fit(game)
      /\ Own(b) => Knows(page[b], game)
  BY DEF UiSound, PageSound
<1>2. page' = [page EXCEPT ![b] = r] /\ game' = game /\ late' \subseteq late \cup {q}
  BY <1>1 DEF GiveUp, UiSound
<1>3. /\ Turns(page[b], r, game') /\ Learns(page[b], r, {})
      /\ r.snapshot = page[b].snapshot /\ r.lost /\ r.at = "ready"
  BY <1>1, FailuresTurn
<1>4. Goes(game, game', {}) /\ Welcomes(game, game')
  BY <1>1, <1>2, StayingGoes DEF Welcomes
<1> HIDE DEF r
<1>5. PageSound(r, game') /\ (Own(b) => Knows(r, game'))
  BY <1>1, <1>3, <1>4, PagesGoOn, PagesLearn
<1>6. PageGoes(b, r, {})
  BY <1>2, <1>3, <1>4, <1>5 DEF PageGoes, Turns
<1>7. QED  BY <1>6

(* The first call of a mutation; a start waits for the joins.              *)
LEMMA MutationsGo ==
  ASSUME UiSound, NEW b \in Browsers, NEW q, q.kind \in Calls,
         q.kind = "start" => ~Entering,
         q.kind = "vote" => q.alias = page[b].alias /\ q.suspect # None,
         Mutate(b, q)
  PROVE  \E r, V : PageGoes(b, r, V)
<1> DEFINE p == page[b]
<1>1. p \in PageType /\ PageSound(p, game) /\ Fit(game) /\ p.at = "ready"
  BY DEF UiSound, PageSound, Mutate
<1>2. CASE GiveUp(b, q)
  BY <1>1, <1>2, GivingUpGoes DEF Calls, Kinds
<1>3. ASSUME NEW o \in Handle(game, q), game' = o.game, late' = late,
             \/ page' = [page EXCEPT ![b] =
                     Answer(p, o.ok, IF q.kind = "vote" THEN "vote" ELSE "refresh")]
             \/ page' = [page EXCEPT ![b] = Lose(p)]
      PROVE  \E r, V : PageGoes(b, r, V)
  <2> DEFINE V == NewVotes(q, o.ok)
  <2> HIDE DEF p
  <2>1. Handled(game, q, o)
    BY <1>1, RequestsAreHandled
  <2>2. /\ Goes(game, game', V) /\ V \subseteq {p.alias}
        /\ Entering => Welcomes(game, game')
    BY <1>3, <2>1 DEF Handled, NewVotes, p
  <2>3. CASE page' = [page EXCEPT ![b] = Lose(p)]
    <3>1. /\ Turns(p, Lose(p), game') /\ Learns(p, Lose(p), V)
          /\ Lose(p).snapshot = p.snapshot
          /\ Lose(p).at = "ready"
      BY <1>1, FailuresTurn
    <3>2. PageGoes(b, Lose(p), V)
      BY <1>3, <2>2, <2>3, <3>1, TurningGoes DEF p
    <3>3. QED  BY <3>2
  <2>4. CASE o.ok = FALSE /\ page' = [page EXCEPT ![b] = Fail(p)]
    <3>1. /\ Turns(p, Fail(p), game') /\ Learns(p, Fail(p), {})
          /\ Fail(p).snapshot = p.snapshot
          /\ Fail(p).at = "ready"
      BY <1>1, FailuresTurn
    <3>2. V = {}
      BY <2>4 DEF NewVotes
    <3>3. PageGoes(b, Fail(p), {})
      BY <1>3, <2>2, <2>4, <3>1, <3>2, TurningGoes DEF p
    <3>4. QED  BY <3>3
  <2>5. CASE o.ok = TRUE /\ q.kind = "vote" /\ page' = [page EXCEPT ![b] = Answer(p, TRUE, "vote")]
    <3> DEFINE r == Answer(p, TRUE, "vote")
    <3>1. V = {p.alias} /\ p.alias \in Scorable(game')
      BY <1>3, <2>1, <2>5 DEF NewVotes, Handled, p
    <3>2. /\ Turns(p, r, game') /\ Learns(p, r, {p.alias}) /\ r.snapshot = p.snapshot
          /\ r.at # "joining"
      BY <1>1, <3>1, AnswersTurn
    <3> HIDE DEF r
    <3>3. page' = [page EXCEPT ![b] = r]
      BY <2>5 DEF r
    <3>4. PageGoes(b, r, V)
      BY <1>3, <2>2, <3>1, <3>2, <3>3, TurningGoes DEF p
    <3>5. QED  BY <3>4
  <2>6. CASE o.ok = TRUE /\ q.kind # "vote" /\ page' = [page EXCEPT ![b] = Answer(p, TRUE, "refresh")]
    <3> DEFINE r == Answer(p, TRUE, "refresh")
    <3>1. V = {}
      BY <2>6 DEF NewVotes
    <3>2. /\ Turns(p, r, game') /\ Learns(p, r, {}) /\ r.snapshot = p.snapshot
          /\ r.at # "joining"
      BY <1>1, AnswersTurn
    <3> HIDE DEF r
    <3>3. page' = [page EXCEPT ![b] = r]
      BY <2>6 DEF r
    <3>4. PageGoes(b, r, V)
      BY <1>3, <2>2, <3>1, <3>2, <3>3, TurningGoes DEF p
    <3>5. QED  BY <3>4
  <2>7. o.ok \in BOOLEAN
    BY <2>1 DEF Handled
  <2>8. Answer(p, FALSE, "vote") = Fail(p) /\ Answer(p, FALSE, "refresh") = Fail(p)
    BY DEF Answer
  <2>9. QED  BY <1>3, <2>3, <2>4, <2>5, <2>6, <2>7, <2>8
<1>4. QED
  <2>1. \/ GiveUp(b, q)
        \/ /\ late' = late
           /\ \E o \in Handle(game, q) :
                /\ game' = o.game
                /\ \/ page' = [page EXCEPT ![b] =
                           Answer(p, o.ok, IF q.kind = "vote" THEN "vote" ELSE "refresh")]
                   \/ page' = [page EXCEPT ![b] = Lose(p)]
    BY DEF Mutate, UiSound
  <2> HIDE DEF p
  <2>2. QED  BY <1>2, <1>3, <2>1

(* create: the first page to be answered has the host's alias.             *)
LEMMA CreationsGo ==
  ASSUME UiSound, NEW b \in Browsers, CreateRoom(b)
  PROVE  \E r, V : PageGoes(b, r, V)
<1> DEFINE p == page[b]
           h == AddPlayer(game, FALSE)
<1>1. /\ p \in PageType /\ PageSound(p, game) /\ Fit(game) /\ p.alias = None
      /\ p.at = "ready" /\ late' = late
  BY DEF UiSound, PageSound, CreateRoom
<1>2. CASE page' = [page EXCEPT ![b] = Lose(p)] /\ game' = game
  <2> HIDE DEF p
  <2>1. /\ Turns(p, Lose(p), game') /\ Learns(p, Lose(p), {})
        /\ Lose(p).snapshot = p.snapshot
        /\ Lose(p).at = "ready"
    BY <1>1, FailuresTurn
  <2>2. Goes(game, game', {}) /\ Welcomes(game, game')
    BY <1>1, <1>2, StayingGoes DEF Welcomes
  <2>3. PageGoes(b, Lose(p), {})
    BY <1>1, <1>2, <2>1, <2>2, TurningGoes DEF p
  <2>4. QED  BY <2>3
<1>3. CASE /\ game.players = << >> /\ game' = h
           /\ page' = [page EXCEPT ![b] = [Answer(p, TRUE, "refresh") EXCEPT !.alias = 1]]
  <2> DEFINE r == [Answer(p, TRUE, "refresh") EXCEPT !.alias = 1]
  <2>1. Players(game) = {} /\ Humans(game) = {} /\ Impostors(game) = {}
    BY <1>3 DEF Players, Humans, Impostors
  <2>2. game.state = "LOBBY"
    BY <1>1, <2>1, RosterIsPopulated DEF Fit
  <2>3. CanAddPlayer(game, FALSE) /\ Len(game.players) + 1 < MaxPlayers
    BY <1>3, <2>2 DEF CanAddPlayer
  <2>4. /\ Goes(game, h, {}) /\ h.players = Append(game.players, FALSE)
        /\ h.state = "LOBBY"
    BY <1>1, <2>3, SeatingGoes
  <2> HIDE DEF h
  <2>5. 1 \in Humans(h) /\ Welcomes(game, h)
    <3>1. h.players = <<FALSE>>
      BY <1>3, <2>4
    <3>2. DOMAIN h.players = {1} /\ ~h.players[1]
      BY <3>1
    <3>3. Humans(h) = {1} /\ Players(h) = {1}
      BY <3>2 DEF Humans, Players
    <3>4. QED  BY <2>4, <3>3 DEF Welcomes
  <2> HIDE DEF p
  <2>6. /\ r \in PageType /\ r.alias = 1 /\ r.snapshot = p.snapshot /\ r.lost = p.lost
        /\ r.voted = p.voted /\ r.at = "refresh" /\ r.found = p.found
        /\ r.crowded = p.crowded
    <3>1. 1 \in Aliases
      BY DEF Aliases
    <3>2. QED  BY <1>1, <3>1 DEF Answer, PageType
  <2> HIDE DEF r
  <2>7. PageSound(r, h) /\ Knows(r, h)
    BY <1>1, <2>4, <2>5, <2>6, NewcomersAreSound
  <2>8. PageGoes(b, r, {})
    BY <1>1, <1>3, <2>1, <2>4, <2>5, <2>6, <2>7 DEF PageGoes, r, p
  <2>9. QED  BY <2>8
<1>4. QED  BY <1>2, <1>3 DEF CreateRoom, UiSound, h

(* join: refused, given up, or its reading,                                *)
LEMMA JoinsGo ==
  ASSUME UiSound, NEW b \in Browsers, JoinRoom(b)
  PROVE  \E r, V : PageGoes(b, r, V)
<1> DEFINE p == page[b]
<1>1. /\ p \in PageType /\ PageSound(p, game) /\ Fit(game) /\ p.alias = None
      /\ p.at = "ready" /\ page \in [Browsers -> PageType]
  BY DEF UiSound, PageSound, JoinRoom
<1>2. CASE GiveUp(b, [kind |-> "join"])
  BY <1>1, <1>2, GivingUpGoes DEF Kinds
<1>3. Goes(game, game, {}) /\ Welcomes(game, game)
  BY <1>1, StayingGoes DEF Welcomes
<1>4. ASSUME game' = game, late' = late, NEW r \in {Answer(p, FALSE, "refresh"), Lose(p)},
             page' = [page EXCEPT ![b] = r]
      PROVE  \E s, V : PageGoes(b, s, V)
  <2> HIDE DEF p
  <2>1. Answer(p, FALSE, "refresh") = Fail(p)
    BY DEF Answer
  <2>2. /\ Turns(p, r, game') /\ Learns(p, r, {}) /\ r.snapshot = p.snapshot
        /\ r.at = "ready"
    BY <1>1, <1>4, <2>1, FailuresTurn
  <2>3. PageGoes(b, r, {})
    BY <1>3, <1>4, <2>2, TurningGoes DEF p
  <2>4. QED  BY <2>3
<1>5. CASE /\ CanJoin(game) /\ game' = game /\ late' = late
           /\ page' = [page EXCEPT ![b].at = "joining", ![b].found = Len(game.players)]
  <2> DEFINE n == Len(game.players)
             r == [p EXCEPT !.at = "joining", !.found = n]
  <2>1. n \in Nat
    BY <1>1 DEF Fit, Sound, Typed, GameType
  <2>2. page' = [page EXCEPT ![b] = r]
    <3> HIDE DEF n
    <3>1. QED  BY <1>1, <1>5 DEF PageType, n
  <2>3. /\ r \in PageType /\ r.alias = p.alias /\ r.snapshot = p.snapshot
        /\ r.lost = p.lost /\ r.voted = p.voted /\ r.crowded = p.crowded
        /\ r.at = "joining" /\ r.found = n
    <3> HIDE DEF n
    <3>1. QED  BY <1>1, <2>1 DEF PageType
  <2> HIDE DEF r
  <2>4. Seated(n, game)
    BY <1>5, <2>1 DEF CanJoin, CanAddPlayer, Seated
  <2>5. Turns(p, r, game') /\ Learns(p, r, {})
    BY <1>1, <1>5, <2>1, <2>3 DEF Turns, Learns
  <2>6. PageGoes(b, r, {})
    BY <1>3, <1>5, <2>2, <2>3, <2>4, <2>5, TurningGoes
  <2>7. QED  BY <2>6
<1>6. QED  BY <1>2, <1>4, <1>5 DEF JoinRoom

(* and its writing: the alias it is given is nobody else's, unless another *)
(* join was written in between.                                            *)
LEMMA SeatsGo ==
  ASSUME UiSound, NEW b \in Browsers, TakeSeat(b)
  PROVE  \E r, V : PageGoes(b, r, V)
<1> DEFINE p == page[b]
           n == p.found
           h == Sit(game, Seat(n))
<1>1. /\ p \in PageType /\ PageSound(p, game) /\ Fit(game) /\ p.at = "joining"
      /\ late' = late /\ game' = h
  BY DEF UiSound, PageSound, TakeSeat
<1>2. Seated(n, game) /\ p.alias = None
  BY <1>1 DEF UiSound, JoinsAreSeated, PageSound
<1>3. /\ Goes(game, game', {}) /\ Welcomes(game, game') /\ game'.state = "LOBBY"
      /\ Seat(n) \in Humans(game')
      /\ n = Len(game.players) => Seat(n) \notin Players(game)
  BY <1>1, <1>2, SittingGoes
<1> HIDE DEF h
<1>4. CASE page' = [page EXCEPT ![b] = [Lose(p) EXCEPT !.at = "ready", !.found = 0]]
  <2> DEFINE r == [Lose(p) EXCEPT !.at = "ready", !.found = 0]
  <2>1. /\ r \in PageType /\ r.alias = p.alias /\ r.snapshot = p.snapshot /\ r.lost
        /\ r.voted = p.voted /\ r.crowded = p.crowded /\ r.at = "ready" /\ r.found = 0
    BY <1>1 DEF Lose, Fail, PageType
  <2>2. page' = [page EXCEPT ![b] = r]
    BY <1>4
  <2> HIDE DEF r
  <2>3. Turns(p, r, game') /\ Learns(p, r, {})
    BY <2>1 DEF Turns, Learns
  <2>4. PageGoes(b, r, {})
    BY <1>1, <1>3, <2>1, <2>2, <2>3, TurningGoes
  <2>5. QED  BY <2>4
<1>5. CASE page' = [page EXCEPT ![b] =
                 [Answer(p, TRUE, "refresh") EXCEPT
                    !.alias = Seat(n), !.found = 0, !.crowded = n # Len(game.players)]]
  <2> DEFINE a == Seat(n)
             x == n # Len(game.players)
             r == [Answer(p, TRUE, "refresh") EXCEPT !.alias = a, !.found = 0, !.crowded = x]
  <2>1. a \in Aliases /\ x \in BOOLEAN
    BY <1>3, PlayersAreNumbered DEF Goes, Fit, Sound, Humans
  <2>2. page' = [page EXCEPT ![b] = r]
    BY <1>5
  <2> HIDE DEF a, x
  <2>3. /\ r \in PageType /\ r.alias = a /\ r.snapshot = p.snapshot /\ r.lost = p.lost
        /\ r.voted = p.voted /\ r.crowded = x /\ r.at = "refresh" /\ r.found = 0
    BY <1>1, <2>1 DEF Answer, PageType
  <2> HIDE DEF r
  <2>4. PageSound(r, game') /\ Knows(r, game')
    BY <1>1, <1>2, <1>3, <2>3, NewcomersAreSound DEF a
  <2>5. r.crowded \/ r.alias \notin Players(game)
    BY <1>3, <2>3 DEF a, x
  <2>6. ~p.crowded
    BY <1>1, <1>2 DEF PageSound
  <2>7. PageGoes(b, r, {})
    BY <1>1, <1>2, <1>3, <2>2, <2>3, <2>4, <2>5, <2>6 DEF PageGoes
  <2>8. QED  BY <2>7
<1>6. QED  BY <1>4, <1>5 DEF TakeSeat

(* get_state: after a mutation, and as a poll.                             *)
LEMMA ViewsTurn ==
  ASSUME NEW p \in PageType, NEW h, Typed(h)
  PROVE  /\ LET r == [p EXCEPT !.snapshot = View(h), !.at = "ready", !.notice = FALSE,
                               !.voted = @ \/ p.at = "vote"]
            IN /\ Turns(p, r, h) /\ Learns(p, r, {}) /\ r.snapshot # NoSnapshot
               /\ r.at # "joining"
         /\ LET r == [p EXCEPT !.snapshot = View(h), !.notice = FALSE]
            IN /\ Turns(p, r, h) /\ Learns(p, r, {}) /\ r.snapshot # NoSnapshot
               /\ r.at = p.at
         /\ LET r == [Lose(p) EXCEPT !.snapshot = NoSnapshot, !.at = "ready"]
            IN /\ Turns(p, r, h) /\ Learns(p, r, {}) /\ r.lost /\ r.at # "joining"
<1> DEFINE v == View(h)
<1>1. v \in SnapshotType /\ v # NoSnapshot
  BY ViewsAreTold
<1> HIDE DEF v
<1>2. LET r == [p EXCEPT !.snapshot = v, !.at = "ready", !.notice = FALSE,
                         !.voted = @ \/ p.at = "vote"]
      IN /\ r \in PageType /\ r.alias = p.alias /\ r.snapshot = v /\ r.lost = p.lost
         /\ r.at = "ready" /\ r.voted = (p.voted \/ p.at = "vote")
         /\ r.found = p.found /\ r.crowded = p.crowded
  BY <1>1 DEF PageType
<1>3. LET r == [p EXCEPT !.snapshot = v, !.notice = FALSE]
      IN /\ r \in PageType /\ r.alias = p.alias /\ r.snapshot = v /\ r.lost = p.lost
         /\ r.at = p.at /\ r.voted = p.voted
         /\ r.found = p.found /\ r.crowded = p.crowded
  BY <1>1 DEF PageType
<1>4. LET r == [Lose(p) EXCEPT !.snapshot = NoSnapshot, !.at = "ready"]
      IN /\ r \in PageType /\ r.alias = p.alias /\ r.snapshot = NoSnapshot /\ r.lost
         /\ r.at = "ready" /\ r.voted = p.voted
         /\ r.found = p.found /\ r.crowded = p.crowded
  BY DEF PageType, SnapshotType, Lose, Fail
<1>5. LET r == [p EXCEPT !.snapshot = v, !.at = "ready", !.notice = FALSE,
                         !.voted = @ \/ p.at = "vote"]
      IN /\ Turns(p, r, h) /\ Learns(p, r, {}) /\ r.snapshot # NoSnapshot
         /\ r.at # "joining"
  BY <1>1, <1>2 DEF Turns, Learns, v
<1>6. LET r == [p EXCEPT !.snapshot = v, !.notice = FALSE]
      IN Turns(p, r, h) /\ Learns(p, r, {}) /\ r.snapshot # NoSnapshot /\ r.at = p.at
  BY <1>1, <1>3 DEF Turns, Learns, v
<1>7. LET r == [Lose(p) EXCEPT !.snapshot = NoSnapshot, !.at = "ready"]
      IN Turns(p, r, h) /\ Learns(p, r, {}) /\ r.lost /\ r.at # "joining"
  BY <1>4 DEF Turns, Learns
<1>8. QED  BY <1>5, <1>6, <1>7 DEF v

(* The second call of a mutation, and the poll.                            *)
LEMMA ViewsGo ==
  ASSUME UiSound, NEW b \in Browsers, Refresh(b) \/ PollSnapshot(b) \/ PollFails(b)
  PROVE  \E r, V : PageGoes(b, r, V)
<1> DEFINE p == page[b]
<1>1. /\ p \in PageType /\ Fit(game) /\ late' = late
      /\ page \in [Browsers -> PageType]
  BY DEF UiSound, PageSound, Refresh, PollSnapshot, PollFails
<1>2. /\ Goes(game, CheckExpiration(game), {}) /\ Goes(game, game, {})
      /\ Welcomes(game, CheckExpiration(game)) /\ Welcomes(game, game)
  BY <1>1, LookingGoes, LookingWelcomes, StayingGoes DEF Welcomes
<1>3. ASSUME Goes(game, game', {}), Welcomes(game, game'), NEW r,
             Turns(p, r, game'), Learns(p, r, {}), r.at # "joining",
             page' = [page EXCEPT ![b] = r], r.snapshot # NoSnapshot \/ r.lost
      PROVE  \E q, V : PageGoes(b, q, V)
  <2>1. PageGoes(b, r, {})
    BY <1>1, <1>3, TurningGoes
  <2>2. QED  BY <2>1
<1>4. CASE Refresh(b) /\ game' = CheckExpiration(game)
              /\ page' = [page EXCEPT ![b].snapshot = View(game'), ![b].at = "ready",
                          ![b].notice = FALSE, ![b].voted = @ \/ p.at = "vote"]
  <2> DEFINE v == View(game')
             r == [p EXCEPT !.snapshot = v, !.at = "ready", !.notice = FALSE,
                            !.voted = @ \/ p.at = "vote"]
  <2>1. Goes(game, game', {}) /\ Welcomes(game, game') /\ Typed(game')
    BY <1>2, <1>4 DEF Goes, Fit, Sound
  <2>2. page' = [page EXCEPT ![b] = r]
    <3>1. page' = [page EXCEPT ![b].snapshot = v, ![b].at = "ready",
                   ![b].notice = FALSE, ![b].voted = @ \/ p.at = "vote"]
      BY <1>4
    <3> HIDE DEF v
    <3>2. QED  BY <1>1, <3>1 DEF PageType
  <2>3. Turns(p, r, game') /\ Learns(p, r, {}) /\ r.snapshot # NoSnapshot /\ r.at # "joining"
    BY <1>1, <2>1, ViewsTurn
  <2> HIDE DEF r
  <2>4. QED  BY <1>3, <2>1, <2>2, <2>3
<1>5. CASE game' = game /\ page' = [page EXCEPT ![b] = [Lose(p) EXCEPT !.snapshot = NoSnapshot,
                                                                  !.at = "ready"]]
  <2> DEFINE r == [Lose(p) EXCEPT !.snapshot = NoSnapshot, !.at = "ready"]
  <2>1. Goes(game, game', {}) /\ Welcomes(game, game') /\ Typed(game')
    BY <1>2, <1>5 DEF Goes, Fit, Sound
  <2>2. Turns(p, r, game') /\ Learns(p, r, {}) /\ r.lost /\ r.at # "joining"
    BY <1>1, <2>1, ViewsTurn
  <2>3. page' = [page EXCEPT ![b] = r]
    BY <1>5
  <2> HIDE DEF r
  <2>4. QED  BY <1>3, <2>1, <2>2, <2>3
<1>6. CASE PollSnapshot(b)
  <2> DEFINE v == View(game')
             r == [p EXCEPT !.snapshot = v, !.notice = FALSE]
  <2>1. Goes(game, game', {}) /\ Welcomes(game, game') /\ Typed(game')
    BY <1>2, <1>6 DEF Goes, Fit, Sound, PollSnapshot
  <2>2. page' = [page EXCEPT ![b].snapshot = v, ![b].notice = FALSE]
    BY <1>6 DEF PollSnapshot
  <2>3. page' = [page EXCEPT ![b] = r]
    <3> HIDE DEF v
    <3>1. QED  BY <1>1, <2>2 DEF PageType
  <2>4. Turns(p, r, game') /\ Learns(p, r, {}) /\ r.snapshot # NoSnapshot /\ r.at = p.at
    BY <1>1, <2>1, ViewsTurn
  <2> HIDE DEF r
  <2>5. r.at # "joining"
    BY <1>6, <2>4 DEF PollSnapshot, CanPoll
  <2>6. QED  BY <1>3, <2>1, <2>3, <2>4, <2>5
<1>7. CASE PollFails(b)
  <2> HIDE DEF p
  <2>1. game' = game /\ page' = [page EXCEPT ![b] = Fail(p)]
    BY <1>7 DEF PollFails, p
  <2>2. /\ Turns(p, Fail(p), game') /\ Learns(p, Fail(p), {})
        /\ Fail(p).snapshot = p.snapshot /\ Fail(p).at = "ready"
    BY <1>1, <1>7, FailuresTurn DEF PollFails, CanPoll, p
  <2>3. PageGoes(b, Fail(p), {})
    BY <1>1, <1>2, <2>1, <2>2, TurningGoes DEF p
  <2>4. QED  BY <2>3
<1>8. QED  BY <1>4, <1>5, <1>6, <1>7 DEF Refresh

(* Every widget makes one of these calls.                                  *)
LEMMA WidgetsGo ==
  ASSUME UiSound, NEW b \in Browsers, Use(b)
  PROVE  \E r, V : PageGoes(b, r, V)
<1> DEFINE p == page[b]
<1>1. CASE AcceptConsent(b)
  <2> DEFINE r == [p EXCEPT !.consent = TRUE, !.notice = FALSE]
  <2>1. /\ p \in PageType /\ Fit(game) /\ late' = late /\ game' = game
        /\ page \in [Browsers -> PageType]
        /\ page' = [page EXCEPT ![b].consent = TRUE, ![b].notice = FALSE]
    BY <1>1 DEF UiSound, PageSound, AcceptConsent
  <2>2. page' = [page EXCEPT ![b] = r]
    BY <2>1 DEF PageType
  <2>3. Goes(game, game', {}) /\ Welcomes(game, game')
    BY <2>1, StayingGoes DEF Welcomes
  <2>4. /\ r \in PageType /\ r.alias = p.alias /\ r.snapshot = p.snapshot
        /\ r.lost = p.lost /\ r.at = p.at /\ r.voted = p.voted
        /\ r.found = p.found /\ r.crowded = p.crowded
    BY <2>1 DEF PageType
  <2> HIDE DEF r
  <2>5. Turns(p, r, game') /\ Learns(p, r, {})
    BY <2>4 DEF Turns, Learns
  <2>6. PageGoes(b, r, {})
    BY <2>1, <2>2, <2>3, <2>4, <2>5, TurningGoes
  <2>7. QED  BY <2>6
<1>2. CASE StartRoom(b)
  <2>1. Mutate(b, [kind |-> "start"]) /\ ~Entering
    BY <1>2 DEF StartRoom
  <2>2. QED  BY <2>1, MutationsGo DEF Calls
<1>3. CASE SendMessage(b)
  <2>1. PICK t \in Texts : Mutate(b, [kind |-> "message", alias |-> page[b].alias, text |-> t])
    BY <1>3 DEF SendMessage
  <2>2. QED  BY <2>1, MutationsGo DEF Calls
<1>4. CASE OpenVotingRoom(b)
  <2>1. Mutate(b, [kind |-> "voting/open"])
    BY <1>4 DEF OpenVotingRoom
  <2>2. QED  BY <2>1, MutationsGo DEF Calls
<1>5. CASE SubmitVote(b)
  <2>1. PICK s \in (1..page[b].snapshot.players) \ {page[b].alias} :
          Mutate(b, [kind |-> "vote", alias |-> page[b].alias, suspect |-> s])
    BY <1>5 DEF SubmitVote
  <2>2. s # None
    BY <2>1 DEF None
  <2> DEFINE q == [kind |-> "vote", alias |-> page[b].alias, suspect |-> s]
  <2>3. q.kind = "vote" /\ q.kind \in Calls /\ q.alias = page[b].alias /\ q.suspect = s
    BY DEF Calls
  <2>4. Mutate(b, q)
    BY <2>1
  <2> HIDE DEF q
  <2>5. QED  BY <2>2, <2>3, <2>4, MutationsGo
<1>6. QED
  BY <1>1, <1>2, <1>3, <1>4, <1>5, CreationsGo, JoinsGo, SeatsGo DEF Use

(* What happens in the room without a browser.                             *)
LEMMA RoomsGo ==
  ASSUME UiSound, RoomTimer \/ RoomClock \/ Arrive \/ LateJoinReads \/ LateJoinWrites
  PROVE  \E V : RoomGoes(V)
<1>1. Fit(game)
  BY DEF UiSound
<1>2. ASSUME Goes(game, game', {}), Welcomes(game, game'), page' = page,
             \A q \in late' \ late : q.kind = "joining" /\ Seated(q.found, game')
      PROVE  \E V : RoomGoes(V)
  <2>1. RoomGoes({})
    BY <1>2 DEF RoomGoes
  <2>2. QED  BY <2>1
<1>3. CASE RoomTimer
  <2>1. Goes(game, game', {}) /\ Welcomes(game, game')
    BY <1>1, <1>3, LookingGoes, LookingWelcomes DEF RoomTimer, Poll, Welcomes
  <2>2. QED  BY <1>2, <1>3, <2>1 DEF RoomTimer
<1>4. CASE RoomClock
  <2>1. Goes(game, game', {}) /\ Welcomes(game, game')
    BY <1>1, <1>4, ElapsingGoes DEF RoomClock, Elapse, Welcomes, TimedStates
  <2>2. QED  BY <1>2, <1>4, <2>1 DEF RoomClock
<1>5. CASE Arrive
  <2>1. PICK q \in late :
          /\ q.kind \notin {"join", "joining"} /\ (q.kind = "start" => ~Entering)
          /\ \E o \in Handle(game, q) : game' = o.game
          /\ late' = late \ {q} /\ page' = page
    BY <1>5 DEF Arrive
  <2>2. PICK o \in Handle(game, q) : game' = o.game
    BY <2>1
  <2>3. LateSound(q, page) /\ q.kind \in Calls
    BY <2>1 DEF UiSound, LateSound, Kinds
  <2>4. Handled(game, q, o)
    BY <1>1, <2>3, RequestsAreHandled
  <2>5. Goes(game, game', NewVotes(q, o.ok)) /\ (Entering => Welcomes(game, game'))
    BY <2>1, <2>2, <2>4 DEF Handled
  <2>6. \A c \in Browsers : Own(c) /\ page[c].alias \in NewVotes(q, o.ok) \ {None} => page[c].lost
    BY <2>3 DEF LateSound, NewVotes, Own, Alone
  <2>7. RoomGoes(NewVotes(q, o.ok))
    BY <2>1, <2>5, <2>6 DEF RoomGoes
  <2>8. QED  BY <2>7
<1>6. CASE LateJoinReads
  <2>1. Goes(game, game', {}) /\ Welcomes(game, game') /\ page' = page /\ game' = game
    BY <1>1, <1>6, StayingGoes DEF LateJoinReads, Welcomes
  <2>2. CASE late' \subseteq late
    BY <1>2, <2>1, <2>2
  <2>3. CASE CanJoin(game) /\ late' \subseteq late \cup {[kind |-> "joining", found |-> Len(game.players)]}
    <3> DEFINE j == [kind |-> "joining", found |-> Len(game.players)]
    <3>1. Len(game.players) \in Nat
      BY <1>1 DEF Fit, Sound, Typed, GameType
    <3>2. Seated(j.found, game') /\ j.kind = "joining"
      BY <2>1, <2>3, <3>1 DEF CanJoin, CanAddPlayer, Seated
    <3> HIDE DEF j
    <3>3. \A q \in late' \ late : q = j
      BY <2>3 DEF j
    <3>4. QED  BY <1>2, <2>1, <3>2, <3>3
  <2>4. QED  BY <1>6, <2>2, <2>3 DEF LateJoinReads
<1>7. CASE LateJoinWrites
  <2>1. PICK q \in late :
          /\ q.kind = "joining" /\ game' = Sit(game, Seat(q.found))
          /\ late' = late \ {q} /\ page' = page
    BY <1>7 DEF LateJoinWrites
  <2>2. Seated(q.found, game)
    BY <2>1 DEF UiSound, JoinsAreSeated
  <2>3. Goes(game, game', {}) /\ Welcomes(game, game')
    BY <1>1, <2>1, <2>2, SittingGoes
  <2>4. QED  BY <1>2, <2>1, <2>3
<1>8. QED  BY <1>3, <1>4, <1>5, <1>6, <1>7

(* Every step is one of the room's, or turns one page.                     *)
LEMMA EveryUiStep ==
  ASSUME UiSound, [UiNext]_uiVars
  PROVE  \/ \E V : RoomGoes(V)
         \/ \E b \in Browsers : \E r, V : PageGoes(b, r, V)
<1>1. CASE UNCHANGED uiVars
  <2>1. Goes(game, game', {})
    BY <1>1, StayingGoes DEF uiVars, UiSound
  <2>2. RoomGoes({})
    BY <1>1, <2>1 DEF RoomGoes, Welcomes, uiVars
  <2>3. QED  BY <2>2
<1>2. CASE UiNext
  BY <1>2, RoomsGo, WidgetsGo, ViewsGo DEF UiNext
<1>3. QED  BY <1>1, <1>2

----------------------------------------------------------------------------
(* It holds when no session has begun.                                     *)
LEMMA UiInitIsSound == UiInit => UiSound
<1> SUFFICES ASSUME UiInit  PROVE UiSound
  OBVIOUS
<1>1. game = NewGame /\ late = {} /\ page = [b \in Browsers |-> NewPage]
  BY DEF UiInit, Init
<1>2. Sound(game) /\ Fit(game)
  <2>1. Len(NewGame.players) = 0
    BY DEF NewGame
  <2>2. QED  BY <1>1, <2>1, NewGameIsSound DEF Fit
<1>3. /\ NewPage \in PageType /\ NewPage.alias = None /\ NewPage.snapshot = NoSnapshot
      /\ NewPage.voted = FALSE /\ NewPage.at = "ready" /\ NewPage.crowded = FALSE
      /\ NewPage.found = 0
  BY DEF NewPage, PageType, SnapshotType
<1>4. None \notin Scorable(game) /\ Len(game.players) \in Nat
  BY <1>2, VotersAreHumans DEF Sound, Typed, GameType
<1>5. PageSound(NewPage, game) /\ Knows(NewPage, game)
  BY <1>3, <1>4 DEF PageSound, Knows, Told
<1>6. \A b \in Browsers : page[b] = NewPage
  BY <1>1
<1>7. AliasesAreOwn /\ JoinsAreSeated
  BY <1>1, <1>3, <1>6 DEF AliasesAreOwn, JoinsAreSeated
<1>8. QED  BY <1>1, <1>2, <1>3, <1>5, <1>6, <1>7 DEF UiSound

(* The inductive invariant of the sessions: they are sound throughout.     *)
LEMMA UiStaysSound == UiSpec => []UiSound
<1>1. UiSound /\ [UiNext]_uiVars => UiSound'
  BY EveryUiStep, RoomsKeepPages, PagesKeepPages
<1>2. QED  BY <1>1, UiInitIsSound, PTL DEF UiSpec

(* Who has an identity has a player, a human; and nobody else has it but   *)
(* by a join during which another was written.                             *)
THEOREM UiTypeCorrect == UiSpec => []UiTypeOK
<1>1. ASSUME UiSound, NEW b \in Browsers  PROVE page[b].found \in 0..Len(game.players)
  <2>1. page[b].found \in Nat /\ page[b].found <= Len(game.players)
    BY <1>1 DEF UiSound, PageSound, PageType
  <2>2. Len(game.players) \in Nat
    BY <1>1 DEF UiSound, Fit, Sound, Typed, GameType
  <2>3. QED  BY <2>1, <2>2
<1>2. UiSound => UiTypeOK
  BY <1>1 DEF UiSound, PageSound, PageType, SnapshotType, NoSnapshot, AliasesAreOwn, UiTypeOK
<1>3. QED  BY <1>2, UiStaysSound, PTL

(* A vote is shown as cast only to who has cast one, whatever is lost or   *)
(* late; and if nothing was lost, to all who have and alone act for their  *)
(* player.                                                                 *)
THEOREM ShownVotesAreCast == UiSpec => []VotesShownAreCast
<1>1. UiSound => VotesShownAreCast
  BY DEF UiSound, PageSound, Knows, Own, VotesShownAreCast
<1>2. QED  BY <1>1, UiStaysSound, PTL

(* A screen shows nothing the room has not been.                           *)
THEOREM ScreensTellNoLies == UiSpec => []ScreensTellThePast
<1>1. UiSound => ScreensTellThePast
  BY DEF UiSound, PageSound, Told, ScreensTellThePast
<1>2. QED  BY <1>1, UiStaysSound, PTL

(* A screen goes back only to nothing, and only when a call was lost.      *)
THEOREM ScreensGoForward == UiSpec => ScreensOnlyAdvance
<1> DEFINE Forward(s, t, gone) ==
      s # t /\ s # NoSnapshot =>
        \/ t = NoSnapshot /\ gone
        \/ t # NoSnapshot /\ PhaseNumber(s) <= PhaseNumber(t) /\ s.messages \subseteq t.messages
<1>1. ASSUME UiSound, NEW b \in Browsers, NEW V, Goes(game, game', V)
      PROVE  Forward(page[b].snapshot, View(game'), FALSE)
  <2> DEFINE s == page[b].snapshot
  <2> SUFFICES ASSUME s # NoSnapshot
               PROVE  /\ View(game') # NoSnapshot
                      /\ PhaseNumber(s) <= PhaseNumber(View(game'))
                      /\ s.messages \subseteq View(game').messages
    OBVIOUS
  <2>1. Told(s, game) /\ s \in SnapshotType /\ Fit(game)
    BY <1>1 DEF UiSound, PageSound, PageType
  <2>2. Told(s, game')
    BY <1>1, <2>1, TalesStayTrue
  <2>3. Typed(game')
    BY <1>1 DEF Goes, Fit, Sound
  <2>4. /\ View(game') # NoSnapshot /\ PhaseNumber(View(game')) = PhaseNumber(game')
        /\ View(game').messages = game'.messages
    BY <2>3, ViewsAreTold
  <2>5. QED  BY <2>2, <2>4 DEF Told
<1>2. UiSound /\ [UiNext]_uiVars =>
        \A b \in Browsers :
          Forward(page[b].snapshot, page'[b].snapshot, page'[b].lost)
  <2> SUFFICES ASSUME UiSound, [UiNext]_uiVars, NEW b \in Browsers
               PROVE  Forward(page[b].snapshot, page'[b].snapshot, page'[b].lost)
    OBVIOUS
  <2>1. CASE page'[b].snapshot = page[b].snapshot
    BY <2>1
  <2>2. ASSUME NEW r, NEW V, PageGoes(b, r, V)
        PROVE  Forward(page[b].snapshot, page'[b].snapshot, page'[b].lost)
    <3>1. Goes(game, game', V) /\ page'[b] = r
      BY <2>2 DEF PageGoes, UiSound
    <3>2. CASE r.snapshot = View(game')
      BY <1>1, <3>1, <3>2
    <3>3. QED  BY <2>2, <3>1, <3>2 DEF PageGoes
  <2>3. ASSUME NEW c \in Browsers, c # b, NEW r, NEW V, PageGoes(c, r, V)
        PROVE  page'[b].snapshot = page[b].snapshot
    BY <2>3 DEF PageGoes, UiSound
  <2>4. ASSUME NEW V, RoomGoes(V)  PROVE page'[b].snapshot = page[b].snapshot
    BY <2>4 DEF RoomGoes
  <2>5. QED  BY <2>1, <2>2, <2>3, <2>4, EveryUiStep
<1>3. UiSound /\ [UiNext]_uiVars =>
        [\A b \in Browsers :
           LET s == page[b].snapshot
               t == page'[b].snapshot
           IN s # t /\ s # NoSnapshot =>
                \/ t = NoSnapshot /\ page'[b].lost
                \/ t # NoSnapshot /\ PhaseNumber(s) <= PhaseNumber(t)
                   /\ s.messages \subseteq t.messages]_uiVars
  BY <1>2
<1>4. QED  BY <1>3, UiStaysSound, PTL DEF UiSpec, ScreensOnlyAdvance

(* A process whose source is chosen keeps the steps of the server's room   *)
(* and its pages, and those of the fake's: what is proved of either, here  *)
(* and in FakeProofs, is of it as well.                                    *)
THEOREM EitherSource == ApiSpec => UiSpec /\ F!FakeSpec
<1>1. ApiInit => UiInit /\ F!FakeInit
  BY DEF ApiInit
<1>2. [ApiNext]_apiVars => [UiNext]_uiVars /\ [F!FakeNext]_room
  BY DEF ApiNext, apiVars
<1>3. QED
  BY <1>1, <1>2, PTL DEF ApiSpec, UiSpec, F!FakeSpec

=============================================================================
