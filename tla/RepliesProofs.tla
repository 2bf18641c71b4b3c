---------------------------- MODULE RepliesProofs ----------------------------
(***************************************************************************)
(* What the replies of a room are worth, for any number of rounds, players *)
(* and failures of the sink.                                               *)
(*                                                                         *)
(* Standing says what a handler that holds the lock has found and still    *)
(* may rely on when it goes on: the seat of the impostor, a round that     *)
(* only the impostor is missing from, the ground of a refusal.  With Sound *)
(* of module GameProofs it is inductive; that the room plays the game and  *)
(* that refusals name reasons that hold follow from it.  Then come the     *)
(* table of events and the books.                                          *)
(***************************************************************************)
EXTENDS Replies, GameProofs

USE RoundsAssumption, TimedAssumption, MaxPlayersAssumption, RepliesAssumption

(* What g has against the request q.                                       *)
Ground(q, g) ==
  /\ q.kind \in {"start", "message", "vote"}
  /\ q.kind = "message" =>
       \/ g.state # "ROUND" \/ q.text \in {"blank", "long"}
       \/ [round |-> g.round, alias |-> q.alias] \in g.messages
  /\ q.kind = "vote" =>
       \/ g.state # "VOTING" \/ q.alias \in DOMAIN g.votes
       \/ q.suspect \notin Players(g) \cup {None}
       \/ q.suspect \in {q.alias} \cap Players(g)

Standing ==
  /\ job.at = "seated" => /\ game.state = "LOBBY" /\ Impostors(game) # {}
                          /\ job.q.kind = "start"
  /\ job.at = "turn" => Due(game)
  /\ job.at = "refused" => Ground(job.q, game)
  /\ job.at = "refused" /\ job.q.kind = "start" =>
       game.state # "LOBBY" \/ job.found \/ job.short

(* Whether or not the sink raises, the game is what the calls have made of *)
(* it; and the handler goes on, or has answered.                           *)
LEMMA HandlersGoOn ==
  ASSUME NEW h, NEW q, NEW k, NEW label
  PROVE  /\ GoesOn(h, q, k, label) =>
              /\ game' = h
              /\ job'.at \in {label, "free"} /\ (job'.at # "free" => job'.q = q)
              /\ job'.at # "free" =>
                   /\ job'.found = (IF Free THEN Impostors(game) # {} ELSE job.found)
                   /\ job'.short = (Cardinality(Humans(game')) < 2)
         /\ Answers(h, q, k, label) =>
              game' = h /\ job'.at = "free" /\ job'.code \in {label, "internal"}
<1>1. Goto(q, k, label) =>
        /\ job'.at = label /\ job'.q = q
        /\ job'.found = (IF Free THEN Impostors(game) # {} ELSE job.found)
        /\ job'.short = (Cardinality(Humans(game')) < 2)
  BY DEF Goto
<1>2. \A code : Reply(q, k, code) => job'.at = "free" /\ job'.code = code
  BY DEF Reply
<1>3. Tell(h) \/ TellFails(h) => game' = h
  BY DEF Tell, TellFails
<1>4. QED  BY <1>1, <1>2, <1>3 DEF GoesOn, Answers

----------------------------------------------------------------------------
(* Requests and handlers, one by one.                                      *)
LEMMA JoiningStands ==
  ASSUME Sound(game), Standing, JoinRoom
  PROVE  [Next]_game /\ Standing'
<1>1. game' = AddPlayer(game, FALSE) /\ game.state = "LOBBY" /\ job' = job
  BY DEF JoinRoom, Join, CanAddPlayer
<1>2. /\ game'.state = "LOBBY" /\ game'.players = Append(game.players, FALSE)
      /\ game.players \in Seq(BOOLEAN)
  BY <1>1 DEF AddPlayer, Sound, Typed, GameType
<1>3. Impostors(game) \subseteq Impostors(game')
  BY <1>2 DEF Impostors, Players
<1>4. job.at = "refused" => Ground(job.q, game')
  BY <1>1, <1>2 DEF Standing, Ground
<1>5. QED  BY <1>1, <1>2, <1>3, <1>4 DEF JoinRoom, Next, Standing, Due

LEMMA SeatingStands ==
  ASSUME Sound(game), Standing, SeatImpostor
  PROVE  [Next]_game /\ Standing'
<1> DEFINE q == Request("start")
<1>0. q.kind = "start"
  BY DEF Request, NoRequest
<1> HIDE DEF q
<1>1. CASE /\ CanAddPlayer(game, TRUE) /\ Len(game.players) < MaxPlayers
           /\ GoesOn(AddPlayer(game, TRUE), q, 0, "seated")
  <2>1. /\ game' = AddPlayer(game, TRUE)
        /\ job'.at \in {"seated", "free"} /\ (job'.at # "free" => job'.q = q)
    BY <1>1, HandlersGoOn
  <2>2. /\ game'.players = Append(game.players, TRUE) /\ game.players \in Seq(BOOLEAN)
        /\ game'.state = "LOBBY"
    BY <1>1, <2>1 DEF CanAddPlayer, AddPlayer, Sound, Typed, GameType
  <2>3. Len(game.players) + 1 \in Impostors(game')
    BY <2>2 DEF Impostors, Players
  <2>4. Join(TRUE)
    BY <1>1, <2>1 DEF Join
  <2>5. QED  BY <1>0, <2>1, <2>2, <2>3, <2>4 DEF Next, Standing
<1>2. CASE ~CanAddPlayer(game, TRUE) /\ GoesOn(game, q, 0, "refused")
  <2>1. /\ game' = game
        /\ job'.at \in {"refused", "free"} /\ (job'.at # "free" => job'.q = q)
        /\ job'.at # "free" => job'.found = (Impostors(game) # {})
    BY <1>2, HandlersGoOn DEF SeatImpostor
  <2>2. game.state # "LOBBY" \/ Impostors(game) # {}
    BY <1>2 DEF CanAddPlayer
  <2>3. job'.at = "refused" => /\ Ground(job'.q, game')
                               /\ game'.state # "LOBBY" \/ job'.found
    BY <1>0, <2>1, <2>2 DEF Ground
  <2>4. QED  BY <2>1, <2>3 DEF Standing
<1>3. QED  BY <1>1, <1>2 DEF SeatImpostor, q

LEMMA StartingStands ==
  ASSUME Sound(game), Standing, StartGame
  PROVE  [Next]_game /\ Standing'
<1>1. CASE CanStart(game) /\ Answers(Start(game), job.q, 0, "no_content")
  <2>1. game' = Start(game) /\ job'.at = "free"
    BY <1>1, HandlersGoOn
  <2>2. QED  BY <1>1, <2>1 DEF Next, Begin, Standing
<1>2. CASE ~CanStart(game) /\ GoesOn(game, job.q, 0, "refused")
  <2>1. /\ game' = game
        /\ job'.at \in {"refused", "free"} /\ (job'.at # "free" => job'.q = job.q)
        /\ job'.at # "free" => job'.short = (Cardinality(Humans(game)) < 2)
    BY <1>2, HandlersGoOn
  <2>2. Cardinality(Humans(game)) < 2
    <3>1. game.state = "LOBBY" /\ Impostors(game) # {}
      BY DEF StartGame, Standing
    <3>2. Cardinality(Impostors(game)) = 1
      <4>1. /\ IsFiniteSet(Impostors(game)) /\ IsFiniteSet(Humans(game))
            /\ Cardinality(Impostors(game)) <= 1
        BY PresenceIsFinite DEF Sound, FairRoster
      <4>2. Cardinality(Impostors(game)) \in Nat /\ Cardinality(Impostors(game)) # 0
        BY <3>1, <4>1, FS_CardinalityType, FS_EmptySet
      <4>3. QED  BY <4>1, <4>2
    <3>3. IsFiniteSet(Humans(game))
      BY PresenceIsFinite DEF Sound
    <3>4. Cardinality(Humans(game)) \in Nat
      BY <3>3, FS_CardinalityType
    <3>5. QED  BY <1>2, <3>1, <3>2, <3>4 DEF CanStart
  <2>3. job'.at = "refused" => Ground(job'.q, game') /\ job'.short
    BY <2>1, <2>2 DEF StartGame, Standing, Ground
  <2>4. QED  BY <2>1, <2>3 DEF Standing
<1>3. QED  BY <1>1, <1>2 DEF StartGame

LEMMA PostingStands ==
  ASSUME Sound(game), Standing, NEW a \in Aliases, NEW t \in Texts, PostMessage(a, t)
  PROVE  [Next]_game /\ Standing'
<1> DEFINE g == CheckExpiration(game)
           q == Message_(a, t)
           k == game.round
<1>1. q.kind = "message" /\ q.alias = a /\ q.text = t /\ k \in 0..Rounds
  BY DEF Message_, Request, NoRequest, Sound, Typed, GameType
<1>2. g.state = "ROUND" => g = game
  BY CheckExpirationSteps
<1>3. Sound(g) /\ a \in Humans(game)
  BY CheckExpirationIsSound DEF PostMessage
<1>4. PostMessage(a, t) =>
        \/ CanSubmit(g, a, t, k) /\ GoesOn(SubmitMessage(g, a), q, k, "accepted")
        \/ ~CanSubmit(g, a, t, k) /\ GoesOn(g, q, k, "refused")
  BY DEF PostMessage
<1>5. g = CheckExpiration(game)
  OBVIOUS
<1> HIDE DEF g, q, k
<1>6. CASE CanSubmit(g, a, t, k) /\ GoesOn(SubmitMessage(g, a), q, k, "accepted")
  <2>1. game' = SubmitMessage(g, a) /\ job'.at \in {"accepted", "free"}
    BY <1>6, HandlersGoOn
  <2>2. Say(a, t, k)
    BY <1>5, <1>6, <2>1 DEF Say
  <2>3. QED  BY <1>1, <2>1, <2>2 DEF Next, Standing
<1>7. CASE ~CanSubmit(g, a, t, k) /\ GoesOn(g, q, k, "refused")
  <2>1. /\ game' = g
        /\ job'.at \in {"refused", "free"} /\ (job'.at # "free" => job'.q = q)
    BY <1>7, HandlersGoOn
  <2>2. \A m \in g.messages : m = [round |-> m.round, alias |-> m.alias]
    BY <1>3 DEF Sound, Typed, GameType, Message
  <2>3. g.state = "ROUND" => /\ k \in {None, g.round} /\ a \in Players(g)
    BY <1>2, <1>3 DEF Humans, k
  <2>4. Ground(q, g)
    BY <1>1, <1>7, <2>2, <2>3 DEF Ground, CanSubmit, Current, Texts
  <2>5. job'.at = "refused" => Ground(job'.q, game') /\ job'.q.kind # "start"
    BY <1>1, <2>1, <2>4
  <2>6. QED  BY <1>5, <2>1, <2>5 DEF Next, Poll, Standing
<1>8. QED  BY <1>4, <1>6, <1>7

LEMMA CountingStands ==
  ASSUME Sound(game), Standing, AfterMessage
  PROVE  [Next]_game /\ Standing'
<1> DEFINE g == CheckExpiration(game)
<1>1. game' = g /\ (job'.at = "free" \/ (HumansComplete(g) /\ job'.at = "turn"))
  BY HandlersGoOn DEF AfterMessage
<1>2. QED  BY <1>1 DEF Next, Poll, Standing, HumansComplete, Due

LEMMA TurnStands ==
  ASSUME Sound(game), Standing, ImpostorTurn
  PROVE  [Next]_game /\ Standing'
<1>1. Due(game) /\ game.round \in 0..Rounds
  BY DEF ImpostorTurn, Standing, Sound, Typed, GameType
<1>2. ASSUME NEW a \in Impostors(game), ~Expired(game),
             Answers(SubmitMessage(game, a), job.q, job.round, "no_content")
      PROVE  [Next]_game /\ Standing'
  <2>1. game' = SubmitMessage(game, a) /\ job'.at = "free"
    BY <1>2, HandlersGoOn
  <2>2. a \in Aliases
    BY PlayersAreNumbered DEF Sound, Impostors
  <2>3. Say(a, "ok", 0)
    BY <1>1, <1>2, <2>1, ImpostorIsMissing DEF Say, CheckExpiration, None
  <2>4. 0 \in 0..Rounds /\ "ok" \in Texts
    BY DEF Texts
  <2>5. QED  BY <2>1, <2>2, <2>3, <2>4 DEF Next, Standing
<1>3. ASSUME NEW r \in TurnFailures \ {"round_timeout"},
             Answers(Interrupt(game, r), job.q, job.round, "no_content")
      PROVE  [Next]_game /\ Standing'
  <2>1. game' = Interrupt(game, r) /\ job'.at = "free"
    BY <1>3, HandlersGoOn
  <2>2. PICK a : a \in Impostors(game)
    <3>1. Cardinality(Impostors(game)) = 1
      BY <1>1 DEF Due, Sound, FairRoster
    <3>2. QED  BY <3>1, FS_EmptySet
  <2>3. FailTurn(r)
    BY <1>1, <2>1, <2>2, ImpostorIsMissing DEF FailTurn, Impostors
  <2>4. QED  BY <2>1, <2>3 DEF Next, Standing
<1>4. ASSUME NEW code, Answers(CheckExpiration(game), job.q, job.round, code)
      PROVE  [Next]_game /\ Standing'
  BY <1>4, HandlersGoOn DEF Next, Poll, Standing
<1>5. QED  BY <1>2, <1>3, <1>4 DEF ImpostorTurn

LEMMA OpeningStands ==
  ASSUME Sound(game), Standing, OpenVoting
  PROVE  [Next]_game /\ Standing'
<1>1. CallVote /\ job'.at = "free"
  BY HandlersGoOn DEF OpenVoting, CallVote
<1>2. QED  BY <1>1 DEF Next, Standing

LEMMA BallotingStands ==
  ASSUME Sound(game), Standing, NEW v \in Aliases, NEW s \in Aliases \cup {None},
         PostVote(v, s)
  PROVE  [Next]_game /\ Standing'
<1> DEFINE g == CheckExpiration(game)
           q == Vote_(v, s)
<1>1. q.kind = "vote" /\ q.alias = v /\ q.suspect = s
  BY DEF Vote_, Request, NoRequest
<1>2. PostVote(v, s) =>
        \/ CanVote(g, v, s) /\ Answers(CastVote(g, v, s), q, 0, "no_content")
        \/ ~CanVote(g, v, s) /\ GoesOn(g, q, 0, "refused")
  BY DEF PostVote
<1>3. Humans(g) = Humans(game)
  <2>1. game.state # "LOBBY" => g.players = game.players
    BY CheckExpirationSteps DEF Stepped, Remembers
  <2>2. game.state = "LOBBY" => g = game
    BY DEF CheckExpiration, Expired, TimedStates
  <2>3. QED  BY <2>1, <2>2 DEF Humans, Players
<1>4. g = CheckExpiration(game) /\ v \in Humans(g)
  BY <1>3 DEF PostVote
<1> HIDE DEF g, q
<1>5. CASE CanVote(g, v, s) /\ Answers(CastVote(g, v, s), q, 0, "no_content")
  <2>1. game' = CastVote(g, v, s) /\ job'.at = "free"
    BY <1>5, HandlersGoOn
  <2>2. Vote(v, s)
    BY <1>4, <1>5, <2>1 DEF Vote
  <2>3. QED  BY <2>1, <2>2 DEF Next, Standing
<1>6. CASE ~CanVote(g, v, s) /\ GoesOn(g, q, 0, "refused")
  <2>1. /\ game' = g
        /\ job'.at \in {"refused", "free"} /\ (job'.at # "free" => job'.q = q)
    BY <1>6, HandlersGoOn
  <2>2. Ground(q, g)
    BY <1>1, <1>4, <1>6 DEF Ground, CanVote, Humans
  <2>3. job'.at = "refused" => Ground(job'.q, game') /\ job'.q.kind # "start"
    BY <1>1, <2>1, <2>2
  <2>4. QED  BY <1>4, <2>1, <2>3 DEF Next, Poll, Standing
<1>7. QED  BY <1>2, <1>5, <1>6

LEMMA ObservingStands ==
  ASSUME Sound(game), Standing, Observe
  PROVE  [Next]_game /\ Standing'
<1>1. game' = CheckExpiration(game) /\ job' = job /\ job.at = "free"
  BY DEF Observe, Tell, TellFails, Free
<1>2. QED  BY <1>1 DEF Next, Poll, Standing

LEMMA ClassifyingStands ==
  ASSUME Sound(game), Standing, Classify
  PROVE  [Next]_game /\ Standing'
<1>1. game' = CheckExpiration(game) /\ job'.at = "free"
  BY HandlersGoOn DEF Classify
<1>2. QED  BY <1>1 DEF Next, Poll, Standing

LEMMA PassingStands ==
  ASSUME Sound(game), Standing, PassTime
  PROVE  [Next]_game /\ Standing'
<1>1. Elapse /\ job' = job
  BY DEF PassTime
<1>2. /\ game'.state = game.state /\ game'.players = game.players
      /\ game'.messages = game.messages /\ game'.votes = game.votes
      /\ game'.round = game.round
  BY <1>1 DEF Elapse, Sound, Typed, GameType
<1>3. QED
  BY <1>1, <1>2 DEF Next, Standing, Due, Ground, Impostors, Humans, Players,
     SubmittedHumans, Current

(* Every step of the room is a step of the game, or none; and what a       *)
(* handler relies on stands.                                               *)
LEMMA EveryStepStands ==
  ASSUME Sound(game), Standing, [RepliesNext]_vars
  PROVE  [Next]_game /\ Standing' /\ Sound(game')
<1>1. ASSUME UNCHANGED vars  PROVE [Next]_game /\ Standing'
  BY <1>1 DEF vars, Standing
<1>2. ASSUME RepliesNext  PROVE [Next]_game /\ Standing'
  <2>1. ASSUME Handler  PROVE [Next]_game /\ Standing'
    <3>1. ASSUME NEW a \in Aliases, NEW t \in Texts, PostMessage(a, t)
          PROVE  [Next]_game /\ Standing'
      BY <3>1, PostingStands
    <3>2. ASSUME NEW v \in Aliases, NEW s \in Aliases \cup {None}, PostVote(v, s)
          PROVE  [Next]_game /\ Standing'
      BY <3>2, BallotingStands
    <3>3. QED
      BY <2>1, <3>1, <3>2, SeatingStands, StartingStands, CountingStands, TurnStands,
         OpeningStands, ObservingStands, ClassifyingStands DEF Handler
  <2>2. QED  BY <1>2, <2>1, JoiningStands, PassingStands DEF RepliesNext
<1>3. [Next]_game /\ Standing'
  BY <1>1, <1>2
<1>4. QED  BY <1>3, StepIsSound

(* The game of a room is sound, and its handlers rely on what is so.       *)
THEOREM RoomStands == RepliesSpec => [](Sound(game) /\ Standing)
<1>1. RepliesInit => Sound(game) /\ Standing
  BY NewGameIsSound DEF RepliesInit, Init, Standing
<1>2. (Sound(game) /\ Standing) /\ [RepliesNext]_vars => (Sound(game) /\ Standing)'
  BY EveryStepStands
<1>3. QED  BY <1>1, <1>2, PTL DEF RepliesSpec

(* The room plays the game of module Game, whatever its requests are, and  *)
(* however often the sink raises.                                          *)
THEOREM RoomPlaysTheGame == RepliesSpec => PlaysTheGame
<1>1. RepliesInit => Init
  BY DEF RepliesInit
<1>2. (Sound(game) /\ Standing) /\ [RepliesNext]_vars => [Next]_game
  BY EveryStepStands
<1>3. QED  BY <1>1, <1>2, RoomStands, PTL DEF RepliesSpec, PlaysTheGame

----------------------------------------------------------------------------
(* What each code claims.                                                  *)
LEMMA Claims ==
  ASSUME NEW q, NEW g
  PROVE  /\ Holds("wrong_state", q, g) <=> g.state # PhaseOf[q.kind]
         /\ Holds("invalid_roster", q, g) <=> Cardinality(Humans(g)) < 2
         /\ Holds("empty_message", q, g) <=> q.text = "blank"
         /\ Holds("too_many_words", q, g) <=> q.text = "long"
         /\ Holds("duplicate_message", q, g) <=>
              [round |-> g.round, alias |-> q.alias] \in g.messages
         /\ Holds("not_a_player", q, g) <=> q.suspect \notin Players(g)
         /\ Holds("self_vote", q, g) <=> q.suspect = q.alias
         /\ Holds("duplicate_vote", q, g) <=> q.alias \in DOMAIN g.votes
  BY DEF Holds

(* The reason that is found after a refusal.  Of a start in the lobby it   *)
(* is the roster, whatever was wrong.                                      *)
LEMMA StartIsClassified ==
  ASSUME NEW q, NEW g, q.kind = "start"
  PROVE  /\ g.state # "LOBBY" => Holds(ClassifyStart(g), q, g)
         /\ g.state = "LOBBY" => ClassifyStart(g) = "invalid_roster"
<1>1. PhaseOf[q.kind] = "LOBBY"
  BY DEF PhaseOf
<1>2. ASSUME g.state # "LOBBY"  PROVE Holds(ClassifyStart(g), q, g)
  BY <1>1, <1>2, Claims DEF ClassifyStart
<1>3. QED  BY <1>2 DEF ClassifyStart

LEMMA MessageIsClassified ==
  ASSUME NEW q, NEW g, Ground(q, g), q.kind = "message"
  PROVE  Holds(ClassifySubmit(g, q), q, g)
<1> DEFINE code == ClassifySubmit(g, q)
<1>1. PhaseOf[q.kind] = "ROUND"
  BY DEF PhaseOf
<1>2. /\ g.state # "ROUND" => code = "wrong_state"
      /\ g.state = "ROUND" /\ q.text = "blank" => code = "empty_message"
      /\ g.state = "ROUND" /\ q.text = "long" => code = "too_many_words"
      /\ g.state = "ROUND" /\ q.text \notin {"blank", "long"} =>
           code = "duplicate_message"
  BY DEF ClassifySubmit
<1> HIDE DEF code
<1>3. Holds(code, q, g)
  BY <1>1, <1>2, Claims DEF Ground
<1>4. QED  BY <1>3 DEF code

LEMMA VoteIsClassified ==
  ASSUME NEW q, NEW g, q.kind = "vote",
         Ground(q, g) \/ ClassifyVote(g, q) # "duplicate_vote"
  PROVE  Holds(ClassifyVote(g, q), q, g)
<1>1. PhaseOf[q.kind] = "VOTING"
  BY DEF PhaseOf
<1>2. CASE g.state # "VOTING"
  <2>1. ClassifyVote(g, q) = "wrong_state"
    BY <1>2 DEF ClassifyVote
  <2>2. QED  BY <1>1, <1>2, <2>1, Claims
<1>3. CASE g.state = "VOTING" /\ q.suspect \notin Players(g) \cup {None}
  <2>1. ClassifyVote(g, q) = "not_a_player"
    BY <1>3 DEF ClassifyVote
  <2>2. QED  BY <1>3, <2>1, Claims
<1>4. CASE g.state = "VOTING" /\ q.suspect \in {q.alias} \cap Players(g)
  <2>1. ClassifyVote(g, q) = "self_vote"
    BY <1>4 DEF ClassifyVote
  <2>2. QED  BY <1>4, <2>1, Claims
<1>5. CASE /\ g.state = "VOTING" /\ q.suspect \in Players(g) \cup {None}
           /\ q.suspect \notin {q.alias} \cap Players(g)
  <2>1. ClassifyVote(g, q) = "duplicate_vote"
    BY <1>5 DEF ClassifyVote
  <2>2. q.alias \in DOMAIN g.votes
    BY <1>5, <2>1 DEF Ground
  <2>3. QED  BY <2>1, <2>2, Claims
<1>6. QED  BY <1>2, <1>3, <1>4, <1>5

(* The second look at the clock takes no ground away, but for one.         *)
LEMMA GroundStands ==
  ASSUME NEW q, NEW g, Sound(g), Ground(q, g)
  PROVE  LET h == CheckExpiration(g)
         IN \/ Ground(q, h)
            \/ q.kind = "vote" /\ Expired(g) /\ g.state = "DISCUSSION"
<1> DEFINE h == CheckExpiration(g)
<1>1. /\ ~Expired(g) => h = g
      /\ Expired(g) => h.state # "ROUND"
      /\ Expired(g) /\ g.state # "DISCUSSION" => h.state = "REVEAL"
      /\ g.state # "LOBBY" => h.state # "LOBBY"
  BY CheckExpirationSteps DEF Stepped, Remembers
<1>2. Expired(g) => g.state # "LOBBY"
  BY DEF Expired, TimedStates
<1> HIDE DEF h
<1>3. CASE ~Expired(g)
  BY <1>1, <1>3 DEF h
<1>4. CASE Expired(g)
  BY <1>1, <1>2, <1>4 DEF Ground, h
<1>5. QED  BY <1>3, <1>4

LEMMA ReasonIsTrue ==
  ASSUME Sound(game), Standing, Classify, job'.code # "internal"
  PROVE  \/ Holds(job'.code, job.q, game')
         \/ job'.code = "invalid_roster" /\ job.short
         \/ AnsweredFalsely(job'.code)
<1> DEFINE g == CheckExpiration(game)
           q == job.q
<1>1. Ground(q, game)
  BY DEF Classify, Standing
<1>2. Ground(q, g) \/ (q.kind = "vote" /\ VotingJustOpened)
  BY <1>1, GroundStands DEF VotingJustOpened
<1>3. /\ game' = g
      /\ job'.code = CASE q.kind = "start" -> ClassifyStart(g)
                       [] q.kind = "message" -> ClassifySubmit(g, q)
                       [] q.kind = "vote" -> ClassifyVote(g, q)
  BY HandlersGoOn DEF Classify
<1>a. g.state = "LOBBY" => game.state = "LOBBY"
  BY CheckExpirationSteps DEF Stepped, Remembers
<1> HIDE DEF g, q
<1>4. CASE q.kind = "start"
  <2>1. job'.code = ClassifyStart(g)
    BY <1>3, <1>4
  <2>2. game.state # "LOBBY" \/ job.found \/ job.short
    BY <1>4 DEF Classify, Standing, q
  <2>3. QED  BY <1>3, <1>4, <1>a, <2>1, <2>2, StartIsClassified DEF AnsweredFalsely, q
<1>5. CASE q.kind = "message"
  BY <1>2, <1>3, <1>5, MessageIsClassified DEF q
<1>6. CASE q.kind = "vote"
  BY <1>2, <1>3, <1>6, VoteIsClassified DEF AnsweredFalsely, q
<1>7. QED  BY <1>1, <1>4, <1>5, <1>6 DEF Ground

(* A refusal names a reason that holds, or that held when it was refused:  *)
(* humans may have joined and time may have passed before the code looks   *)
(* for it.  What is left are the two answers that break the contract: that *)
(* humans are missing, to a start that finds the impostor of an earlier    *)
(* one; and that a vote is the second, to a vote of the discussion that is *)
(* looked at in the voting.                                                *)
THEOREM RefusalsAreTrue == RepliesSpec => RefusalsHaveTheirReason
<1>1. (Sound(game) /\ Standing) /\ [RepliesNext]_vars =>
        [job.at = "refused" /\ Free' /\ job'.code # "internal" =>
           \/ Holds(job'.code, job.q, game')
           \/ job'.code = "invalid_roster" /\ job.short
           \/ AnsweredFalsely(job'.code)]_vars
  <2> SUFFICES ASSUME Sound(game), Standing, RepliesNext, job.at = "refused", Free',
                      job'.code # "internal"
               PROVE  \/ Holds(job'.code, job.q, game')
                      \/ job'.code = "invalid_roster" /\ job.short
                      \/ AnsweredFalsely(job'.code)
    OBVIOUS
  <2>1. ~JoinRoom /\ ~PassTime
    BY DEF JoinRoom, PassTime, Free
  <2>2. Classify
    BY <2>1 DEF RepliesNext, Handler, Free, SeatImpostor, StartGame, AfterMessage,
       ImpostorTurn, OpenVoting, Observe, PostMessage, PostVote
  <2>3. QED  BY <2>2, ReasonIsTrue
<1>2. QED  BY <1>1, RoomStands, PTL DEF RepliesSpec, RefusalsHaveTheirReason

----------------------------------------------------------------------------
(* The table of events.                                                    *)

(* No event of a game is told twice: its log has each start and each end   *)
(* of a round at a place of its own.                                       *)
LEMMA EventsAreDistinct ==
  ASSUME NEW g, Sound(g), NEW i \in DOMAIN g.events, NEW j \in DOMAIN g.events,
         g.events[i] = g.events[j]
  PROVE  i = j
<1> DEFINE ended == RoundsEnded(g)
           story == g.round + ended + 1
           Is(n) == \/ n = 1 /\ g.events[n].type = "game.started"
                    \/ \E k \in 1..g.round : n = 2 * k /\ g.events[n] = RoundStarted(k)
                    \/ \E k \in 1..ended : n = 2 * k + 1 /\ g.events[n] = RoundCompleted(k)
                    \/ n = story + 1 /\ g.events[n].type = "game.closed"
<1>1. g.events \in Seq(Event) /\ g.state # "LOBBY"
  BY DEF Sound, Typed, GameType, LogTellsTheGame
<1>2. g.round \in 1..Rounds /\ ended \in {g.round, g.round - 1}
  BY <1>1, RosterIsPopulated DEF RoundsEnded
<1>3. /\ Len(g.events) \in {story, story + 1}
      /\ g.events[1] = GameStarted
      /\ \A k \in 1..g.round : g.events[2 * k] = RoundStarted(k)
      /\ \A k \in 1..ended : g.events[2 * k + 1] = RoundCompleted(k)
      /\ Len(g.events) = story + 1 => g.events[story + 1] = ClosePayload(g)
  <2>1. /\ Len(g.events) = story + IF g.state = "REVEAL" THEN 1 ELSE 0
        /\ g.events[1] = GameStarted
        /\ \A k \in 1..g.round : g.events[2 * k] = RoundStarted(k)
        /\ \A k \in 1..ended : g.events[2 * k + 1] = RoundCompleted(k)
        /\ g.state = "REVEAL" => g.events[story + 1] = ClosePayload(g)
    BY <1>1 DEF Sound, LogTellsTheGame
  <2> HIDE DEF ended
  <2>2. story \in Nat
    BY <1>2
  <2>3. QED  BY <2>1, <2>2
<1> HIDE DEF ended
<1>4. ASSUME NEW n \in DOMAIN g.events  PROVE Is(n)
  <2>0. DOMAIN g.events = 1..Len(g.events) /\ Len(g.events) \in Nat
    BY <1>1
  <2>1. n \in Nat /\ 1 <= n /\ n <= story + 1
    <3>1. n \in 1..Len(g.events)
      BY <2>0
    <3>2. Len(g.events) <= story + 1
      BY <1>2, <1>3
    <3>3. QED  BY <1>2, <2>0, <3>1, <3>2
  <2> DEFINE k == n \div 2
  <2>2. k \in Nat /\ (n = 2 * k \/ n = 2 * k + 1)
    BY <2>1
  <2> HIDE DEF k
  <2>3. CASE n = 1
    BY <1>3, <2>3 DEF GameStarted
  <2>4. CASE n # 1 /\ n <= story /\ n = 2 * k
    <3>1. k \in 1..g.round
      BY <1>2, <2>1, <2>2, <2>4
    <3>2. QED  BY <1>3, <2>4, <3>1
  <2>5. CASE n # 1 /\ n <= story /\ n = 2 * k + 1
    <3>1. k \in 1..ended
      BY <1>2, <2>1, <2>2, <2>5
    <3>2. QED  BY <1>3, <2>5, <3>1
  <2>6. CASE n = story + 1
    <3>1. Len(g.events) = story + 1
      BY <1>1, <1>2, <1>3, <2>6
    <3>2. QED  BY <1>3, <2>6, <3>1 DEF ClosePayload
  <2>7. QED  BY <1>2, <2>1, <2>2, <2>3, <2>4, <2>5, <2>6
<1>5. \A k : /\ RoundStarted(k).type = "round.started" /\ RoundStarted(k).round = k
             /\ RoundCompleted(k).type = "round.completed" /\ RoundCompleted(k).round = k
  BY DEF RoundStarted, RoundCompleted
<1>6. Is(i) /\ Is(j)
  BY <1>4
<1>7. CASE g.events[i].type \in {"game.started", "game.closed"}
  BY <1>5, <1>6, <1>7
<1>8. CASE g.events[i].type = "round.started"
  <2>1. PICK k \in 1..g.round : i = 2 * k /\ g.events[i].round = k
    BY <1>5, <1>6, <1>8
  <2>2. PICK l \in 1..g.round : j = 2 * l /\ g.events[j].round = l
    BY <1>5, <1>6, <1>8
  <2>3. QED  BY <2>1, <2>2
<1>9. CASE g.events[i].type = "round.completed"
  <2>1. PICK k \in 1..ended : i = 2 * k + 1 /\ g.events[i].round = k
    BY <1>5, <1>6, <1>9
  <2>2. PICK l \in 1..ended : j = 2 * l + 1 /\ g.events[j].round = l
    BY <1>5, <1>6, <1>9
  <2>3. QED  BY <2>1, <2>2
<1>10. QED  BY <1>5, <1>6, <1>7, <1>8, <1>9

(* The rows r tell events of s, in the order of s.                         *)
Retells(r, s) ==
  /\ r \in Seq(Event)
  /\ \A i \in DOMAIN r : \E j \in DOMAIN s : r[i] = s[j]
  /\ \A i, p \in DOMAIN r, j, q \in DOMAIN s :
       i < p /\ r[i] = s[j] /\ r[p] = s[q] => j < q

(* t goes on after s, and repeats nothing.                                 *)
Continues(t, s) ==
  /\ s \in Seq(Event) /\ t \in Seq(Event)
  /\ \A i \in DOMAIN s : i \in DOMAIN t /\ t[i] = s[i]
  /\ \A i, j \in DOMAIN t : t[i] = t[j] => i = j

(* r2 is r and n more rows, of the events of t that follow those of s.     *)
Adds(r2, r, n, t, s) ==
  /\ r2 \in Seq(Event) /\ Len(r2) = Len(r) + n
  /\ \A i \in 1..Len(r) : r2[i] = r[i]
  /\ \A i \in 1..n : r2[Len(r) + i] = t[Len(s) + i]

LEMMA RetellingMore ==
  ASSUME NEW r, NEW s, NEW t, NEW r2, Retells(r, s), Continues(t, s),
         NEW n \in 0..(Len(t) - Len(s)), Adds(r2, r, n, t, s)
  PROVE  Retells(r2, t)
<1>1. /\ s \in Seq(Event) /\ t \in Seq(Event) /\ r \in Seq(Event) /\ r2 \in Seq(Event)
      /\ \A i \in DOMAIN s : i \in DOMAIN t /\ t[i] = s[i]
      /\ \A i, j \in DOMAIN t : t[i] = t[j] => i = j
      /\ Len(s) <= Len(t) /\ Len(r) \in Nat /\ Len(r2) = Len(r) + n
      /\ \A i \in 1..Len(r) : r2[i] = r[i]
      /\ \A i \in 1..n : r2[Len(r) + i] = t[Len(s) + i]
  BY DEF Retells, Continues, Adds
<1>2. ASSUME NEW i \in DOMAIN r2
      PROVE  \/ i \in DOMAIN r /\ \E j \in DOMAIN s : r2[i] = t[j]
             \/ /\ i > Len(r) /\ Len(s) + (i - Len(r)) \in DOMAIN t
                /\ r2[i] = t[Len(s) + (i - Len(r))]
  <2>1. CASE i <= Len(r)
    <3>1. i \in DOMAIN r /\ r2[i] = r[i]
      BY <1>1, <2>1
    <3>2. PICK j \in DOMAIN s : r[i] = s[j]
      BY <1>1, <3>1 DEF Retells
    <3>3. QED  BY <1>1, <3>1, <3>2
  <2>2. CASE i > Len(r)
    <3>1. i - Len(r) \in 1..n
      BY <1>1, <2>2
    <3>2. r2[Len(r) + (i - Len(r))] = t[Len(s) + (i - Len(r))]
      BY <1>1, <3>1
    <3>3. Len(r) + (i - Len(r)) = i
      BY <1>1
    <3>4. QED  BY <1>1, <2>2, <3>1, <3>2, <3>3
  <2>3. QED  BY <1>1, <2>1, <2>2
<1>3. \A i \in DOMAIN r2 : \E j \in DOMAIN t : r2[i] = t[j]
  BY <1>1, <1>2
<1>4. ASSUME NEW i \in DOMAIN r2, NEW p \in DOMAIN r2, NEW j \in DOMAIN t,
             NEW q \in DOMAIN t, i < p, r2[i] = t[j], r2[p] = t[q]
      PROVE  j < q
  <2>1. CASE p \in DOMAIN r
    <3>1. i \in DOMAIN r /\ r2[i] = r[i] /\ r2[p] = r[p]
      BY <1>1, <1>4, <2>1, SMTT(30)
    <3>2. PICK j1 \in DOMAIN s, q1 \in DOMAIN s : r[i] = s[j1] /\ r[p] = s[q1]
      BY <1>1, <2>1, <3>1 DEF Retells
    <3>3. j1 < q1
      BY <1>1, <1>4, <2>1, <3>1, <3>2 DEF Retells
    <3>4. j = j1 /\ q = q1
      <4>1. r2[i] = s[j1] /\ r2[p] = s[q1]
        BY <3>1, <3>2
      <4>2. /\ j1 \in DOMAIN t /\ t[j1] = s[j1]
            /\ q1 \in DOMAIN t /\ t[q1] = s[q1]
        BY <1>1
      <4>3. QED
        BY <1>1, <1>4, <4>1, <4>2
    <3>5. QED  BY <1>1, <3>3, <3>4
  <2>2. CASE p > Len(r)
    <3>1. q = Len(s) + (p - Len(r))
      BY <1>1, <1>2, <1>4, <2>2, SMTT(30)
    <3>2. CASE i \in DOMAIN r
      <4>1. PICK j1 \in DOMAIN s : r2[i] = t[j1]
        BY <1>1, <1>2, <3>2
      <4>2. j = j1
        BY <1>1, <1>4, <4>1
      <4>3. QED  BY <1>1, <2>2, <3>1, <4>1, <4>2
    <3>3. CASE i > Len(r)
      <4>0. i \notin DOMAIN r
        BY <1>1, <3>3
      <4>1. j = Len(s) + (i - Len(r))
        BY <1>1, <1>2, <1>4, <4>0
      <4>2. QED  BY <1>1, <1>4, <3>1, <4>1
    <3>4. QED  BY <1>1, <3>2, <3>3
  <2>3. QED  BY <1>1, <2>1, <2>2
<1>5. QED  BY <1>1, <1>3, <1>4 DEF Retells

(* One call of the domain adds two events at the most, to those before.    *)
LEMMA AtMostTwoEvents ==
  ASSUME Sound(game), Sound(game'), [Next]_game
  PROVE  /\ game.events \in Seq(Event) /\ game'.events \in Seq(Event)
         /\ \A i \in DOMAIN game.events :
              i \in DOMAIN game'.events /\ game'.events[i] = game.events[i]
         /\ Len(game'.events) - Len(game.events) \in 0..2
<1>1. game.events \in Seq(Event) /\ game'.events \in Seq(Event)
  BY DEF Sound, Typed, GameType
<1>2. CASE UNCHANGED game
  BY <1>1, <1>2
<1>3. CASE Next
  <2>1. Stepped(game, game')
    BY <1>3, EveryStep
  <2>2. \A i \in DOMAIN game.events :
          i \in DOMAIN game'.events /\ game'.events[i] = game.events[i]
    BY <2>1 DEF Stepped, Remembers
  <2>3. ASSUME NEW d, NEW e, game'.events = Append(Append(game.events, d), e)
        PROVE  Len(game'.events) = Len(game.events) + 2
    BY <1>1, <2>3
  <2>4. ASSUME NEW e, game'.events = Append(game.events, e)
        PROVE  Len(game'.events) = Len(game.events) + 1
    BY <1>1, <2>4
  <2>5. \/ game'.events = game.events
        \/ \E e : game'.events = Append(game.events, e)
        \/ \E d, e : game'.events = Append(Append(game.events, d), e)
    BY <2>1 DEF Stepped, Same, Opens, Ends, Begins, Advances, Discusses
  <2>6. QED  BY <1>1, <2>2, <2>3, <2>4, <2>5
<1>4. QED  BY <1>2, <1>3

(* Whatever the step, the sink is told of what it did, or raises.          *)
LEMMA EveryStepTells ==
  ASSUME Sound(game), [RepliesNext]_vars
  PROVE  \/ Tell(game') \/ TellFails(game')
         \/ game'.events = game.events /\ UNCHANGED <<rows, failures>>
<1> DEFINE Told == Tell(game') \/ TellFails(game')
<1>1. ASSUME NEW h, NEW q, NEW k, NEW label,
             GoesOn(h, q, k, label) \/ Answers(h, q, k, label)
      PROVE  Told
  <2>1. (Tell(h) \/ TellFails(h)) /\ game' = h
    BY <1>1 DEF GoesOn, Answers, Tell, TellFails
  <2>2. QED  BY <2>1 DEF Tell, TellFails
<1>2. Observe => Told
  BY DEF Observe, Tell, TellFails
<1> HIDE DEF Told
<1>3. ASSUME Handler  PROVE Told
  <2>1. SeatImpostor => Told
    BY <1>1 DEF SeatImpostor
  <2>2. StartGame => Told
    BY <1>1 DEF StartGame
  <2>3. AfterMessage => Told
    BY <1>1 DEF AfterMessage
  <2>4. ImpostorTurn => Told
    BY <1>1 DEF ImpostorTurn
  <2>5. OpenVoting => Told
    BY <1>1 DEF OpenVoting
  <2>6. Classify => Told
    BY <1>1 DEF Classify
  <2>7. \A a, t : PostMessage(a, t) => Told
    BY <1>1 DEF PostMessage
  <2>8. \A v, s : PostVote(v, s) => Told
    BY <1>1 DEF PostVote
  <2>9. QED
    BY <1>2, <1>3, <2>1, <2>2, <2>3, <2>4, <2>5, <2>6, <2>7, <2>8 DEF Handler
<1>4. ASSUME JoinRoom \/ PassTime \/ UNCHANGED vars
      PROVE  game'.events = game.events /\ UNCHANGED <<rows, failures>>
  <2>1. CASE JoinRoom
    BY <2>1 DEF JoinRoom, Join, AddPlayer, Sound, Typed, GameType
  <2>2. CASE PassTime
    BY <2>2 DEF PassTime, Elapse, Sound, Typed, GameType
  <2>3. CASE UNCHANGED vars
    BY <2>3 DEF vars
  <2>4. QED  BY <1>4, <2>1, <2>2, <2>3
<1>5. QED  BY <1>3, <1>4 DEF RepliesNext, Told

(* The rows are those of the game, but for two per call that raised.       *)
Table ==
  /\ Retells(rows, game.events)
  /\ failures \in Nat
  /\ Len(rows) <= Len(game.events)
  /\ Len(game.events) <= Len(rows) + 2 * failures

LEMMA TellingFillsTheTable ==
  ASSUME Sound(game), Sound(game'), [Next]_game, Table,
         Tell(game') \/ TellFails(game')
  PROVE  Table'
<1> DEFINE s == game.events
           t == game'.events
           added == Len(t) - Len(s)
           extra == SubSeq(t, Len(s) + 1, Len(t))
<1>1. /\ s \in Seq(Event) /\ t \in Seq(Event) /\ Len(t) - Len(s) \in 0..2
      /\ \A i \in DOMAIN s : i \in DOMAIN t /\ t[i] = s[i]
      /\ \A i, j \in DOMAIN t : t[i] = t[j] => i = j
  BY AtMostTwoEvents, EventsAreDistinct
<1>2. rows \in Seq(Event) /\ failures \in Nat
  BY DEF Table, Retells
<1>3. News(game') = extra
  BY DEF News
<1>4. (Tell(game') \/ TellFails(game')) /\ Table
  OBVIOUS
<1> HIDE DEF s, t
<1>5. /\ extra \in Seq(Event) /\ Len(extra) = added /\ added \in Nat
      /\ \A i \in 1..added : extra[i] = t[Len(s) + i]
  BY <1>1
<1> HIDE DEF extra, added
<1>6. PICK n \in 0..added :
             /\ rows' = rows \o SubSeq(extra, 1, n)
             /\ \/ n = added /\ failures' = failures
                \/ failures' = failures + 1
  <2>1. CASE Tell(game')
    <3>1. extra = SubSeq(extra, 1, added)
      BY <1>5
    <3>2. rows' = rows \o SubSeq(extra, 1, added) /\ failures' = failures
      BY <1>3, <2>1, <3>1 DEF Tell, added
    <3>3. added \in 0..added
      BY <1>5
    <3>4. QED  BY <3>2, <3>3 DEF added
  <2>2. CASE TellFails(game')
    <3>1. PICK n \in 0..(Len(extra) - 1) : rows' = rows \o SubSeq(extra, 1, n)
      BY <1>3, <2>2 DEF TellFails
    <3>2. n \in 0..added /\ failures' = failures + 1
      BY <1>5, <2>2, <3>1 DEF TellFails
    <3>3. QED  BY <3>1, <3>2 DEF added
  <2>3. QED  BY <1>4, <2>1, <2>2
<1>7. /\ rows' \in Seq(Event) /\ Len(rows') = Len(rows) + n
      /\ \A i \in 1..Len(rows) : rows'[i] = rows[i]
      /\ \A i \in 1..n : rows'[Len(rows) + i] = t[Len(s) + i]
  <2> DEFINE x == SubSeq(extra, 1, n)
  <2>1. /\ x \in Seq(Event) /\ Len(x) = n /\ n \in Nat
        /\ \A i \in 1..n : x[i] = t[Len(s) + i]
    BY <1>5
  <2> HIDE DEF x
  <2>2. rows' = rows \o x
    BY <1>6 DEF x
  <2>3. ASSUME NEW r \in Seq(Event)
        PROVE  /\ r \o x \in Seq(Event) /\ Len(r \o x) = Len(r) + n
               /\ \A i \in 1..Len(r) : (r \o x)[i] = r[i]
               /\ \A i \in 1..n : (r \o x)[Len(r) + i] = x[i]
    BY <2>1, <2>3
  <2>4. QED  BY <1>2, <2>1, <2>2, <2>3
<1>8. Retells(rows', t)
  <2>1. Retells(rows, s)
    BY <1>4 DEF Table, s
  <2>2. n \in 0..(Len(t) - Len(s))
    BY DEF added
  <2>3. Continues(t, s) /\ Adds(rows', rows, n, t, s)
    BY <1>1, <1>7 DEF Continues, Adds
  <2>4. QED  BY <2>1, <2>2, <2>3, RetellingMore
<1>9. /\ failures' \in Nat /\ Len(rows') <= Len(t)
      /\ Len(t) <= Len(rows') + 2 * failures'
  BY <1>1, <1>2, <1>4, <1>6, <1>7, SMTT(30) DEF Table, s, added
<1>10. QED  BY <1>8, <1>9 DEF Table, t

LEMMA TableStands ==
  ASSUME Sound(game), Standing, Table, [RepliesNext]_vars
  PROVE  Table'
<1>1. Sound(game') /\ [Next]_game
  BY EveryStepStands
<1>2. CASE game'.events = game.events /\ UNCHANGED <<rows, failures>>
  BY <1>2 DEF Table
<1>3. QED  BY <1>1, <1>2, EveryStepTells, TellingFillsTheTable

(* The table game_events tells the log of the game in order and without a  *)
(* repetition, whatever happens to the requests; what is missing from it   *)
(* are two events at the most for each call of the sink that raised.       *)
THEOREM TableTellsTheLog == RepliesSpec => []RowsTellTheLog
<1>1. RepliesInit => Table
  BY DEF RepliesInit, Init, NewGame, Table, Retells
<1>2. (Sound(game) /\ Standing) /\ Table /\ [RepliesNext]_vars => Table'
  BY TableStands
<1>3. Table => RowsTellTheLog
  <2> SUFFICES ASSUME Table  PROVE RowsTellTheLog
    OBVIOUS
  <2>1. \A i \in DOMAIN rows : rows[i] \in {game.events[j] : j \in DOMAIN game.events}
    BY DEF Table, Retells
  <2>2. \A i \in DOMAIN rows : /\ Position(rows[i]) \in DOMAIN game.events
                               /\ rows[i] = game.events[Position(rows[i])]
    BY <2>1 DEF Position
  <2>3. \A i, j \in DOMAIN rows : i < j => Position(rows[i]) < Position(rows[j])
    BY <2>2 DEF Table, Retells
  <2>4. QED  BY <2>1, <2>3 DEF Table, RowsTellTheLog
<1>4. QED  BY <1>1, <1>2, <1>3, RoomStands, PTL DEF RepliesSpec

----------------------------------------------------------------------------
(* The books.                                                              *)

Said(g) == {m \in g.messages : m.alias \in Humans(g)}

(* What the request q, which came in round k, asks to have recorded.       *)
AskedMessages(q, k) ==
  IF q.kind = "message" THEN {[round |-> k, alias |-> q.alias]} ELSE {}
AskedVoters(q) == IF q.kind = "vote" THEN {q.alias} ELSE {}

(* The message that is recorded and whose sender waits for a reply.        *)
Pending == IF Handled THEN {[round |-> job.round, alias |-> job.q.alias]} ELSE {}

IsBook(b) == b = [messages |-> b.messages, voters |-> b.voters]

Booked ==
  /\ IsBook(acked) /\ IsBook(failed) /\ failures \in Nat
  /\ acked.messages \subseteq game.messages
  /\ acked.voters \subseteq PresentHumans(game)
  /\ Said(game) \subseteq acked.messages \cup failed.messages \cup Pending
  /\ PresentHumans(game) \subseteq acked.voters \cup failed.voters
  /\ failures = 0 => failed.messages \subseteq game.messages /\ failed.voters = {}
  /\ Handled => job.q.kind = "message" /\ Pending \subseteq game.messages

LEMMA EnterAdds ==
  ASSUME NEW b, IsBook(b), NEW q, NEW k
  PROVE  /\ IsBook(Enter(b, q, k))
         /\ Enter(b, q, k).messages = b.messages \cup AskedMessages(q, k)
         /\ Enter(b, q, k).voters = b.voters \cup AskedVoters(q)
<1> DEFINE e == Enter(b, q, k)
<1>1. b = [messages |-> b.messages, voters |-> b.voters]
  BY DEF IsBook
<1>2. CASE q.kind = "message"
  <2>1. e = [messages |-> b.messages \cup {[round |-> k, alias |-> q.alias]},
             voters |-> b.voters]
    BY <1>1, <1>2 DEF Enter
  <2> HIDE DEF e
  <2>2. QED  BY <1>2, <2>1 DEF e, IsBook, AskedMessages, AskedVoters
<1>3. CASE q.kind = "vote"
  <2>1. e = [messages |-> b.messages, voters |-> b.voters \cup {q.alias}]
    BY <1>1, <1>3 DEF Enter
  <2> HIDE DEF e
  <2>2. QED  BY <1>3, <2>1 DEF e, IsBook, AskedMessages, AskedVoters
<1>4. CASE q.kind # "message" /\ q.kind # "vote"
  BY <1>4 DEF Enter, IsBook, AskedMessages, AskedVoters
<1>5. QED  BY <1>2, <1>3, <1>4

(* h has the records of the game and at most those the request q asks for. *)
Records(h, q, k) ==
  /\ game.messages \subseteq h.messages
  /\ Said(h) \subseteq Said(game) \cup AskedMessages(q, k)
  /\ PresentHumans(game) \subseteq PresentHumans(h)
  /\ PresentHumans(h) \subseteq PresentHumans(game) \cup AskedVoters(q)
  /\ Pending \subseteq AskedMessages(q, k)

(* A handler that goes on has nothing to answer for, or its message.       *)
LEMMA GoingOnIsBooked ==
  ASSUME Booked, NEW h, NEW q, NEW k, NEW label, GoesOn(h, q, k, label),
         Records(h, q, k), PresentHumans(h) = PresentHumans(game),
         IF label \in {"accepted", "turn"}
           THEN q.kind = "message" /\ AskedMessages(q, k) \subseteq h.messages
           ELSE Said(h) \subseteq Said(game) /\ Pending = {}
  PROVE  Booked'
<1>1. CASE Tell(h) /\ Goto(q, k, label)
  <2>1. /\ game' = h /\ job'.at = label /\ job'.q = q /\ job'.round = k
        /\ acked' = acked /\ failed' = failed /\ failures' = failures
    BY <1>1 DEF Tell, Goto, books
  <2>2. /\ Handled' <=> label \in {"accepted", "turn"}
        /\ Handled' => Pending' = AskedMessages(q, k)
    BY <2>1 DEF Handled, Pending, AskedMessages
  <2>3. Pending \subseteq AskedMessages(q, k)
    BY DEF Records
  <2>4. Said(game') \subseteq acked'.messages \cup failed'.messages \cup Pending'
    BY <2>1, <2>2, <2>3 DEF Booked, Records
  <2>5. QED  BY <2>1, <2>2, <2>4 DEF Booked, Records
<1>2. CASE TellFails(h) /\ Reply(q, k, "internal")
  <2>1. /\ game' = h /\ job'.at = "free" /\ acked' = acked
        /\ failed' = Enter(failed, q, k) /\ failures' = failures + 1
    BY <1>2 DEF TellFails, Reply
  <2>2. ~Handled' /\ Pending' = {}
    BY <2>1 DEF Handled, Pending
  <2>3. /\ IsBook(failed') /\ failures' \in Nat /\ failures' # 0
        /\ failed'.messages = failed.messages \cup AskedMessages(q, k)
        /\ failed'.voters = failed.voters \cup AskedVoters(q)
    BY <2>1, EnterAdds DEF Booked
  <2>4. QED  BY <2>1, <2>2, <2>3 DEF Booked, Records
<1>3. QED  BY <1>1, <1>2 DEF GoesOn

(* An answer enters what was asked for where it has been recorded.         *)
LEMMA AnsweringIsBooked ==
  ASSUME Booked, NEW h, NEW q, NEW k, NEW code, Answers(h, q, k, code),
         Records(h, q, k),
         code \in {"no_content", "internal"} =>
           AskedMessages(q, k) \subseteq h.messages,
         code = "no_content" => AskedVoters(q) \subseteq PresentHumans(h),
         code = "internal" => AskedVoters(q) = {},
         code \notin {"no_content", "internal"} =>
           /\ Said(h) \subseteq Said(game) /\ Pending = {}
           /\ PresentHumans(h) = PresentHumans(game)
  PROVE  Booked'
<1>1. game' = h /\ job'.at = "free" /\ ~Handled' /\ Pending' = {}
  BY DEF Answers, Tell, TellFails, Reply, Handled, Pending
<1>2. ASSUME NEW b, IsBook(b)
      PROVE  /\ IsBook(Enter(b, q, k))
             /\ Enter(b, q, k).messages = b.messages \cup AskedMessages(q, k)
             /\ Enter(b, q, k).voters = b.voters \cup AskedVoters(q)
  BY <1>2, EnterAdds
<1>3. CASE Tell(h) /\ Reply(q, k, code)
  <2>1. /\ failures' = failures
        /\ acked' = IF code = "no_content" THEN Enter(acked, q, k) ELSE acked
        /\ failed' = IF code = "internal" THEN Enter(failed, q, k) ELSE failed
    BY <1>3 DEF Tell, Reply
  <2>2. CASE code = "no_content"
    BY <1>1, <1>2, <2>1, <2>2 DEF Booked, Records
  <2>3. CASE code = "internal"
    BY <1>1, <1>2, <2>1, <2>3 DEF Booked, Records
  <2>4. CASE code \notin {"no_content", "internal"}
    BY <1>1, <2>1, <2>4 DEF Booked, Records
  <2>5. QED  BY <2>2, <2>3, <2>4
<1>4. CASE TellFails(h) /\ Reply(q, k, "internal")
  <2>1. failures' = failures + 1 /\ acked' = acked /\ failed' = Enter(failed, q, k)
    BY <1>4 DEF TellFails, Reply
  <2>2. failures' \in Nat /\ failures' # 0
    BY <2>1 DEF Booked
  <2>3. QED  BY <1>1, <1>2, <2>1, <2>2 DEF Booked, Records
<1>5. QED  BY <1>3, <1>4 DEF Answers

(* Nothing is recorded from g to h.                                        *)
Quiet(g, h) ==
  /\ h.messages = g.messages /\ Said(h) = Said(g)
  /\ PresentHumans(h) = PresentHumans(g)

LEMMA LookingIsQuiet ==
  ASSUME NEW g, Sound(g)
  PROVE  Quiet(g, CheckExpiration(g))
<1> DEFINE h == CheckExpiration(g)
<1>1. /\ ~Expired(g) => h = g
      /\ Expired(g) => h.messages = g.messages
      /\ g.state # "LOBBY" => h.players = g.players
      /\ Expired(g) /\ g.state = "VOTING" =>
           h.abstentions = g.abstentions /\ Scorable(h) = Scorable(g)
  BY CheckExpirationSteps DEF Stepped, Remembers
<1>2. CASE ~Expired(g)
  BY <1>1, <1>2 DEF Quiet
<1>3. CASE Expired(g)
  <2>1. h.players = g.players /\ h.messages = g.messages
    BY <1>1, <1>3 DEF Expired, TimedStates
  <2>2. g.state # "VOTING" =>
          h.votes = g.votes /\ h.abstentions = g.abstentions
    BY <1>3 DEF CheckExpiration, ExpireRound, Interrupt, EmitClose, Emit, OpenBallot,
       SetDeadline, Expired, TimedStates, Sound, Typed, GameType
  <2> HIDE DEF h
  <2>3. PresentHumans(h) = PresentHumans(g)
    BY <1>1, <1>3, <2>2 DEF PresentHumans, Scorable
  <2>4. Said(h) = Said(g)
    BY <2>1 DEF Said, Humans, Players
  <2>5. QED  BY <2>1, <2>3, <2>4 DEF Quiet, h
<1>4. QED  BY <1>2, <1>3

LEMMA MarkingIsQuiet ==
  ASSUME NEW g, Sound(g)
  PROVE  /\ Quiet(g, OpenBallot(g))
         /\ \A r : Quiet(g, Interrupt(g, r))
<1>1. ASSUME NEW h, h.messages = g.messages, h.players = g.players,
             h.votes = g.votes, h.abstentions = g.abstentions
      PROVE  Quiet(g, h)
  BY <1>1 DEF Quiet, Said, Humans, Players, PresentHumans, Scorable
<1>2. Quiet(g, OpenBallot(g))
  <2> DEFINE h == OpenBallot(g)
  <2>1. /\ h.messages = g.messages /\ h.players = g.players
        /\ h.votes = g.votes /\ h.abstentions = g.abstentions
    BY DEF OpenBallot, SetDeadline, Sound, Typed, GameType
  <2> HIDE DEF h
  <2>2. QED  BY <1>1, <2>1 DEF h
<1>3. ASSUME NEW r  PROVE Quiet(g, Interrupt(g, r))
  <2> DEFINE h == Interrupt(g, r)
  <2>1. /\ h.messages = g.messages /\ h.players = g.players
        /\ h.votes = g.votes /\ h.abstentions = g.abstentions
    BY DEF Interrupt, EmitClose, Emit, Sound, Typed, GameType
  <2> HIDE DEF h
  <2>2. QED  BY <1>1, <2>1 DEF h
<1>4. QED  BY <1>2, <1>3

LEMMA LobbyIsQuiet ==
  ASSUME NEW g, Sound(g), g.state = "LOBBY"
  PROVE  /\ \A ai : Quiet(g, AddPlayer(g, ai))
         /\ Quiet(g, Start(g))
<1>1. ASSUME NEW h, h.messages = g.messages, h.votes = g.votes,
             h.abstentions = g.abstentions
      PROVE  Quiet(g, h)
  BY <1>1 DEF Sound, Unbegun, Quiet, Said, PresentHumans, Scorable
<1>2. ASSUME NEW ai  PROVE Quiet(g, AddPlayer(g, ai))
  BY <1>1 DEF AddPlayer, Sound, Typed, GameType
<1>3. Quiet(g, Start(g))
  <2> DEFINE h == Start(g)
  <2>1. h.messages = g.messages /\ h.votes = g.votes /\ h.abstentions = g.abstentions
    BY DEF Start, Emit, SetDeadline, Sound, Typed, GameType
  <2> HIDE DEF h
  <2>2. QED  BY <1>1, <2>1 DEF h
<1>4. QED  BY <1>2, <1>3

LEMMA SubmittingRecords ==
  ASSUME NEW g, Sound(g), NEW a
  PROVE  LET h == SubmitMessage(g, a)
         IN /\ h.messages = g.messages \cup {[round |-> g.round, alias |-> a]}
            /\ Humans(h) = Humans(g) /\ PresentHumans(h) = PresentHumans(g)
<1> DEFINE h == SubmitMessage(g, a)
<1>1. /\ h.messages = g.messages \cup {[round |-> g.round, alias |-> a]}
      /\ h.players = g.players /\ h.votes = g.votes
      /\ h.abstentions = g.abstentions
  BY DEF SubmitMessage, NextRound, EndRounds, Emit, SetDeadline, Sound, Typed, GameType
<1> HIDE DEF h
<1>2. /\ h.messages = g.messages \cup {[round |-> g.round, alias |-> a]}
      /\ Humans(h) = Humans(g) /\ PresentHumans(h) = PresentHumans(g)
  BY <1>1 DEF Humans, Players, PresentHumans, Scorable
<1>3. QED  BY <1>2 DEF h

LEMMA CastingRecords ==
  ASSUME NEW g, Sound(g), NEW v, NEW s, CanVote(g, v, s)
  PROVE  LET h == CastVote(g, v, s)
         IN /\ h.messages = g.messages /\ Said(h) = Said(g)
            /\ PresentHumans(h) = PresentHumans(g) \cup {v}
<1> DEFINE h == CastVote(g, v, s)
<1>1. /\ h.messages = g.messages /\ h.players = g.players
      /\ h.votes = [a \in DOMAIN g.votes \cup {v} |-> IF a = v THEN s ELSE g.votes[a]]
      /\ h.abstentions = g.abstentions \cup (IF s = None THEN {v} ELSE {})
  BY DEF CastVote, CompleteReveal, EmitClose, Emit, Sound, Typed, GameType
<1> HIDE DEF h
<1>2. v \notin DOMAIN g.votes
  BY DEF CanVote
<1>3. Scorable(h) = Scorable(g) \cup (IF s = None THEN {} ELSE {v})
  BY <1>1, <1>2 DEF Scorable
<1>4. PresentHumans(h) = PresentHumans(g) \cup {v}
  BY <1>1, <1>3 DEF PresentHumans
<1>5. Said(h) = Said(g)
  BY <1>1 DEF Said, Humans, Players
<1>6. QED  BY <1>1, <1>4, <1>5 DEF h

(* A step that records nothing needs no book, whoever is answered what.    *)
LEMMA QuietAnswersAreBooked ==
  ASSUME Booked, NEW h, Quiet(game, h), NEW q, NEW k, NEW code,
         Answers(h, q, k, code), Pending = {},
         code = "no_content" => q.kind \notin {"message", "vote"},
         code # "internal"
  PROVE  Booked'
<1>1. Records(h, q, k)
  BY DEF Records, Quiet
<1>2. code = "no_content" => AskedMessages(q, k) = {} /\ AskedVoters(q) = {}
  BY DEF AskedMessages, AskedVoters
<1>3. QED  BY <1>1, <1>2, AnsweringIsBooked DEF Quiet

LEMMA QuietHandlersAreBooked ==
  ASSUME Booked, NEW h, Quiet(game, h), NEW q, NEW k, NEW label,
         GoesOn(h, q, k, label), Pending = {}, label \notin {"accepted", "turn"}
  PROVE  Booked'
<1>1. Records(h, q, k) /\ Said(h) \subseteq Said(game)
  BY DEF Records, Quiet
<1>2. QED  BY <1>1, GoingOnIsBooked DEF Quiet

LEMMA StartsAreBooked ==
  ASSUME Sound(game), Standing, Booked, SeatImpostor \/ StartGame
  PROVE  Booked'
<1>1. Quiet(game, game)
  BY DEF Quiet
<1>2. CASE SeatImpostor
  <2> DEFINE q == Request("start")
             h == AddPlayer(game, TRUE)
  <2>1. Pending = {}
    BY <1>2 DEF SeatImpostor, Free, Pending, Handled
  <2>2. \/ /\ CanAddPlayer(game, TRUE)
           /\ GoesOn(h, q, 0, "seated")
        \/ GoesOn(game, q, 0, "refused")
    BY <1>2 DEF SeatImpostor
  <2> HIDE DEF q
  <2>3. CanAddPlayer(game, TRUE) => Quiet(game, h)
    BY LobbyIsQuiet DEF CanAddPlayer
  <2> HIDE DEF h
  <2>4. CASE CanAddPlayer(game, TRUE) /\ GoesOn(h, q, 0, "seated")
    BY <2>1, <2>3, <2>4, QuietHandlersAreBooked
  <2>5. CASE GoesOn(game, q, 0, "refused")
    BY <1>1, <2>1, <2>5, QuietHandlersAreBooked
  <2>6. QED  BY <2>2, <2>4, <2>5
<1>3. CASE StartGame
  <2>1. Pending = {}
    BY <1>3 DEF StartGame, Pending, Handled
  <2>2. CASE CanStart(game) /\ Answers(Start(game), job.q, 0, "no_content")
    <3>1. Quiet(game, Start(game))
      BY <2>2, LobbyIsQuiet DEF CanStart
    <3>2. job.q.kind = "start"
      BY <1>3 DEF StartGame, Standing
    <3>3. QED  BY <2>1, <2>2, <3>1, <3>2, QuietAnswersAreBooked
  <2>3. CASE GoesOn(game, job.q, 0, "refused")
    BY <1>1, <2>1, <2>3, QuietHandlersAreBooked
  <2>4. QED  BY <1>3, <2>2, <2>3 DEF StartGame
<1>4. QED  BY <1>2, <1>3

LEMMA MessagesAreBooked ==
  ASSUME Sound(game), Booked, NEW a \in Aliases, NEW t \in Texts, PostMessage(a, t)
  PROVE  Booked'
<1> DEFINE g == CheckExpiration(game)
           q == Message_(a, t)
           k == game.round
           h == SubmitMessage(g, a)
<1>1. q.kind = "message" /\ q.alias = a
  BY DEF Message_, Request, NoRequest
<1>2. Sound(g) /\ Quiet(game, g) /\ Pending = {} /\ (g.state = "ROUND" => g = game)
  BY CheckExpirationIsSound, LookingIsQuiet, CheckExpirationSteps
     DEF PostMessage, Free, Pending, Handled
<1>3. \/ CanSubmit(g, a, t, k) /\ GoesOn(h, q, k, "accepted")
      \/ GoesOn(g, q, k, "refused")
  BY DEF PostMessage
<1>4. AskedMessages(q, k) = {[round |-> k, alias |-> a]} /\ AskedVoters(q) = {}
  BY <1>1 DEF AskedMessages, AskedVoters
<1> HIDE DEF q
<1>5. CASE CanSubmit(g, a, t, k) /\ GoesOn(h, q, k, "accepted")
  <2>1. g.round = k
    BY <1>2, <1>5 DEF CanSubmit
  <2>2. /\ h.messages = g.messages \cup {[round |-> k, alias |-> a]}
        /\ Humans(h) = Humans(g) /\ PresentHumans(h) = PresentHumans(g)
    BY <1>2, <2>1, SubmittingRecords
  <2> HIDE DEF h, g, k
  <2>3. Said(h) \subseteq Said(g) \cup {[round |-> k, alias |-> a]}
    BY <2>2 DEF Said
  <2>4. Records(h, q, k) /\ PresentHumans(h) = PresentHumans(game)
    BY <1>2, <1>4, <2>2, <2>3 DEF Records, Quiet
  <2>5. AskedMessages(q, k) \subseteq h.messages
    BY <1>4, <2>2
  <2>6. QED  BY <1>1, <1>5, <2>4, <2>5, GoingOnIsBooked
<1> HIDE DEF g, k, h
<1>6. CASE GoesOn(g, q, k, "refused")
  BY <1>2, <1>6, QuietHandlersAreBooked
<1>7. QED  BY <1>3, <1>5, <1>6

(* Steps of a handler whose message is recorded.                           *)
LEMMA CountsAreBooked ==
  ASSUME Sound(game), Booked, AfterMessage
  PROVE  Booked'
<1> DEFINE g == CheckExpiration(game)
           q == job.q
           k == job.round
<1>1. Handled /\ q.kind = "message" /\ Pending \subseteq game.messages
  BY DEF AfterMessage, Handled, Booked
<1>2. AskedMessages(q, k) = Pending /\ AskedVoters(q) = {}
  BY <1>1 DEF Pending, AskedMessages, AskedVoters
<1>3. Quiet(game, g)
  BY LookingIsQuiet
<1>4. \/ GoesOn(g, q, k, "turn") \/ Answers(g, q, k, "no_content")
  BY DEF AfterMessage
<1> HIDE DEF g, q, k
<1>5. Records(g, q, k) /\ AskedMessages(q, k) \subseteq g.messages
      /\ PresentHumans(g) = PresentHumans(game)
  BY <1>1, <1>2, <1>3 DEF Records, Quiet
<1>6. CASE GoesOn(g, q, k, "turn")
  BY <1>1, <1>5, <1>6, GoingOnIsBooked
<1>7. CASE Answers(g, q, k, "no_content")
  BY <1>2, <1>5, <1>7, AnsweringIsBooked
<1>8. QED  BY <1>4, <1>6, <1>7

LEMMA TurnsAreBooked ==
  ASSUME Sound(game), Booked, ImpostorTurn
  PROVE  Booked'
<1> DEFINE q == job.q
           k == job.round
<1>1. Handled /\ q.kind = "message" /\ Pending \subseteq game.messages
  BY DEF ImpostorTurn, Handled, Booked
<1>2. AskedMessages(q, k) = Pending /\ AskedVoters(q) = {}
  BY <1>1 DEF Pending, AskedMessages, AskedVoters
<1>3. \/ \E a \in Impostors(game) : Answers(SubmitMessage(game, a), q, k, "no_content")
      \/ \E r : Answers(Interrupt(game, r), q, k, "no_content")
      \/ \E code \in {"no_content", "internal"} :
           Answers(CheckExpiration(game), q, k, code)
  BY DEF ImpostorTurn
<1> HIDE DEF q, k
<1>4. ASSUME NEW h, NEW code \in {"no_content", "internal"}, Answers(h, q, k, code),
             game.messages \subseteq h.messages, Said(h) = Said(game),
             PresentHumans(h) = PresentHumans(game)
      PROVE  Booked'
  <2>1. Records(h, q, k) /\ AskedMessages(q, k) \subseteq h.messages
    BY <1>1, <1>2, <1>4 DEF Records
  <2>2. QED  BY <1>2, <1>4, <2>1, AnsweringIsBooked
<1>5. ASSUME NEW a \in Impostors(game),
             Answers(SubmitMessage(game, a), q, k, "no_content")
      PROVE  Booked'
  <2> DEFINE h == SubmitMessage(game, a)
  <2>1. /\ h.messages = game.messages \cup {[round |-> game.round, alias |-> a]}
        /\ Humans(h) = Humans(game) /\ PresentHumans(h) = PresentHumans(game)
    BY SubmittingRecords
  <2> HIDE DEF h
  <2>2. a \notin Humans(game)
    BY <1>5 DEF Impostors, Humans
  <2>3. Said(h) = Said(game)
    BY <2>1, <2>2 DEF Said
  <2>4. QED  BY <1>4, <1>5, <2>1, <2>3 DEF h
<1>6. ASSUME NEW h, NEW code \in {"no_content", "internal"}, Answers(h, q, k, code),
             Quiet(game, h)
      PROVE  Booked'
  BY <1>4, <1>6 DEF Quiet
<1>7. ASSUME NEW r, Answers(Interrupt(game, r), q, k, "no_content")
      PROVE  Booked'
  BY <1>6, <1>7, MarkingIsQuiet
<1>8. ASSUME NEW code \in {"no_content", "internal"},
             Answers(CheckExpiration(game), q, k, code)
      PROVE  Booked'
  BY <1>6, <1>8, LookingIsQuiet
<1>9. QED  BY <1>3, <1>5, <1>7, <1>8

LEMMA VotesAreBooked ==
  ASSUME Sound(game), Booked, NEW v \in Aliases, NEW s \in Aliases \cup {None},
         PostVote(v, s)
  PROVE  Booked'
<1> DEFINE g == CheckExpiration(game)
           q == Vote_(v, s)
           h == CastVote(g, v, s)
<1>1. q.kind = "vote" /\ q.alias = v
  BY DEF Vote_, Request, NoRequest
<1>2. Sound(g) /\ Quiet(game, g) /\ Pending = {}
  BY CheckExpirationIsSound, LookingIsQuiet DEF PostVote, Free, Pending, Handled
<1>3. \/ CanVote(g, v, s) /\ Answers(h, q, 0, "no_content")
      \/ GoesOn(g, q, 0, "refused")
  BY DEF PostVote
<1>4. AskedMessages(q, 0) = {} /\ AskedVoters(q) = {v}
  BY <1>1 DEF AskedMessages, AskedVoters
<1> HIDE DEF q
<1>5. CASE CanVote(g, v, s) /\ Answers(h, q, 0, "no_content")
  <2>1. /\ h.messages = g.messages /\ Said(h) = Said(g)
        /\ PresentHumans(h) = PresentHumans(g) \cup {v}
    BY <1>2, <1>5, CastingRecords
  <2> HIDE DEF h, g
  <2>2. Records(h, q, 0) /\ AskedVoters(q) \subseteq PresentHumans(h)
    BY <1>2, <1>4, <2>1 DEF Records, Quiet
  <2>3. QED  BY <1>4, <1>5, <2>2, AnsweringIsBooked
<1> HIDE DEF g, h
<1>6. CASE GoesOn(g, q, 0, "refused")
  BY <1>2, <1>6, QuietHandlersAreBooked
<1>7. QED  BY <1>3, <1>5, <1>6

LEMMA OpeningsAreBooked ==
  ASSUME Sound(game), Booked, OpenVoting
  PROVE  Booked'
<1> DEFINE g == CheckExpiration(game)
           q == Request("open")
<1>1. q.kind = "open"
  BY DEF Request, NoRequest
<1>2. Sound(g) /\ Quiet(game, g) /\ Pending = {}
  BY CheckExpirationIsSound, LookingIsQuiet DEF OpenVoting, Free, Pending, Handled
<1>3. Quiet(game, OpenBallot(g))
  BY <1>2, MarkingIsQuiet DEF Quiet
<1>4. \/ Answers(OpenBallot(g), q, 0, "no_content")
      \/ Answers(g, q, 0, "wrong_state")
  BY DEF OpenVoting
<1> HIDE DEF g, q
<1>5. QED  BY <1>1, <1>2, <1>3, <1>4, QuietAnswersAreBooked

LEMMA ClassificationsAreBooked ==
  ASSUME Sound(game), Standing, Booked, Classify
  PROVE  Booked'
<1> DEFINE g == CheckExpiration(game)
           q == job.q
           code == CASE q.kind = "start" -> ClassifyStart(g)
                     [] q.kind = "message" -> ClassifySubmit(g, q)
                     [] q.kind = "vote" -> ClassifyVote(g, q)
<1>1. Quiet(game, g) /\ Pending = {} /\ Answers(g, q, job.round, code)
  BY LookingIsQuiet DEF Classify, Pending, Handled
<1>2. ClassifyStart(g) \notin {"no_content", "internal"}
  BY DEF ClassifyStart
<1>3. ClassifySubmit(g, q) \notin {"no_content", "internal"}
  BY DEF ClassifySubmit
<1>4. ClassifyVote(g, q) \notin {"no_content", "internal"}
  BY DEF ClassifyVote
<1>5. q.kind \in {"start", "message", "vote"}
  BY DEF Classify, Standing, Ground
<1>6. code \in {ClassifyStart(g), ClassifySubmit(g, q), ClassifyVote(g, q)}
  <2> HIDE DEF q, g
  <2>1. QED  BY <1>5
<1> HIDE DEF g, code, q
<1>7. code \notin {"no_content", "internal"}
  BY <1>2, <1>3, <1>4, <1>6
<1>8. QED  BY <1>1, <1>7, QuietAnswersAreBooked

(* A step without a request.                                               *)
LEMMA IdleStepsAreBooked ==
  ASSUME Sound(game), Booked, JoinRoom \/ Observe \/ PassTime \/ UNCHANGED vars
  PROVE  Booked'
<1>1. job' = job /\ acked' = acked /\ failed' = failed
  BY DEF JoinRoom, Observe, PassTime, vars, books
<1>2. failures' \in {failures, failures + 1}
  BY DEF JoinRoom, Observe, PassTime, vars, Tell, TellFails
<1>3. Quiet(game, game')
  <2>1. CASE JoinRoom
    BY <2>1, LobbyIsQuiet DEF JoinRoom, Join, CanAddPlayer
  <2>2. CASE Observe
    BY <2>2, LookingIsQuiet DEF Observe, Tell, TellFails
  <2>3. CASE PassTime
    <3>1. /\ game'.messages = game.messages /\ game'.players = game.players
          /\ game'.votes = game.votes /\ game'.abstentions = game.abstentions
      BY <2>3 DEF PassTime, Elapse, Sound, Typed, GameType
    <3>2. QED
      BY <3>1 DEF Quiet, Said, Humans, Players, PresentHumans, Scorable
  <2>4. CASE UNCHANGED vars
    BY <2>4 DEF vars, Quiet
  <2>5. QED  BY <2>1, <2>2, <2>3, <2>4
<1>4. Handled' = Handled /\ Pending' = Pending
  BY <1>1 DEF Handled, Pending
<1>5. failures' \in Nat /\ (failures' = 0 => failures = 0)
  BY <1>2 DEF Booked
<1>6. QED  BY <1>1, <1>3, <1>4, <1>5 DEF Booked, Quiet

LEMMA EveryStepIsBooked ==
  ASSUME Sound(game), Standing, Booked, [RepliesNext]_vars
  PROVE  Booked'
<1>1. CASE Handler
  <2>1. ASSUME NEW a \in Aliases, NEW t \in Texts, PostMessage(a, t)
        PROVE  Booked'
    BY <2>1, MessagesAreBooked
  <2>2. ASSUME NEW v \in Aliases, NEW s \in Aliases \cup {None}, PostVote(v, s)
        PROVE  Booked'
    BY <2>2, VotesAreBooked
  <2>3. QED
    BY <1>1, <2>1, <2>2, StartsAreBooked, CountsAreBooked, TurnsAreBooked,
       OpeningsAreBooked, ClassificationsAreBooked, IdleStepsAreBooked DEF Handler
<1>2. QED  BY <1>1, IdleStepsAreBooked DEF RepliesNext

(* Who is answered 204 has its message or vote in the records; what a      *)
(* human has there was answered 204 or internal, or its handler is at      *)
(* work; and without a failure of the sink nobody is told internal of what *)
(* was not accepted.                                                       *)
THEOREM RepliesAreTrue == RepliesSpec => []RepliesTellTheTruth
<1>1. RepliesInit => Booked
  <2> SUFFICES ASSUME RepliesInit  PROVE Booked
    OBVIOUS
  <2>1. /\ acked = NoBook /\ failed = NoBook /\ failures = 0 /\ ~Handled
        /\ game.messages = {} /\ game.abstentions = {} /\ DOMAIN game.votes = {}
    BY DEF RepliesInit, Init, NewGame, Handled
  <2>2. Said(game) = {} /\ PresentHumans(game) = {}
    BY <2>1 DEF Said, PresentHumans, Scorable
  <2>3. QED  BY <2>1, <2>2 DEF Booked, IsBook, NoBook
<1>2. (Sound(game) /\ Standing) /\ Booked /\ [RepliesNext]_vars => Booked'
  BY EveryStepIsBooked
<1>3. Booked => RepliesTellTheTruth
  BY DEF Booked, RepliesTellTheTruth, Pending, Said, HumanMessages
<1>4. QED  BY <1>1, <1>2, <1>3, RoomStands, PTL DEF RepliesSpec

=============================================================================
