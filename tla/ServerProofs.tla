---------------------------- MODULE ServerProofs ----------------------------
(***************************************************************************)
(* The rooms of the server play the game of module Game, for every number  *)
(* of rooms, rounds, players, prompts and failures of the sink: the        *)
(* refinement RoomsPlayTheGame, and with it, in every room, the invariants *)
(* that GameProofs proves of one game; and the type invariant.             *)
(*                                                                         *)
(* GameStep says what Game's Next says, of two games instead of a game and *)
(* its successor, in the operators that Server applies.  Each action of    *)
(* Server is shown to lead a room by a GameStep or not at all; and a       *)
(* GameStep of a room is a step of its instance of Game.                   *)
(***************************************************************************)
EXTENDS Server, GameProofs

USE RoundsAssumption, TimedAssumption, MaxPlayersAssumption, ServerAssumption

(* apply_ai_turn may give its turn up in g, or finish it.                  *)
HasTurn(g) == \E a \in Impostors(g) : CanTakeTurn(g, a, g.round)

GameStep(g, h) ==
  LET c == CheckExpiration(g)
  IN \/ \E ai \in BOOLEAN : /\ CanAddPlayer(g, ai) /\ Len(g.players) < MaxPlayers
                            /\ h = AddPlayer(g, ai)
     \/ CanStart(g) /\ h = Start(g)
     \/ \E a \in Aliases, t \in Texts, x \in 0..Rounds :
          CanSubmit(c, a, t, x) /\ h = SubmitMessage(c, a)
     \/ CanOpenVoting(c) /\ h = OpenBallot(c)
     \/ \E v \in Aliases, s \in Aliases \cup {None} :
          CanVote(c, v, s) /\ h = CastVote(c, v, s)
     \/ \E reason \in TurnFailures :
          /\ HasTurn(g) /\ (reason = "round_timeout" => Expired(g))
          /\ h = Interrupt(g, reason)
     \/ h = c
     \/ /\ g.state \in TimedStates /\ g.window = "open"
        /\ h = [g EXCEPT !.window = "due"]

(* A step of a game, or none, keeps the inductive invariant of GameProofs. *)
LEMMA GameStepIsSound ==
  ASSUME NEW g, Sound(g), NEW h, GameStep(g, h)
  PROVE  Sound(h)
<1> DEFINE c == CheckExpiration(g)
<1>1. Sound(c)
  BY CheckExpirationIsSound
<1>2. ASSUME NEW ai \in BOOLEAN, CanAddPlayer(g, ai), Len(g.players) < MaxPlayers,
             h = AddPlayer(g, ai)
      PROVE  Sound(h)
  BY <1>2, AddPlayerIsSound
<1>3. ASSUME CanStart(g), h = Start(g)  PROVE Sound(h)
  BY <1>3, StartIsSound
<1>4. ASSUME NEW a, NEW t, NEW x, CanSubmit(c, a, t, x), h = SubmitMessage(c, a)
      PROVE  Sound(h)
  BY <1>1, <1>4, SubmitMessageIsSound
<1>5. ASSUME CanOpenVoting(c), h = OpenBallot(c)  PROVE Sound(h)
  BY <1>1, <1>5, OpenBallotIsSound DEF CanOpenVoting
<1>6. ASSUME NEW v, NEW s, CanVote(c, v, s), h = CastVote(c, v, s)  PROVE Sound(h)
  BY <1>1, <1>6, CastVoteIsSound
<1>7. ASSUME NEW reason \in TurnFailures, HasTurn(g), h = Interrupt(g, reason)
      PROVE  Sound(h)
  BY <1>7, FailTurnIsSound DEF HasTurn, CanTakeTurn
<1>8. ASSUME h = [g EXCEPT !.window = "due"]  PROVE Sound(h)
  BY <1>8, ElapseIsSound
<1> HIDE DEF c
<1>9. QED  BY <1>1, <1>2, <1>3, <1>4, <1>5, <1>6, <1>7, <1>8 DEF GameStep, c

----------------------------------------------------------------------------
(* The operators of GameRules mean the same in the instance of a room.     *)
LEMMA SameConstants ==
  ASSUME NEW r
  PROVE  /\ G(r)!NewGame = NewGame /\ G(r)!Aliases = Aliases /\ G(r)!None = None
         /\ G(r)!Texts = Texts /\ G(r)!TurnFailures = TurnFailures
         /\ G(r)!TimedStates = TimedStates /\ G(r)!GameType = GameType
  BY DEF G!NewGame, NewGame, G!Aliases, Aliases, G!None, None, G!Texts, Texts,
         G!TurnFailures, TurnFailures, G!TimedStates, TimedStates,
         G!GameType, GameType, G!States, States, G!Message, Message,
         G!BallotBoxes, BallotBoxes, G!Interruptions, Interruptions,
         G!Closings, Closings, G!Event, Event

(* So do the sets of players, and whether the window has run out;          *)
LEMMA SameSets ==
  ASSUME NEW r, NEW g
  PROVE  /\ G(r)!Players(g) = Players(g) /\ G(r)!Impostors(g) = Impostors(g)
         /\ G(r)!Humans(g) = Humans(g) /\ G(r)!Current(g) = Current(g)
         /\ G(r)!SubmittedHumans(g) = SubmittedHumans(g)
         /\ G(r)!Scorable(g) = Scorable(g)
         /\ G(r)!PresentHumans(g) = PresentHumans(g)
         /\ G(r)!Expired(g) <=> Expired(g)
  BY DEF G!Players, Players, G!Impostors, Impostors, G!Humans, Humans, G!Current, Current,
         G!SubmittedHumans, SubmittedHumans, G!Scorable, Scorable, G!None, None,
         G!PresentHumans, PresentHumans, G!Expired, Expired, G!TimedStates, TimedStates

(* how many they are;                                                      *)
LEMMA SameCount == ASSUME NEW r, NEW S PROVE G(r)!Cardinality(S) = Cardinality(S)
  BY DEF G!Cardinality, Cardinality

(* the two ways a game closes;                                             *)
LEMMA SameClose ==
  ASSUME NEW r, NEW g, NEW reason
  PROVE  /\ G(r)!Interrupt(g, reason) = Interrupt(g, reason)
         /\ G(r)!CompleteReveal(g, reason) = CompleteReveal(g, reason)
<1>1. \A x : G(r)!DetectionRate(x) = DetectionRate(x)
  BY SameSets, SameCount DEF G!DetectionRate, DetectionRate
<1>2. \A x : G(r)!ClosePayload(x) = ClosePayload(x)
  BY <1>1 DEF G!ClosePayload, ClosePayload, G!ValidGame, ValidGame
<1>3. \A x : G(r)!EmitClose(x) = EmitClose(x)
  BY <1>2 DEF G!EmitClose, EmitClose, G!Emit, Emit
<1>4. QED  BY <1>3 DEF G!Interrupt, Interrupt, G!CompleteReveal, CompleteReveal

(* check_expiration();                                                     *)
LEMMA SameExpiration ==
  ASSUME NEW r, NEW g
  PROVE  G(r)!CheckExpiration(g) = CheckExpiration(g)
<1>1. G(r)!OpenBallot(g) = OpenBallot(g)
  BY DEF G!OpenBallot, OpenBallot, G!SetDeadline, SetDeadline
<1>2. G(r)!ExpireRound(g) = ExpireRound(g)
  BY SameClose, SameSets, SameCount
     DEF G!ExpireRound, ExpireRound, G!QuorumMinHumans, QuorumMinHumans
<1>3. G(r)!ForceVotes(g) = ForceVotes(g)
  BY SameSets DEF G!ForceVotes, ForceVotes, G!None, None
<1>4. G(r)!CloseVoting(g) = CloseVoting(g)
  BY <1>3, SameClose, SameSets, SameCount
     DEF G!CloseVoting, CloseVoting, G!QuorumMinHumans, QuorumMinHumans
<1>5. QED  BY <1>1, <1>2, <1>4, SameSets DEF G!CheckExpiration, CheckExpiration

(* what each method checks;                                                *)
LEMMA SameGuards ==
  ASSUME NEW r, NEW g
  PROVE  /\ G(r)!CanStart(g) <=> CanStart(g)
         /\ \A a, t, x : G(r)!CanSubmit(g, a, t, x) <=> CanSubmit(g, a, t, x)
         /\ G(r)!CanOpenVoting(g) <=> CanOpenVoting(g)
         /\ \A v, s : G(r)!CanVote(g, v, s) <=> CanVote(g, v, s)
         /\ \A a, x : G(r)!CanTakeTurn(g, a, x) <=> CanTakeTurn(g, a, x)
  BY SameSets, SameCount, SameConstants
     DEF G!CanStart, CanStart, G!CanSubmit, CanSubmit,
         G!CanOpenVoting, CanOpenVoting, G!CanVote, CanVote, G!CanTakeTurn, CanTakeTurn

(* and what it does.                                                       *)
LEMMA SameMethods ==
  ASSUME NEW r, NEW g
  PROVE  /\ G(r)!Start(g) = Start(g)
         /\ \A a : G(r)!SubmitMessage(g, a) = SubmitMessage(g, a)
         /\ G(r)!OpenBallot(g) = OpenBallot(g)
         /\ \A v, s : G(r)!CastVote(g, v, s) = CastVote(g, v, s)
<1>1. \A x : G(r)!SetDeadline(x) = SetDeadline(x)
  BY DEF G!SetDeadline, SetDeadline
<1>2. \A x, e : G(r)!Emit(x, e) = Emit(x, e)
  BY DEF G!Emit, Emit
<1>3. /\ G(r)!GameStarted = GameStarted
      /\ \A k : G(r)!RoundStarted(k) = RoundStarted(k)
      /\ \A k : G(r)!RoundCompleted(k) = RoundCompleted(k)
  BY DEF G!GameStarted, GameStarted, G!RoundStarted, RoundStarted,
         G!RoundCompleted, RoundCompleted
<1>4. G(r)!Start(g) = Start(g)
  BY <1>1, <1>2, <1>3 DEF G!Start, Start
<1>5. \A x : G(r)!NextRound(x) = NextRound(x) /\ G(r)!EndRounds(x) = EndRounds(x)
  BY <1>1, <1>2, <1>3 DEF G!NextRound, NextRound, G!EndRounds, EndRounds
<1>6. \A a : G(r)!SubmitMessage(g, a) = SubmitMessage(g, a)
  BY <1>5, SameSets, SameCount DEF G!SubmitMessage, SubmitMessage
<1>7. G(r)!OpenBallot(g) = OpenBallot(g)
  BY <1>1 DEF G!OpenBallot, OpenBallot
<1>8. \A v, s : G(r)!CastVote(g, v, s) = CastVote(g, v, s)
  BY SameClose, SameSets, SameCount, SameConstants DEF G!CastVote, CastVote
<1>9. QED  BY <1>4, <1>6, <1>7, <1>8

(* A GameStep of a room is a step of its instance of Game.                 *)
LEMMA GameStepIsNext ==
  ASSUME NEW r, GameStep(games[r], games'[r]), games[r].round \in 0..Rounds
  PROVE  G(r)!Next
<1> DEFINE g == games[r]
           h == games'[r]
           c == CheckExpiration(g)
<1>1. ASSUME NEW ai \in BOOLEAN, CanAddPlayer(g, ai), Len(g.players) < MaxPlayers,
             h = AddPlayer(g, ai)
      PROVE  G(r)!Join(ai)
  <2>1. G(r)!CanAddPlayer(g, ai)
    BY <1>1, SameSets DEF G!CanAddPlayer, CanAddPlayer
  <2>2. G(r)!AddPlayer(g, ai) = AddPlayer(g, ai)
    BY DEF G!AddPlayer, AddPlayer
  <2>3. QED  BY <1>1, <2>1, <2>2 DEF G!Join
<1>2. ASSUME CanStart(g), h = Start(g)  PROVE G(r)!Begin
  BY <1>2, SameGuards, SameMethods DEF G!Begin
<1>3. ASSUME NEW a, NEW t, NEW x, CanSubmit(c, a, t, x), h = SubmitMessage(c, a)
      PROVE  G(r)!Say(a, t, x)
  BY <1>3, SameExpiration, SameGuards, SameMethods DEF G!Say
<1>4. ASSUME CanOpenVoting(c), h = OpenBallot(c)  PROVE G(r)!CallVote
  BY <1>4, SameExpiration, SameGuards, SameMethods DEF G!CallVote
<1>5. ASSUME NEW v, NEW s, CanVote(c, v, s), h = CastVote(c, v, s)
      PROVE  G(r)!Vote(v, s)
  BY <1>5, SameExpiration, SameGuards, SameMethods DEF G!Vote
<1>6. ASSUME NEW reason, HasTurn(g), reason = "round_timeout" => Expired(g),
             h = Interrupt(g, reason)
      PROVE  G(r)!FailTurn(reason)
  BY <1>6, SameClose, SameGuards, SameSets, ZenonT(60) DEF G!FailTurn, HasTurn, Impostors
<1>7. ASSUME h = c  PROVE G(r)!Poll
  BY <1>7, SameExpiration DEF G!Poll
<1>8. ASSUME g.state \in TimedStates, g.window = "open", h = [g EXCEPT !.window = "due"]
      PROVE  G(r)!Elapse
  BY <1>8, SameConstants DEF G!Elapse
<1> HIDE DEF c, g, h
<1>9. QED
  BY <1>1, <1>2, <1>3, <1>4, <1>5, <1>6, <1>7, <1>8, SameConstants
     DEF GameStep, G!Next, c, g, h

----------------------------------------------------------------------------
(* The inductive invariant: sound games, unfounded rooms untouched, and    *)
(* what the holder of a lock relies on while others move.                  *)
RoomsSound ==
  /\ known \in 0..NumRooms
  /\ games \in [Room -> GameType]
  /\ holder \in [Room -> Holders]
  /\ \A r \in Room :
       /\ Sound(games[r])
       /\ r > known => games[r] = NewGame /\ holder[r] = "free"
       /\ holder[r] \notin {"free", "seated"} => games[r].state # "LOBBY"
       /\ holder[r] \in {"validated", "thinking"} => HasTurn(games[r])

BooksTyped ==
  /\ calls \in [Room -> [1..Rounds -> Nat]]
  /\ usage \in [Room -> SUBSET (1..Rounds)]
  /\ tracked \subseteq Room
  /\ timer \in [alive : BOOLEAN, at : 0..known, last : 0..known]
  /\ timer.at <= timer.last
  /\ failures \in 0..MaxFailures

Plays == \A r \in Room : G(r)!Next \/ UNCHANGED games[r]

(* A step of one room that is a GameStep, or none, of its game.            *)
LEMMA RoomAdvances ==
  ASSUME RoomsSound, known' \in known..NumRooms, NEW r \in 1..known',
         NEW h, NEW next \in Holders, Become(r, h, next),
         GameStep(games[r], h) \/ h = games[r],
         next \notin {"free", "seated"} => h.state # "LOBBY",
         next \in {"validated", "thinking"} => HasTurn(h)
  PROVE  RoomsSound' /\ Plays
<1>1. r \in Room /\ known' \in 0..NumRooms /\ 1..known' \subseteq Room
  BY DEF RoomsSound, Room
<1>2. Sound(h)
  BY <1>1, GameStepIsSound DEF RoomsSound
<1>3. h \in GameType
  BY <1>2 DEF Sound, Typed
<1>4. /\ games' \in [Room -> GameType] /\ holder' \in [Room -> Holders]
      /\ games'[r] = h /\ holder'[r] = next
      /\ \A q \in Room \ {r} : games'[q] = games[q] /\ holder'[q] = holder[q]
  BY <1>1, <1>3 DEF Become, RoomsSound
<1>5. \A q \in Room : q > known' => q # r /\ q > known
  BY <1>1 DEF RoomsSound, Room
<1>6. RoomsSound'
  BY <1>1, <1>2, <1>4, <1>5 DEF RoomsSound
<1>7. games[r].round \in 0..Rounds
  BY <1>1 DEF RoomsSound, GameType
<1>8. G(r)!Next \/ UNCHANGED games[r]
  BY <1>4, <1>7, GameStepIsNext
<1>9. QED  BY <1>4, <1>6, <1>8 DEF Plays

(* Whether or not the sink raises, and what the holder goes on with.       *)
LEMMA DoingBecomes ==
  ASSUME NEW r, NEW h, NEW next
  PROVE  /\ Does(r, h, next) => Become(r, h, next) \/ Become(r, h, "free")
         /\ DoesAndLogs(r, h) => Become(r, h, "free")
  BY DEF Does, DoesAndLogs, SinkRaises

(* The room of the lock a holder goes on with has been founded.            *)
LEMMA HeldIsKnown ==
  ASSUME RoomsSound, NEW r \in Room, holder[r] # "free"
  PROVE  r \in 1..known
  BY DEF RoomsSound, Room

(* Joins and the start.                                                    *)
LEMMA FoundingIsSound ==
  ASSUME RoomsSound, CreateRoom
  PROVE  RoomsSound' /\ Plays
<1> DEFINE r == known'
           h == AddPlayer(NewGame, FALSE)
<1>1. /\ known' = known + 1 /\ r \in Room /\ r > known
      /\ known' \in known..NumRooms /\ r \in 1..known'
  BY DEF CreateRoom, RoomsSound, Room
<1>2. games[r] = NewGame /\ holder[r] = "free"
  BY <1>1 DEF RoomsSound
<1>3. Become(r, h, "free")
  BY <1>1, <1>2 DEF CreateRoom, Become, RoomsSound
<1>4. /\ CanAddPlayer(NewGame, FALSE) /\ NewGame.players = << >>
      /\ Len(NewGame.players) < MaxPlayers
  BY DEF CanAddPlayer, NewGame
<1>5. GameStep(games[r], h)
  BY <1>2, <1>4 DEF GameStep
<1> HIDE DEF r, h
<1>6. QED  BY <1>1, <1>3, <1>5, RoomAdvances DEF Holders

LEMMA JoiningIsSound ==
  ASSUME RoomsSound, NEW r \in Room, JoinRoom(r)
  PROVE  RoomsSound' /\ Plays
<1> DEFINE h == AddPlayer(games[r], FALSE)
<1>1. GameStep(games[r], h)
  BY DEF JoinRoom, GameStep
<1>2. games[r].state = "LOBBY" /\ holder[r] \in {"free", "seated"}
  BY DEF JoinRoom, CanAddPlayer, RoomsSound
<1>3. Become(r, h, holder[r])
  BY DEF JoinRoom, Become, RoomsSound
<1>4. known' \in known..NumRooms /\ r \in 1..known'
  BY DEF JoinRoom, RoomsSound
<1> HIDE DEF h
<1>5. QED  BY <1>1, <1>2, <1>3, <1>4, RoomAdvances DEF Holders

LEMMA SeatingIsSound ==
  ASSUME RoomsSound, NEW r \in Room, SeatImpostor(r)
  PROVE  RoomsSound' /\ Plays
<1> DEFINE h == AddPlayer(games[r], TRUE)
<1>1. GameStep(games[r], h) /\ Become(r, h, "seated")
  BY DEF SeatImpostor, GameStep
<1>2. known' \in known..NumRooms /\ r \in 1..known'
  BY DEF SeatImpostor, Free, RoomsSound
<1> HIDE DEF h
<1>3. QED  BY <1>1, <1>2, RoomAdvances DEF Holders

LEMMA StartingIsSound ==
  ASSUME RoomsSound, NEW r \in Room, StartGame(r)
  PROVE  RoomsSound' /\ Plays
<1>1. known' \in known..NumRooms /\ r \in 1..known'
  BY HeldIsKnown DEF StartGame, RoomsSound
<1>2. CASE CanStart(games[r])
  <2>1. Become(r, Start(games[r]), "free")
    BY <1>2, DoingBecomes DEF StartGame
  <2>2. GameStep(games[r], Start(games[r]))
    BY <1>2 DEF GameStep
  <2>3. QED  BY <1>1, <2>1, <2>2, RoomAdvances DEF Holders
<1>3. CASE ~CanStart(games[r])
  <2>1. Become(r, games[r], "free")
    BY <1>3, DoingBecomes DEF StartGame
  <2>2. QED  BY <1>1, <2>1, RoomAdvances DEF Holders
<1>4. QED  BY <1>2, <1>3

(* A poll: the handler of a state request, a refused call, a tick.         *)
LEMMA PollingIsSound ==
  ASSUME RoomsSound, known' = known, NEW r \in 1..known,
         Become(r, CheckExpiration(games[r]), "free")
  PROVE  RoomsSound' /\ Plays
<1>1. GameStep(games[r], CheckExpiration(games[r]))
  BY DEF GameStep
<1>2. known' \in known..NumRooms
  BY DEF RoomsSound
<1>3. QED  BY <1>1, <1>2, RoomAdvances DEF Holders

(* The requests of players.                                                *)
LEMMA PostingIsSound ==
  ASSUME RoomsSound, NEW r \in Room, NEW a \in Aliases, NEW t \in Texts,
         PostMessage(r, a, t)
  PROVE  RoomsSound' /\ Plays
<1> DEFINE g == CheckExpiration(games[r])
           h == SubmitMessage(g, a)
<1>1. known' = known /\ r \in 1..known /\ known' \in known..NumRooms
  BY DEF PostMessage, Free, RoomsSound
<1>2. CASE CanSubmit(g, a, t, games[r].round)
  <2>1. Become(r, h, "accepted") \/ Become(r, h, "free")
    BY <1>2, DoingBecomes DEF PostMessage
  <2>2. games[r].round \in 0..Rounds
    BY DEF RoomsSound, GameType
  <2>3. GameStep(games[r], h)
    BY <1>2, <2>2 DEF GameStep
  <2>4. Sound(g) /\ g.state = "ROUND"
    BY <1>2, CheckExpirationIsSound DEF RoomsSound, CanSubmit
  <2>5. h.state # "LOBBY"
    BY <1>2, <2>4, SubmitMessageSteps DEF Stepped, Remembers
  <2> HIDE DEF g, h
  <2>6. QED  BY <1>1, <2>1, <2>3, <2>5, RoomAdvances DEF Holders
<1>3. CASE ~CanSubmit(g, a, t, games[r].round)
  <2>1. Become(r, g, "free")
    BY <1>3, DoingBecomes DEF PostMessage
  <2>2. QED  BY <1>1, <2>1, PollingIsSound
<1>4. QED  BY <1>2, <1>3

LEMMA CountingIsSound ==
  ASSUME RoomsSound, NEW r \in Room, AfterMessage(r)
  PROVE  RoomsSound' /\ Plays
<1> DEFINE g == CheckExpiration(games[r])
<1>1. known' = known /\ r \in 1..known /\ known' \in known..NumRooms
  BY HeldIsKnown DEF AfterMessage, RoomsSound
<1>2. ASSUME HumansComplete(g), Become(r, g, "turn")
      PROVE  RoomsSound' /\ Plays
  <2>1. GameStep(games[r], g) /\ g.state # "LOBBY"
    BY <1>2 DEF GameStep, HumansComplete
  <2> HIDE DEF g
  <2>2. QED  BY <1>1, <1>2, <2>1, RoomAdvances DEF Holders
<1>3. (HumansComplete(g) /\ Become(r, g, "turn")) \/ Become(r, g, "free")
  BY DoingBecomes DEF AfterMessage
<1>4. QED  BY <1>1, <1>2, <1>3, PollingIsSound

LEMMA CallingVoteIsSound ==
  ASSUME RoomsSound, NEW r \in Room, OpenVoting(r)
  PROVE  RoomsSound' /\ Plays
<1> DEFINE g == CheckExpiration(games[r])
<1>1. known' = known /\ r \in 1..known /\ known' \in known..NumRooms
  BY DEF OpenVoting, Free, RoomsSound
<1>2. CASE CanOpenVoting(g)
  <2>1. Become(r, OpenBallot(g), "free")
    BY <1>2, DoingBecomes DEF OpenVoting
  <2>2. GameStep(games[r], OpenBallot(g))
    BY <1>2 DEF GameStep
  <2> HIDE DEF g
  <2>3. QED  BY <1>1, <2>1, <2>2, RoomAdvances DEF Holders
<1>3. CASE ~CanOpenVoting(g)
  <2>1. Become(r, g, "free")
    BY <1>3, DoingBecomes DEF OpenVoting
  <2>2. QED  BY <1>1, <2>1, PollingIsSound
<1>4. QED  BY <1>2, <1>3

LEMMA VotingIsSound ==
  ASSUME RoomsSound, NEW r \in Room, NEW v \in Aliases, NEW s \in Aliases \cup {None},
         PostVote(r, v, s)
  PROVE  RoomsSound' /\ Plays
<1> DEFINE g == CheckExpiration(games[r])
<1>1. known' = known /\ r \in 1..known /\ known' \in known..NumRooms
  BY DEF PostVote, Free, RoomsSound
<1>2. CASE CanVote(g, v, s)
  <2>1. Become(r, CastVote(g, v, s), "free")
    BY <1>2, DoingBecomes DEF PostVote
  <2>2. GameStep(games[r], CastVote(g, v, s))
    BY <1>2 DEF GameStep
  <2> HIDE DEF g
  <2>3. QED  BY <1>1, <2>1, <2>2, RoomAdvances DEF Holders
<1>3. CASE ~CanVote(g, v, s)
  <2>1. Become(r, g, "free")
    BY <1>3, DoingBecomes DEF PostVote
  <2>2. QED  BY <1>1, <2>1, PollingIsSound
<1>4. QED  BY <1>2, <1>3

LEMMA ReadingIsSound ==
  ASSUME RoomsSound, NEW r \in Room, GetState(r)
  PROVE  RoomsSound' /\ Plays
<1>1. known' = known /\ r \in 1..known
  BY DEF GetState, Free
<1>2. Become(r, CheckExpiration(games[r]), "free")
  BY DoingBecomes DEF GetState
<1>3. QED  BY <1>1, <1>2, PollingIsSound

----------------------------------------------------------------------------
(* The turn of the impostor.                                               *)
LEMMA ValidatingIsSound ==
  ASSUME RoomsSound, NEW r \in Room, ValidateTurn(r)
  PROVE  RoomsSound' /\ Plays
<1> DEFINE g == CheckExpiration(games[r])
<1>1. known' = known /\ r \in 1..known /\ known' \in known..NumRooms
  BY HeldIsKnown DEF ValidateTurn, RoomsSound
<1>2. ASSUME Become(r, games[r], "free")  PROVE RoomsSound' /\ Plays
  BY <1>1, <1>2, RoomAdvances DEF Holders
<1>3. ASSUME NEW a \in Impostors(g), CanTakeTurn(g, a, games[r].round),
             Become(r, g, "validated")
      PROVE  RoomsSound' /\ Plays
  <2>1. GameStep(games[r], g) /\ g.state # "LOBBY"
    BY <1>3 DEF GameStep, CanTakeTurn
  <2>2. HasTurn(g)
    BY <1>3 DEF HasTurn, CanTakeTurn
  <2> HIDE DEF g
  <2>3. QED  BY <1>1, <1>3, <2>1, <2>2, RoomAdvances DEF Holders
<1>4. \/ Become(r, games[r], "free") \/ Become(r, g, "free")
      \/ /\ Become(r, g, "validated")
         /\ \E a \in Impostors(g) : CanTakeTurn(g, a, games[r].round)
  BY DoingBecomes DEF ValidateTurn
<1>5. QED  BY <1>1, <1>2, <1>3, <1>4, PollingIsSound

(* A turn that is given up.                                                *)
LEMMA GivingUpIsSound ==
  ASSUME RoomsSound, NEW r \in Room, known' = known, NEW reason \in TurnFailures,
         holder[r] \in {"validated", "thinking"},
         reason = "round_timeout" => Expired(games[r]),
         Become(r, Interrupt(games[r], reason), "free")
  PROVE  RoomsSound' /\ Plays
<1>1. r \in 1..known /\ known' \in known..NumRooms
  BY HeldIsKnown DEF RoomsSound
<1>2. GameStep(games[r], Interrupt(games[r], reason))
  BY DEF GameStep, RoomsSound
<1>3. QED  BY <1>1, <1>2, RoomAdvances DEF Holders

LEMMA CallingIsSound ==
  ASSUME RoomsSound, NEW r \in Room, CallEngine(r)
  PROVE  RoomsSound' /\ Plays
<1>1. known' = known /\ r \in 1..known /\ known' \in known..NumRooms
  BY HeldIsKnown DEF CallEngine, RoomsSound
<1>2. CASE Expired(games[r])
  <2>1. Become(r, Interrupt(games[r], "round_timeout"), "free")
    BY <1>2, DoingBecomes DEF CallEngine
  <2>2. holder[r] = "validated" /\ "round_timeout" \in TurnFailures
    BY DEF CallEngine, TurnFailures
  <2>3. QED  BY <1>1, <1>2, <2>1, <2>2, GivingUpIsSound
<1>3. CASE ~Expired(games[r])
  <2>1. Become(r, games[r], "thinking") /\ holder[r] = "validated"
    BY <1>3 DEF CallEngine
  <2>2. games[r].state # "LOBBY" /\ HasTurn(games[r])
    BY <2>1 DEF RoomsSound
  <2>3. QED  BY <1>1, <2>1, <2>2, RoomAdvances DEF Holders
<1>4. QED  BY <1>2, <1>3

LEMMA FailingIsSound ==
  ASSUME RoomsSound, NEW r \in Room, NEW code \in EngineFailures, EngineFails(r, code)
  PROVE  RoomsSound' /\ Plays
<1>1. known' = known /\ holder[r] = "thinking"
  BY DEF EngineFails
<1>2. Become(r, Interrupt(games[r], code), "free")
  BY DoingBecomes DEF EngineFails
<1>3. code \in TurnFailures /\ code # "round_timeout"
  BY DEF EngineFailures, TurnFailures
<1>4. QED  BY <1>1, <1>2, <1>3, GivingUpIsSound

LEMMA AnsweringIsSound ==
  ASSUME RoomsSound, NEW r \in Room, NEW t \in Texts, EngineAnswers(r, t)
  PROVE  RoomsSound' /\ Plays
<1> DEFINE g == CheckExpiration(games[r])
           impostor == CHOOSE a \in Impostors(g) : TRUE
           h == SubmitMessage(g, impostor)
<1>1. /\ known' = known /\ r \in 1..known /\ known' \in known..NumRooms
      /\ holder[r] = "thinking"
  BY HeldIsKnown DEF EngineAnswers, RoomsSound
<1>2. Sound(games[r]) /\ Sound(g)
  BY CheckExpirationIsSound DEF RoomsSound
<1>3. CASE CanSubmit(g, impostor, t, games[r].round)
  <2>1. Become(r, h, "free")
    BY <1>3 DEF EngineAnswers, SinkRaises
  <2>2. games[r].round \in 0..Rounds /\ impostor \in Aliases
    BY <1>2, <1>3, PlayersAreNumbered DEF Sound, Typed, GameType, CanSubmit
  <2>3. GameStep(games[r], h)
    BY <1>3, <2>2 DEF GameStep
  <2> HIDE DEF g, h, impostor
  <2>4. QED  BY <1>1, <2>1, <2>3, RoomAdvances DEF Holders
<1>4. CASE ~CanSubmit(g, impostor, t, games[r].round)
  <2>1. Become(r, RejectAnswer(g), "free")
    BY <1>4, DoingBecomes DEF EngineAnswers
  <2>2. CASE g.state = "ROUND"
    <3>1. g = games[r]
      BY <1>2, <2>2, CheckExpirationSteps
    <3>2. /\ Become(r, Interrupt(games[r], "invalid_engine_response"), "free")
          /\ "invalid_engine_response" \in TurnFailures
      BY <2>1, <2>2, <3>1 DEF RejectAnswer, TurnFailures
    <3>3. QED  BY <1>1, <3>2, GivingUpIsSound
  <2>3. CASE g.state # "ROUND"
    BY <1>1, <2>1, <2>3, PollingIsSound DEF RejectAnswer
  <2>4. QED  BY <2>2, <2>3
<1>5. QED  BY <1>3, <1>4

----------------------------------------------------------------------------
(* The timer and the clock.                                                *)
LEMMA VisitingIsSound ==
  ASSUME RoomsSound, VisitRoom
  PROVE  RoomsSound' /\ Plays
<1> DEFINE r == timer.at
<1>1. known' = known /\ r \in 1..known /\ Become(r, CheckExpiration(games[r]), "free")
  BY DEF VisitRoom, Free, SinkRaises
<1> HIDE DEF r
<1>2. QED  BY <1>1, PollingIsSound

LEMMA PassingIsSound ==
  ASSUME RoomsSound, NEW r \in Room, PassTime(r)
  PROVE  RoomsSound' /\ Plays
<1> DEFINE h == [games[r] EXCEPT !.window = "due"]
<1>1. /\ games[r].state \in TimedStates /\ games[r].window = "open"
      /\ known' = known /\ known' \in known..NumRooms
      /\ games' = [games EXCEPT ![r] = h] /\ holder' = holder
  BY DEF PassTime, RoomsSound
<1>2. GameStep(games[r], h)
  BY <1>1 DEF GameStep
<1>3. r \in 1..known
  BY <1>1 DEF RoomsSound, Room, NewGame, TimedStates
<1>4. Become(r, h, holder[r])
  BY <1>1 DEF Become, RoomsSound
<1>5. /\ h.state = games[r].state /\ h.round = games[r].round
      /\ h.players = games[r].players /\ h.messages = games[r].messages
  BY DEF RoomsSound, GameType
<1>6. /\ h.state # "LOBBY"
      /\ HasTurn(games[r]) => HasTurn(h)
  BY <1>1, <1>5 DEF TimedStates, HasTurn, CanTakeTurn, Impostors, Players
<1>7. holder[r] \in {"validated", "thinking"} => HasTurn(h)
  BY <1>6 DEF RoomsSound
<1>8. holder[r] \in Holders
  BY DEF RoomsSound
<1> HIDE DEF h
<1>9. QED  BY <1>1, <1>2, <1>3, <1>4, <1>6, <1>7, <1>8, RoomAdvances

(* Every step of the server.                                               *)
LEMMA ServerStepIsSound ==
  ASSUME RoomsSound, [ServerNext]_vars
  PROVE  RoomsSound' /\ Plays
<1>1. ASSUME NEW r \in Room, NEW a \in Aliases, NEW t \in Texts, PostMessage(r, a, t)
      PROVE  RoomsSound' /\ Plays
  BY <1>1, PostingIsSound
<1>2. ASSUME NEW r \in Room, Request(r)  PROVE RoomsSound' /\ Plays
  BY <1>1, <1>2, JoiningIsSound, SeatingIsSound, CallingVoteIsSound, ReadingIsSound,
     VotingIsSound DEF Request
<1>3. ASSUME NEW r \in Room, Continue(r)  PROVE RoomsSound' /\ Plays
  BY <1>3, StartingIsSound, CountingIsSound, ValidatingIsSound, CallingIsSound,
     FailingIsSound, AnsweringIsSound DEF Continue
<1>4. CASE BeginTick
  BY <1>4 DEF BeginTick, room, RoomsSound, Plays, HasTurn
<1>5. CASE UNCHANGED vars
  BY <1>5 DEF vars, RoomsSound, Plays, HasTurn
<1>6. QED
  BY <1>2, <1>3, <1>4, <1>5, FoundingIsSound, PassingIsSound, VisitingIsSound
     DEF ServerNext

LEMMA ServerInitIsSound == ServerInit => RoomsSound
<1> SUFFICES ASSUME ServerInit  PROVE RoomsSound
  OBVIOUS
<1>1. Sound(NewGame) /\ NewGame \in GameType
  BY NewGameIsSound DEF Sound, Typed
<1>2. QED  BY <1>1 DEF ServerInit, RoomsSound, Holders

(* In every room of the server the game is sound: all that GameProofs      *)
(* proves of one game holds there, with locks, joins without locks, the    *)
(* engine, the timer and a failing sink, for all values of the constants.  *)
THEOREM RoomsAreSound == ServerSpec => []RoomsSound
<1>1. RoomsSound /\ [ServerNext]_vars => RoomsSound'
  BY ServerStepIsSound
<1>2. QED  BY <1>1, ServerInitIsSound, PTL DEF ServerSpec

(* The server implements the game: whatever its threads do, each room      *)
(* plays the game of module Game.                                          *)
THEOREM ServerPlaysTheGame == ServerSpec => RoomsPlayTheGame
<1>1. ServerInit => \A r \in Room : G(r)!Init
  BY SameConstants DEF ServerInit, G!Init
<1>2. RoomsSound /\ [ServerNext]_vars =>
        [\A r \in Room : G(r)!Next \/ UNCHANGED games[r]]_games
  BY ServerStepIsSound DEF Plays
<1>3. QED  BY <1>1, <1>2, RoomsAreSound, PTL DEF ServerSpec, RoomsPlayTheGame

----------------------------------------------------------------------------
(* What a turn in progress knows of its round.                             *)
LEMMA TurnsHaveRounds ==
  ASSUME RoomsSound, NEW r \in Room, holder[r] \in {"validated", "thinking"}
  PROVE  games[r].round \in 1..Rounds
<1>1. Sound(games[r]) /\ games[r].state # "LOBBY"
  BY DEF RoomsSound
<1>2. QED  BY <1>1 DEF Sound, Unbegun, Typed, GameType

(* Every step leaves the books of the server typed.                        *)
LEMMA BooksStayTyped ==
  ASSUME RoomsSound, BooksTyped, [ServerNext]_vars
  PROVE  BooksTyped'
<1> USE DEF BooksTyped
<1>1. /\ known \in Nat /\ NumRooms \in Nat /\ 1..known \subseteq Room
      /\ timer.at \in 0..known /\ timer.last \in 0..known
  BY DEF RoomsSound, Room
<1>2. ASSUME NEW r, NEW h, SinkRaises(r, h)  PROVE failures' \in 0..MaxFailures
  BY <1>2 DEF SinkRaises
<1>3. ASSUME NEW r, NEW h, NEW next, Does(r, h, next)  PROVE failures' \in 0..MaxFailures
  BY <1>2, <1>3 DEF Does
<1>4. ASSUME NEW r \in Room, NEW h, NEW metadata, LogFinishedGame(r, h, metadata)
      PROVE  tracked' \subseteq Room
  BY <1>4 DEF LogFinishedGame, books
<1>5. ASSUME NEW r \in Room, NEW h, DoesAndLogs(r, h)
      PROVE  failures' \in 0..MaxFailures /\ tracked' \subseteq Room
  BY <1>2, <1>4, <1>5 DEF DoesAndLogs, books
<1>6. CASE CreateRoom
  <2>1. /\ known' = known + 1 /\ UNCHANGED <<calls, usage, tracked, timer, failures>>
    BY <1>6 DEF CreateRoom, books
  <2>2. 0..known \subseteq 0..known'
    BY <1>1, <2>1
  <2>3. QED  BY <2>1, <2>2
<1>7. ASSUME NEW r \in Room, Request(r)  PROVE BooksTyped'
  <2>1. UNCHANGED <<known, calls, usage, timer>>
    BY <1>7 DEF Request, JoinRoom, SeatImpostor, PostMessage, OpenVoting, PostVote, GetState
  <2>2. failures' \in 0..MaxFailures /\ tracked' \subseteq Room
    <3>1. ASSUME NEW a, NEW t, PostMessage(r, a, t)
          PROVE  failures' \in 0..MaxFailures /\ tracked' \subseteq Room
      BY <1>3, <3>1 DEF PostMessage, books
    <3>2. ASSUME NEW v, NEW s, PostVote(r, v, s)
          PROVE  failures' \in 0..MaxFailures /\ tracked' \subseteq Room
      BY <1>3, <1>5, <3>2 DEF PostVote, books
    <3>3. CASE JoinRoom(r) \/ SeatImpostor(r) \/ OpenVoting(r) \/ GetState(r)
      BY <1>3, <1>5, <3>3 DEF JoinRoom, SeatImpostor, OpenVoting, GetState, books
    <3>4. QED  BY <1>7, <3>1, <3>2, <3>3 DEF Request
  <2>3. QED  BY <2>1, <2>2
<1>8. ASSUME NEW r \in Room, Continue(r)  PROVE BooksTyped'
  <2>1. CASE StartGame(r) \/ AfterMessage(r) \/ ValidateTurn(r)
    <3>1. UNCHANGED <<known, calls, usage, timer>>
      BY <2>1 DEF StartGame, AfterMessage, ValidateTurn
    <3>2. failures' \in 0..MaxFailures /\ tracked' \subseteq Room
      BY <1>3, <1>5, <2>1 DEF StartGame, AfterMessage, ValidateTurn, books
    <3>3. QED  BY <3>1, <3>2
  <2>2. CASE CallEngine(r)
    <3>1. UNCHANGED <<known, usage, timer>>
      BY <2>2 DEF CallEngine
    <3>2. failures' \in 0..MaxFailures /\ tracked' \subseteq Room
      BY <1>5, <2>2 DEF CallEngine, books
    <3>3. calls' \in [Room -> [1..Rounds -> Nat]]
      <4> DEFINE more == [calls[r] EXCEPT ![games[r].round] = @ + 1]
      <4>1. calls' = calls \/ calls' = [calls EXCEPT ![r] = more]
        BY <2>2 DEF CallEngine
      <4>2. games[r].round \in 1..Rounds
        BY <2>2, TurnsHaveRounds DEF CallEngine
      <4>3. calls[r] \in [1..Rounds -> Nat] /\ calls[r][games[r].round] + 1 \in Nat
        BY <4>2
      <4>4. more \in [1..Rounds -> Nat]
        BY <4>2, <4>3
      <4> HIDE DEF more
      <4>5. QED  BY <4>1, <4>4
    <3>4. QED  BY <3>1, <3>2, <3>3
  <2>3. ASSUME NEW code, EngineFails(r, code)  PROVE BooksTyped'
    <3>1. UNCHANGED <<known, calls, usage, timer>>
      BY <2>3 DEF EngineFails
    <3>2. failures' \in 0..MaxFailures /\ tracked' \subseteq Room
      BY <1>5, <2>3 DEF EngineFails
    <3>3. QED  BY <3>1, <3>2
  <2>4. ASSUME NEW t, EngineAnswers(r, t)  PROVE BooksTyped'
    <3> DEFINE published == usage[r] \cup {games[r].round}
    <3>1. UNCHANGED <<known, calls, timer>>
      BY <2>4 DEF EngineAnswers
    <3>2. /\ usage' = usage \/ usage' = [usage EXCEPT ![r] = published]
          /\ failures' \in 0..MaxFailures /\ tracked' \subseteq Room
      BY <1>2, <1>4, <1>5, <2>4 DEF EngineAnswers, books
    <3>3. published \in SUBSET (1..Rounds)
      BY <2>4, TurnsHaveRounds DEF EngineAnswers
    <3> HIDE DEF published
    <3>4. usage' \in [Room -> SUBSET (1..Rounds)]
      BY <3>2, <3>3
    <3>5. QED  BY <3>1, <3>2, <3>4
  <2>5. QED  BY <1>8, <2>1, <2>2, <2>3, <2>4 DEF Continue
<1>9. ASSUME NEW r \in Room, PassTime(r)  PROVE BooksTyped'
  BY <1>9 DEF PassTime, books
<1>10. CASE BeginTick
  <2>1. /\ timer' = [timer EXCEPT !.at = 1, !.last = known] /\ known > 0
        /\ UNCHANGED <<known, calls, usage, tracked, failures>>
    BY <1>10 DEF BeginTick, books
  <2>2. /\ timer' \in [alive : BOOLEAN, at : 0..known', last : 0..known']
        /\ timer'.at <= timer'.last
    <3>1. timer' = [alive |-> timer.alive, at |-> 1, last |-> known]
      BY <2>1
    <3>2. timer.alive \in BOOLEAN /\ 1 \in 0..known' /\ known \in 0..known'
      BY <1>1, <2>1
    <3>3. QED  BY <1>1, <2>1, <3>1, <3>2
  <2>3. QED  BY <2>1, <2>2
<1>11. CASE VisitRoom
  <2>1. UNCHANGED <<known, calls, usage>> /\ timer.at \in Room
    BY <1>1, <1>11 DEF VisitRoom, Free
  <2>2. failures' \in 0..MaxFailures /\ tracked' \subseteq Room
    BY <1>2, <1>4, <1>11, <2>1 DEF VisitRoom, books
  <2>3. \/ timer' = [timer EXCEPT !.at = NextStop(timer)]
        \/ timer' = [timer EXCEPT !.alive = FALSE]
    BY <1>11 DEF VisitRoom
  <2>4. NextStop(timer) \in 0..known /\ NextStop(timer) <= timer.last
    BY <1>1 DEF NextStop
  <2>5. QED  BY <1>1, <2>1, <2>2, <2>3, <2>4
<1>12. CASE UNCHANGED vars
  BY <1>12 DEF vars
<1>13. QED
  BY <1>6, <1>7, <1>8, <1>9, <1>10, <1>11, <1>12 DEF ServerNext

(* Every variable of the server keeps its type, and a turn of the impostor *)
(* is only ever under way in a game that has begun.                        *)
THEOREM ServerTypeCorrect == ServerSpec => []ServerTypeOK
<1>1. ServerInit => BooksTyped
  BY DEF ServerInit, BooksTyped
<1>2. RoomsSound /\ BooksTyped /\ [ServerNext]_vars => BooksTyped'
  BY BooksStayTyped
<1>3. RoomsSound /\ BooksTyped => ServerTypeOK
  BY SameConstants DEF RoomsSound, BooksTyped, ServerTypeOK, G!TypeOK, Sound, Typed
<1>4. QED  BY <1>1, <1>2, <1>3, RoomsAreSound, PTL DEF ServerSpec

-----------------------------------------------------------------------------
(* What the server promises of the impostor's turn and of the runs: the    *)
(* impostor answers last, the engine is called once a round at the most,   *)
(* no round is left waiting for the impostor, and a run tells its game.    *)
(*                                                                         *)
(* The invariant has three parts for each room.  Order: who has answered   *)
(* what, and the calls made for it.  Held: what the holder of the lock     *)
(* relies on, and what it leaves when it lets go.  Book: the metadata, the *)
(* mark and the run.  Each action moves one room; for each kind of move of *)
(* a game there is a lemma that keeps the parts.                           *)

Published(g) == UNION {AnsweredBy(g, a) : a \in Impostors(g)}

Order(g, c) ==
  /\ c \in [1..Rounds -> {0, 1}]
  /\ \A a \in Impostors(g), b \in Humans(g) : AnsweredBy(g, a) \subseteq AnsweredBy(g, b)
  /\ \A k \in 1..Rounds : c[k] = 1 => \A b \in Humans(g) : k \in AnsweredBy(g, b)
  /\ g.state = "LOBBY" => \A k \in 1..Rounds : c[k] = 0

Left(g) == ~(g.state = "ROUND" /\ HumansAnswered(g))

Held(g, h, c) ==
  /\ h = "seated" => g.state = "LOBBY"
  /\ h \in {"turn", "validated", "thinking"} => ~Left(g)
  /\ h \in {"accepted", "turn", "validated"} /\ g.state = "ROUND" => c[g.round] = 0
  /\ h = "free" /\ Prompts >= Rounds => Left(g)

Book(g, u, marked, log, f) ==
  /\ u \subseteq Published(g) /\ (f = 0 => u = Published(g))
  /\ marked => g.state = "REVEAL"
  /\ log = << >> \/ (marked /\ log = <<RunOf(g, u)>>)

RoomOrdered(r) ==
  /\ Order(games[r], calls[r])
  /\ Held(games[r], holder[r], calls[r])
  /\ Book(games[r], usage[r], r \in tracked, runs[r], failures)

ServerOrdered ==
  /\ \A r \in Room : RoomOrdered(r)
  /\ runs = [r \in Room |-> runs[r]]

----------------------------------------------------------------------------
(* Moves of a game.                                                        *)

(* Nothing is said, and no round begins.                                   *)
Keeps(g, h) ==
  /\ h.messages = g.messages /\ h.players = g.players /\ h.round = g.round
  /\ h.state = "ROUND" => g.state = "ROUND"
  /\ h.state = "LOBBY" => g.state = "LOBBY"
  /\ g.state = "REVEAL" => h = g

LEMMA KeepingIsTransitive ==
  ASSUME NEW f, NEW g, NEW h, Keeps(f, g), Keeps(g, h)
  PROVE  Keeps(f, h)
  BY DEF Keeps

LEMMA KeepingKeeps ==
  ASSUME NEW g, NEW h, Keeps(g, h)
  PROVE  /\ \A c : Order(g, c) => Order(h, c)
         /\ Left(g) => Left(h)
         /\ h.state = "ROUND" /\ ~Left(g) => ~Left(h)
         /\ Published(h) = Published(g)
<1>1. /\ Impostors(h) = Impostors(g) /\ Humans(h) = Humans(g)
      /\ SubmittedHumans(h) = SubmittedHumans(g)
      /\ \A a : AnsweredBy(h, a) = AnsweredBy(g, a)
  BY DEF Keeps, Impostors, Humans, Players, SubmittedHumans, Current, AnsweredBy
<1>2. \A c : Order(g, c) => Order(h, c)
  BY <1>1 DEF Order, Keeps
<1>3. Published(h) = Published(g)
  BY <1>1 DEF Published
<1>4. QED  BY <1>1, <1>2, <1>3 DEF Left, HumansAnswered, Keeps

LEMMA LookingKeeps ==
  ASSUME NEW g, Sound(g)
  PROVE  Keeps(g, CheckExpiration(g))
<1> DEFINE h == CheckExpiration(g)
<1>1. /\ ~Expired(g) => h = g
      /\ Expired(g) => h.messages = g.messages /\ h.state # "ROUND"
      /\ g.state # "LOBBY" => h.players = g.players /\ h.state # "LOBBY"
  BY CheckExpirationSteps DEF Stepped, Remembers
<1>2. CASE ~Expired(g)
  BY <1>1, <1>2 DEF Keeps
<1>3. CASE Expired(g)
  <2>1. g.state \in TimedStates /\ h.round = g.round
    BY <1>3 DEF Expired, TimedStates, CheckExpiration, ExpireRound, Interrupt, OpenBallot,
       CloseVoting, ForceVotes, CompleteReveal, EmitClose, Emit, SetDeadline, Sound,
       Typed, GameType
  <2>2. QED  BY <1>1, <1>3, <2>1 DEF Keeps, TimedStates
<1>4. QED  BY <1>2, <1>3

LEMMA MarkingKeeps ==
  ASSUME NEW g, Sound(g)
  PROVE  /\ g.state = "DISCUSSION" => Keeps(g, OpenBallot(g))
         /\ g.state = "ROUND" => \A reason : Keeps(g, Interrupt(g, reason))
         /\ \A v, s : CanVote(g, v, s) => Keeps(g, CastVote(g, v, s))
         /\ g.state \in TimedStates => Keeps(g, [g EXCEPT !.window = "due"])
<1>1. ASSUME NEW h, h.messages = g.messages, h.players = g.players, h.round = g.round,
             h.state \in {"REVEAL", "VOTING", g.state}, g.state \in TimedStates
      PROVE  Keeps(g, h)
  BY <1>1 DEF Keeps, TimedStates
<1>2. ASSUME g.state = "DISCUSSION"  PROVE Keeps(g, OpenBallot(g))
  <2> DEFINE h == OpenBallot(g)
  <2>1. /\ h.messages = g.messages /\ h.players = g.players /\ h.round = g.round
        /\ h.state = "VOTING"
    BY DEF OpenBallot, SetDeadline, Sound, Typed, GameType
  <2> HIDE DEF h
  <2>2. QED  BY <1>1, <1>2, <2>1 DEF h, TimedStates
<1>3. ASSUME g.state = "ROUND", NEW reason  PROVE Keeps(g, Interrupt(g, reason))
  <2> DEFINE h == Interrupt(g, reason)
  <2>1. /\ h.messages = g.messages /\ h.players = g.players /\ h.round = g.round
        /\ h.state = "REVEAL"
    BY DEF Interrupt, EmitClose, Emit, Sound, Typed, GameType
  <2> HIDE DEF h
  <2>2. QED  BY <1>1, <1>3, <2>1 DEF h, TimedStates
<1>4. ASSUME NEW v, NEW s, CanVote(g, v, s)  PROVE Keeps(g, CastVote(g, v, s))
  <2> DEFINE h == CastVote(g, v, s)
  <2>1. /\ h.messages = g.messages /\ h.players = g.players /\ h.round = g.round
        /\ h.state \in {"REVEAL", g.state}
    BY DEF CastVote, CompleteReveal, EmitClose, Emit, Sound, Typed, GameType
  <2> HIDE DEF h
  <2>2. QED  BY <1>1, <1>4, <2>1 DEF h, TimedStates, CanVote
<1>5. ASSUME g.state \in TimedStates  PROVE Keeps(g, [g EXCEPT !.window = "due"])
  <2> DEFINE h == [g EXCEPT !.window = "due"]
  <2>1. /\ h.messages = g.messages /\ h.players = g.players /\ h.round = g.round
        /\ h.state = g.state
    BY DEF Sound, Typed, GameType
  <2> HIDE DEF h
  <2>2. QED  BY <1>1, <1>5, <2>1 DEF h
<1>6. QED  BY <1>2, <1>3, <1>4, <1>5

(* In the lobby nobody has answered anything.                              *)
LEMMA LobbyIsOrdered ==
  ASSUME NEW g, Sound(g), g.state = "LOBBY", NEW h, Sound(h), h.messages = g.messages,
         h.round \in {0, 1}, h.state \in {"LOBBY", "ROUND"}, h.state = "LOBBY" => h.round = 0
  PROVE  /\ \A c : Order(g, c) => Order(h, c)
         /\ Left(h) /\ Published(h) = Published(g)
<1>1. g.messages = {} /\ \A a : AnsweredBy(h, a) = {} /\ AnsweredBy(g, a) = {}
  BY DEF Sound, Unbegun, AnsweredBy
<1>2. Published(h) = {} /\ Published(g) = {}
  BY <1>1 DEF Published
<1>3. ASSUME NEW c, Order(g, c)  PROVE Order(h, c)
  BY <1>1, <1>3 DEF Order
<1>4. Left(h)
  <2>1. SubmittedHumans(h) = {}
    BY <1>1 DEF SubmittedHumans, Current
  <2>2. h.state # "LOBBY" => Humans(h) # {}
    BY RosterIsPopulated
  <2>3. QED  BY <2>1, <2>2 DEF Left, HumansAnswered
<1>5. QED  BY <1>2, <1>3, <1>4

(* A message enters the round, which goes on, or is over.                  *)
LEMMA SubmittingMoves ==
  ASSUME NEW g, Sound(g), NEW a, NEW t, NEW x, CanSubmit(g, a, t, x)
  PROVE  LET h == SubmitMessage(g, a)
         IN /\ g.state = "ROUND" /\ g.round \in 1..Rounds /\ a \in Players(g)
            /\ g.round \notin AnsweredBy(g, a)
            /\ Sound(h) /\ h.players = g.players
            /\ h.messages = g.messages \cup {[round |-> g.round, alias |-> a]}
            /\ \/ h.state = "ROUND" /\ h.round = g.round /\ h.events = g.events
               \/ h.state = "ROUND" /\ h.round = g.round + 1 /\ h.round <= Rounds
               \/ h.state = "DISCUSSION" /\ h.round = g.round
<1> DEFINE h == SubmitMessage(g, a)
<1>1. /\ g.state = "ROUND" /\ g.round \in 1..Rounds /\ a \in Players(g)
      /\ \A m \in Current(g) : m.alias # a
  BY RosterIsPopulated DEF CanSubmit
<1>2. g.round \notin AnsweredBy(g, a)
  BY <1>1 DEF AnsweredBy, Current
<1>3. Sound(h) /\ Stepped(g, h)
  BY SubmitMessageIsSound, SubmitMessageSteps
<1>4. /\ h.messages = g.messages \cup {[round |-> g.round, alias |-> a]}
      /\ h.players = g.players /\ h.state \in {"ROUND", "DISCUSSION"}
  BY <1>1 DEF SubmitMessage, NextRound, EndRounds, Emit, SetDeadline, Sound, Typed, GameType
<1> HIDE DEF h
<1>5. \/ h.state = "ROUND" /\ h.round = g.round /\ h.events = g.events
      \/ h.state = "ROUND" /\ h.round = g.round + 1 /\ h.round <= Rounds
      \/ h.state = "DISCUSSION" /\ h.round = g.round
  <2>1. ~Begins(g, h) /\ ~Opens(g, h)
    BY <1>1 DEF Begins, Opens
  <2>2. ~Ends(g, h)
    BY <1>4 DEF Ends
  <2>3. Same(g, h) \/ Advances(g, h) \/ Discusses(g, h)
    BY <1>3, <2>1, <2>2 DEF Stepped
  <2>4. Same(g, h) => h.state = "ROUND" /\ h.round = g.round /\ h.events = g.events
    BY <1>1 DEF Same
  <2>5. Advances(g, h) => h.state = "ROUND" /\ h.round = g.round + 1 /\ h.round <= Rounds
    BY <1>1, RoundsAssumption DEF Advances
  <2>6. Discusses(g, h) => h.state = "DISCUSSION" /\ h.round = g.round
    BY DEF Discusses
  <2>7. QED  BY <2>3, <2>4, <2>5, <2>6
<1>6. QED  BY <1>1, <1>2, <1>3, <1>4, <1>5 DEF h

(* What a message changes of who has answered what.                        *)
LEMMA SubmittingOrders ==
  ASSUME NEW g, Sound(g), NEW a, NEW t, NEW x, CanSubmit(g, a, t, x)
  PROVE  LET h == SubmitMessage(g, a)
         IN /\ Impostors(h) = Impostors(g) /\ Humans(h) = Humans(g) /\ Humans(g) # {}
            /\ \A b : AnsweredBy(h, b)
                        = AnsweredBy(g, b) \cup (IF b = a THEN {g.round} ELSE {})
            /\ \A b : g.round + 1 \notin AnsweredBy(h, b)
            /\ h.round = g.round + 1 => Left(h)
            /\ h.state = "DISCUSSION" => Left(h)
<1> DEFINE h == SubmitMessage(g, a)
           k == g.round
<1>1. /\ g.state = "ROUND" /\ k \in 1..Rounds /\ Sound(h) /\ h.players = g.players
      /\ h.messages = g.messages \cup {[round |-> k, alias |-> a]}
      /\ h.round \in {k, k + 1} /\ h.state \in {"ROUND", "DISCUSSION"}
  BY SubmittingMoves
<1>2. \A m \in g.messages : m = [round |-> m.round, alias |-> m.alias] /\ m.round <= k
  BY DEF Sound, Typed, GameType, Message, RoundsInOrder
<1> HIDE DEF h, k
<1>3. \A b : [round |-> k + 1, alias |-> b] \notin h.messages
  <2> SUFFICES ASSUME NEW b, [round |-> k + 1, alias |-> b] \in h.messages  PROVE FALSE
    OBVIOUS
  <2>1. [round |-> k + 1, alias |-> b] \in g.messages
    BY <1>1
  <2>2. k + 1 <= k
    BY <1>2, <2>1
  <2>3. QED  BY <1>1, <2>2
<1>4. ASSUME NEW b
      PROVE  AnsweredBy(h, b) = AnsweredBy(g, b) \cup (IF b = a THEN {k} ELSE {})
  <2>1. AnsweredBy(h, b) = {i \in 1..k : [round |-> i, alias |-> b] \in h.messages}
    BY <1>1, <1>3 DEF AnsweredBy
  <2>2. \A i \in 1..k : [round |-> i, alias |-> b] \in h.messages
          <=> \/ [round |-> i, alias |-> b] \in g.messages \/ (i = k /\ b = a)
    BY <1>1
  <2>3. AnsweredBy(g, b) = {i \in 1..k : [round |-> i, alias |-> b] \in g.messages}
    BY DEF AnsweredBy, k
  <2>4. k \in 1..k
    BY <1>1
  <2>5. QED  BY <2>1, <2>2, <2>3, <2>4
<1>5. Impostors(h) = Impostors(g) /\ Humans(h) = Humans(g) /\ Humans(g) # {}
  BY <1>1, RosterIsPopulated DEF Impostors, Humans, Players
<1>6. \A b : k + 1 \notin AnsweredBy(h, b)
  BY <1>3 DEF AnsweredBy
<1>7. ASSUME h.round = k + 1  PROVE Left(h)
  <2>1. \A m \in h.messages : m = [round |-> m.round, alias |-> m.alias]
    BY <1>1 DEF Sound, Typed, GameType, Message
  <2>2. Current(h) = {}
    BY <1>3, <1>7, <2>1 DEF Current
  <2>3. QED  BY <1>5, <2>2 DEF Left, HumansAnswered, SubmittedHumans
<1>8. QED  BY <1>4, <1>5, <1>6, <1>7 DEF h, k, Left

----------------------------------------------------------------------------
(* Moves of a room.  What is asked of one: it keeps the books it does not  *)
(* write, and the other rooms.                                             *)

BookKept(g, h) == Published(h) = Published(g) /\ (g.state = "REVEAL" => h = g)

Elsewhere(r) ==
  /\ failures' \in {failures, failures + 1}
  /\ \A q \in Room \ {r} :
       /\ games'[q] = games[q] /\ holder'[q] = holder[q]
       /\ calls'[q] = calls[q] /\ usage'[q] = usage[q]
       /\ (q \in tracked') = (q \in tracked) /\ runs'[q] = runs[q]

Ordered == RoomsSound /\ BooksTyped /\ ServerOrdered

LEMMA OthersStayOrdered ==
  ASSUME Ordered, NEW r \in Room, Elsewhere(r), RoomOrdered(r)',
         runs' = [q \in Room |-> runs'[q]]
  PROVE  ServerOrdered'
<1>1. failures \in Nat
  BY ServerAssumption DEF Ordered, BooksTyped
<1>2. failures' = 0 => failures = 0
  BY <1>1 DEF Elsewhere
<1>3. ASSUME NEW q \in Room \ {r}  PROVE RoomOrdered(q)'
  <2>1. RoomOrdered(q)
    BY DEF Ordered, ServerOrdered
  <2>2. /\ Order(games'[q], calls'[q]) /\ Held(games'[q], holder'[q], calls'[q])
        /\ Book(games'[q], usage'[q], q \in tracked', runs'[q], failures)
    BY <2>1 DEF RoomOrdered, Elsewhere
  <2>3. Book(games'[q], usage'[q], q \in tracked', runs'[q], failures')
    BY <1>2, <2>2 DEF Book
  <2>4. QED  BY <2>2, <2>3 DEF RoomOrdered
<1>4. QED  BY <1>3 DEF ServerOrdered

LEMMA BecomingIsElsewhere ==
  ASSUME Ordered, NEW r \in Room, NEW h, NEW next, Become(r, h, next)
  PROVE  /\ games'[r] = h /\ holder'[r] = next
         /\ \A q \in Room \ {r} : games'[q] = games[q] /\ holder'[q] = holder[q]
  BY DEF Ordered, RoomsSound, Become

(* The room is marked and its run logged, or only one of the two.          *)
LEMMA LoggingBooks ==
  ASSUME Ordered, NEW r \in Room, NEW h, NEW u, LogFinishedGame(r, h, u), NEW f,
         Book(h, u, r \in tracked, runs[r], f)
  PROVE  /\ Book(h, u, r \in tracked', runs'[r], f)
         /\ \A q \in Room \ {r} : (q \in tracked') = (q \in tracked) /\ runs'[q] = runs[q]
         /\ runs' = [q \in Room |-> runs'[q]]
<1>1. runs = [q \in Room |-> runs[q]]
  BY DEF Ordered, ServerOrdered
<1>2. CASE r \notin tracked /\ h.state = "REVEAL"
  <2>1. runs[r] = << >>
    BY <1>2 DEF Book
  <2>2. r \in tracked' /\ \A q \in Room \ {r} : (q \in tracked') = (q \in tracked)
    BY <1>2 DEF LogFinishedGame
  <2>3. \/ runs' = [runs EXCEPT ![r] = Append(@, RunOf(h, u))]
        \/ runs' = runs
    BY <1>2 DEF LogFinishedGame
  <2>4. /\ runs'[r] = << >> \/ runs'[r] = <<RunOf(h, u)>>
        /\ \A q \in Room \ {r} : runs'[q] = runs[q]
        /\ runs' = [q \in Room |-> runs'[q]]
    BY <1>1, <2>1, <2>3
  <2>5. QED  BY <1>2, <2>2, <2>4 DEF Book
<1>3. CASE ~(r \notin tracked /\ h.state = "REVEAL")
  BY <1>1, <1>3 DEF LogFinishedGame, books
<1>4. QED  BY <1>2, <1>3

LEMMA KeptBooks ==
  ASSUME NEW g, NEW h, BookKept(g, h), NEW u, NEW marked, NEW log, NEW f,
         Book(g, u, marked, log, f)
  PROVE  Book(h, u, marked, log, f)
  BY DEF BookKept, Book

LEMMA RaisingCounts ==
  ASSUME Ordered, NEW r, NEW h, NEW next
  PROVE  /\ Does(r, h, next) => failures' \in {failures, failures + 1}
         /\ DoesAndLogs(r, h) => failures' \in {failures, failures + 1}
  BY DEF Does, DoesAndLogs, SinkRaises

(* Fewer promises about f failures hold after one more.                    *)
LEMMA BooksOutliveFailures ==
  ASSUME Ordered, failures' \in {failures, failures + 1}, NEW g, NEW u, NEW marked,
         NEW log, Book(g, u, marked, log, failures)
  PROVE  Book(g, u, marked, log, failures')
<1>1. failures' = 0 => failures = 0
  BY ServerAssumption DEF Ordered, BooksTyped
<1>2. QED  BY <1>1 DEF Book

LEMMA DoingMoves ==
  ASSUME Ordered, NEW r \in Room, NEW h, NEW next, Does(r, h, next),
         UNCHANGED <<calls, usage, books>>,
         Order(h, calls[r]), Held(h, next, calls[r]), BookKept(games[r], h),
         Len(h.events) > Len(games[r].events) => Held(h, "free", calls[r])
  PROVE  ServerOrdered'
<1>1. calls' = calls /\ usage' = usage /\ tracked' = tracked /\ runs' = runs
  BY DEF books
<1>2. /\ games'[r] = h /\ Held(h, holder'[r], calls[r])
      /\ \A q \in Room \ {r} : games'[q] = games[q] /\ holder'[q] = holder[q]
  BY BecomingIsElsewhere DEF Does, SinkRaises
<1>3. Elsewhere(r)
  BY <1>1, <1>2, RaisingCounts DEF Elsewhere
<1>4. Book(h, usage[r], r \in tracked, runs[r], failures')
  BY RaisingCounts, BooksOutliveFailures, KeptBooks DEF Ordered, ServerOrdered, RoomOrdered
<1>5. RoomOrdered(r)'
  BY <1>1, <1>2, <1>4 DEF RoomOrdered
<1>6. QED  BY <1>1, <1>3, <1>5, OthersStayOrdered DEF Ordered, ServerOrdered

LEMMA LoggingMoves ==
  ASSUME Ordered, NEW r \in Room, NEW h, DoesAndLogs(r, h), UNCHANGED <<calls, usage>>,
         Order(h, calls[r]), Held(h, "free", calls[r]), BookKept(games[r], h)
  PROVE  ServerOrdered'
<1>1. calls' = calls /\ usage' = usage
  OBVIOUS
<1>2. /\ games'[r] = h /\ holder'[r] = "free"
      /\ \A q \in Room \ {r} : games'[q] = games[q] /\ holder'[q] = holder[q]
  BY BecomingIsElsewhere DEF DoesAndLogs, SinkRaises
<1>3. Book(h, usage[r], r \in tracked, runs[r], failures')
  BY RaisingCounts, BooksOutliveFailures, KeptBooks DEF Ordered, ServerOrdered, RoomOrdered
<1>4. /\ Book(h, usage[r], r \in tracked', runs'[r], failures')
      /\ \A q \in Room \ {r} : (q \in tracked') = (q \in tracked) /\ runs'[q] = runs[q]
      /\ runs' = [q \in Room |-> runs'[q]]
  <2>1. CASE LogFinishedGame(r, h, usage[r])
    BY <1>3, <2>1, LoggingBooks
  <2>2. CASE UNCHANGED books
    BY <1>3, <2>2 DEF books, Ordered, ServerOrdered
  <2>3. QED  BY <2>1, <2>2 DEF DoesAndLogs
<1>5. Elsewhere(r)
  BY <1>1, <1>2, <1>4, RaisingCounts DEF Elsewhere
<1>6. RoomOrdered(r)'
  BY <1>1, <1>2, <1>4 DEF RoomOrdered
<1>7. QED  BY <1>4, <1>5, <1>6, OthersStayOrdered

(* With the lock let go, what counts is that no round is left waiting.     *)
LEMMA LettingGo ==
  ASSUME NEW h, NEW c, Prompts >= Rounds => Left(h)
  PROVE  Held(h, "free", c)
  BY DEF Held

LEMMA KeepingMoves ==
  ASSUME Ordered, NEW r \in Room, holder[r] = "free", NEW h, Keeps(games[r], h),
         \/ Does(r, h, "free") /\ UNCHANGED <<calls, usage, books>>
         \/ DoesAndLogs(r, h) /\ UNCHANGED <<calls, usage>>
  PROVE  ServerOrdered'
<1>1. Order(games[r], calls[r]) /\ Held(games[r], "free", calls[r])
  BY DEF Ordered, ServerOrdered, RoomOrdered
<1>2. Order(h, calls[r]) /\ Held(h, "free", calls[r])
  BY <1>1, KeepingKeeps, LettingGo DEF Held
<1>3. BookKept(games[r], h)
  BY KeepingKeeps DEF BookKept, Keeps
<1>4. QED  BY <1>2, <1>3, DoingMoves, LoggingMoves

(* A player comes, or the game starts.                                     *)
LEMMA GatheringMoves ==
  ASSUME Ordered, NEW r \in Room, NEW h, NEW next \in {"free", "seated"}, Does(r, h, next),
         UNCHANGED <<calls, usage, books>>, games[r].state = "LOBBY", Sound(h),
         h.messages = games[r].messages, h.round \in {0, 1}, h.state \in {"LOBBY", "ROUND"},
         h.state = "LOBBY" => h.round = 0, next = "seated" => h.state = "LOBBY"
  PROVE  ServerOrdered'
<1>1. Sound(games[r]) /\ Order(games[r], calls[r])
  BY DEF Ordered, RoomsSound, ServerOrdered, RoomOrdered
<1>2. Order(h, calls[r]) /\ Left(h) /\ Published(h) = Published(games[r])
  BY <1>1, LobbyIsOrdered
<1>3. Held(h, next, calls[r]) /\ Held(h, "free", calls[r])
  BY <1>2 DEF Held
<1>4. BookKept(games[r], h)
  BY <1>2 DEF BookKept
<1>5. QED  BY <1>2, <1>3, <1>4, DoingMoves

LEMMA AddingGathers ==
  ASSUME NEW g, Sound(g), NEW ai \in BOOLEAN, CanAddPlayer(g, ai), Len(g.players) < MaxPlayers
  PROVE  LET h == AddPlayer(g, ai)
         IN Sound(h) /\ h.messages = g.messages /\ h.round = 0 /\ h.state = "LOBBY"
<1>1. Sound(AddPlayer(g, ai))
  BY AddPlayerIsSound
<1>2. QED  BY <1>1 DEF AddPlayer, CanAddPlayer, Sound, Unbegun, Typed, GameType

LEMMA FoundingIsOrdered ==
  ASSUME Ordered, CreateRoom
  PROVE  ServerOrdered'
<1> DEFINE r == known'
           h == AddPlayer(NewGame, FALSE)
<1>1. /\ known' = known + 1 /\ r \in Room /\ r > known
      /\ UNCHANGED <<calls, usage, books, failures>>
  <2>1. known \in 0..NumRooms /\ known < NumRooms /\ known' = known + 1
    BY DEF CreateRoom, Ordered, RoomsSound
  <2>2. r \in Room /\ r > known
    BY <2>1, ServerAssumption DEF Room
  <2>3. QED  BY <2>1, <2>2 DEF CreateRoom, books
<1>2. games[r] = NewGame /\ holder[r] = "free"
  BY <1>1 DEF Ordered, RoomsSound
<1>3. Does(r, h, "free")
  BY <1>1, <1>2 DEF CreateRoom, Does, Become, Ordered, RoomsSound
<1>4. /\ CanAddPlayer(NewGame, FALSE) /\ Len(NewGame.players) < MaxPlayers
      /\ NewGame.state = "LOBBY" /\ Sound(NewGame)
  <2>1. NewGame.players = << >> /\ NewGame.state = "LOBBY" /\ MaxPlayers >= 1
    BY ServerAssumption DEF NewGame
  <2>2. Len(NewGame.players) < MaxPlayers
    BY <2>1, MaxPlayersAssumption
  <2>3. QED  BY <2>1, <2>2, NewGameIsSound DEF CanAddPlayer
<1>5. Sound(h) /\ h.messages = NewGame.messages /\ h.round = 0 /\ h.state = "LOBBY"
  BY <1>4, AddingGathers
<1> HIDE DEF r, h
<1>6. QED  BY <1>1, <1>2, <1>3, <1>4, <1>5, GatheringMoves

LEMMA JoiningIsOrdered ==
  ASSUME Ordered, NEW r \in Room, JoinRoom(r)
  PROVE  ServerOrdered'
<1> DEFINE h == AddPlayer(games[r], FALSE)
<1>1. /\ games[r].state = "LOBBY" /\ holder[r] \in {"free", "seated"}
      /\ CanAddPlayer(games[r], FALSE) /\ Sound(games[r])
      /\ Len(games[r].players) < MaxPlayers
      /\ UNCHANGED <<calls, usage, books, failures>>
  BY DEF JoinRoom, CanAddPlayer, Ordered, RoomsSound
<1>2. Does(r, h, holder[r])
  BY <1>1 DEF JoinRoom, Does, Become, Ordered, RoomsSound
<1>3. Sound(h) /\ h.messages = games[r].messages /\ h.round = 0 /\ h.state = "LOBBY"
  BY <1>1, AddingGathers
<1> HIDE DEF h
<1>4. QED  BY <1>1, <1>2, <1>3, GatheringMoves

LEMMA SeatingIsOrdered ==
  ASSUME Ordered, NEW r \in Room, SeatImpostor(r)
  PROVE  ServerOrdered'
<1> DEFINE h == AddPlayer(games[r], TRUE)
<1>1. /\ games[r].state = "LOBBY" /\ CanAddPlayer(games[r], TRUE) /\ Sound(games[r])
      /\ Len(games[r].players) < MaxPlayers
      /\ UNCHANGED <<calls, usage, books, failures>>
  BY DEF SeatImpostor, CanAddPlayer, Ordered, RoomsSound
<1>2. Does(r, h, "seated")
  BY <1>1 DEF SeatImpostor, Does
<1>3. Sound(h) /\ h.messages = games[r].messages /\ h.round = 0 /\ h.state = "LOBBY"
  BY <1>1, AddingGathers
<1> HIDE DEF h
<1>4. QED  BY <1>1, <1>2, <1>3, GatheringMoves

LEMMA StartingIsOrdered ==
  ASSUME Ordered, NEW r \in Room, StartGame(r)
  PROVE  ServerOrdered'
<1> DEFINE h == Start(games[r])
<1>1. /\ games[r].state = "LOBBY" /\ Sound(games[r]) /\ games[r].round = 0
      /\ UNCHANGED <<calls, usage, books>>
  BY DEF StartGame, Ordered, RoomsSound, ServerOrdered, RoomOrdered, Held, Sound, Unbegun
<1>2. CASE CanStart(games[r])
  <2>1. Does(r, h, "free") /\ Sound(h)
    BY <1>1, <1>2, StartIsSound DEF StartGame
  <2>2. h.messages = games[r].messages /\ h.round = 1 /\ h.state = "ROUND"
    BY <1>1 DEF Start, Emit, SetDeadline, Sound, Typed, GameType
  <2> HIDE DEF h
  <2>3. QED  BY <1>1, <2>1, <2>2, GatheringMoves
<1>3. CASE ~CanStart(games[r])
  <2>1. Does(r, games[r], "free")
    BY <1>3 DEF StartGame
  <2>2. QED  BY <1>1, <2>1, GatheringMoves
<1>4. QED  BY <1>2, <1>3

(* Polls, refused calls, the start of the voting, votes, ticks and time.   *)
LEMMA LookingMoves ==
  ASSUME Ordered, NEW r \in Room, holder[r] = "free",
         \/ Does(r, CheckExpiration(games[r]), "free") /\ UNCHANGED <<calls, usage, books>>
         \/ DoesAndLogs(r, CheckExpiration(games[r])) /\ UNCHANGED <<calls, usage>>
  PROVE  ServerOrdered'
  BY KeepingMoves, LookingKeeps DEF Ordered, RoomsSound

LEMMA ReadingIsOrdered ==
  ASSUME Ordered, NEW r \in Room, GetState(r)
  PROVE  ServerOrdered'
  BY LookingMoves DEF GetState, Free

LEMMA CallingVoteIsOrdered ==
  ASSUME Ordered, NEW r \in Room, OpenVoting(r)
  PROVE  ServerOrdered'
<1> DEFINE g == CheckExpiration(games[r])
<1>1. holder[r] = "free" /\ UNCHANGED <<calls, usage, books>>
  BY DEF OpenVoting, Free
<1>2. Sound(g) /\ Keeps(games[r], g)
  BY LookingKeeps, CheckExpirationIsSound DEF Ordered, RoomsSound
<1>3. CASE CanOpenVoting(g)
  <2>1. Does(r, OpenBallot(g), "free") /\ g.state = "DISCUSSION"
    BY <1>3 DEF OpenVoting, CanOpenVoting
  <2>2. Keeps(games[r], OpenBallot(g))
    BY <1>2, <2>1, MarkingKeeps, KeepingIsTransitive
  <2>3. QED  BY <1>1, <2>1, <2>2, KeepingMoves
<1>4. CASE ~CanOpenVoting(g)
  <2>1. Does(r, g, "free")
    BY <1>4 DEF OpenVoting
  <2>2. QED  BY <1>1, <2>1, LookingMoves
<1>5. QED  BY <1>3, <1>4

LEMMA VotingIsOrdered ==
  ASSUME Ordered, NEW r \in Room, NEW v, NEW s, PostVote(r, v, s)
  PROVE  ServerOrdered'
<1> DEFINE g == CheckExpiration(games[r])
<1>1. holder[r] = "free" /\ UNCHANGED <<calls, usage>>
  BY DEF PostVote, Free
<1>2. Sound(g) /\ Keeps(games[r], g)
  BY LookingKeeps, CheckExpirationIsSound DEF Ordered, RoomsSound
<1>3. CASE CanVote(g, v, s)
  <2>1. DoesAndLogs(r, CastVote(g, v, s))
    BY <1>3 DEF PostVote
  <2>2. Keeps(games[r], CastVote(g, v, s))
    BY <1>2, <1>3, MarkingKeeps, KeepingIsTransitive
  <2>3. QED  BY <1>1, <2>1, <2>2, KeepingMoves
<1>4. CASE ~CanVote(g, v, s)
  <2>1. Does(r, g, "free") /\ UNCHANGED books
    BY <1>4 DEF PostVote
  <2>2. QED  BY <1>1, <2>1, LookingMoves
<1>5. QED  BY <1>3, <1>4

LEMMA VisitingIsOrdered ==
  ASSUME Ordered, VisitRoom
  PROVE  ServerOrdered'
<1> DEFINE r == timer.at
           h == CheckExpiration(games[r])
<1>1. r \in Room /\ holder[r] = "free" /\ UNCHANGED <<calls, usage>>
  <2>1. timer.at \in 1..known /\ known \in 0..NumRooms /\ holder[r] = "free"
    BY DEF VisitRoom, Free, Ordered, RoomsSound
  <2>2. r \in Room
    BY <2>1, ServerAssumption DEF Room
  <2>3. QED  BY <2>1, <2>2 DEF VisitRoom
<1>2. DoesAndLogs(r, h)
  BY DEF VisitRoom, DoesAndLogs
<1> HIDE DEF r
<1>3. QED  BY <1>1, <1>2, LookingMoves

LEMMA PassingIsOrdered ==
  ASSUME Ordered, NEW r \in Room, PassTime(r)
  PROVE  ServerOrdered'
<1> DEFINE g == games[r]
           h == [g EXCEPT !.window = "due"]
<1>1. /\ g.state \in TimedStates /\ Sound(g)
      /\ UNCHANGED <<calls, usage, books, failures>>
  BY DEF PassTime, Ordered, RoomsSound
<1>2. Keeps(g, h) /\ h.state = g.state
  BY <1>1, MarkingKeeps DEF Sound, Typed, GameType
<1>3. Does(r, h, holder[r])
  BY DEF PassTime, Does, Become, Ordered, RoomsSound
<1>4. h.events = g.events /\ h.round = g.round
  BY <1>1 DEF Sound, Typed, GameType
<1>5. Order(g, calls[r]) /\ Held(g, holder[r], calls[r])
  BY DEF Ordered, ServerOrdered, RoomOrdered
<1> HIDE DEF h
<1>6. Order(h, calls[r]) /\ BookKept(g, h)
  BY <1>1, <1>2, <1>5, KeepingKeeps DEF BookKept, TimedStates
<1>7. Left(h) = Left(g)
  BY <1>2, KeepingKeeps DEF Left
<1>8. Held(h, holder[r], calls[r])
  BY <1>2, <1>4, <1>5, <1>7 DEF Held
<1>9. ~(Len(h.events) > Len(g.events))
  BY <1>1, <1>4 DEF Sound, Typed, GameType
<1>10. QED  BY <1>1, <1>3, <1>6, <1>8, <1>9, DoingMoves

----------------------------------------------------------------------------
(* The answers of a round, and the turn of the impostor.                   *)

LEMMA AnsweredIsSubmitted ==
  ASSUME NEW g, Sound(g), g.state = "ROUND"
  PROVE  /\ g.round \in 1..Rounds
         /\ HumansAnswered(g) <=> \A b \in Humans(g) : g.round \in AnsweredBy(g, b)
<1>1. g.round \in 1..Rounds
  BY RosterIsPopulated
<1>2. \A m \in g.messages : m = [round |-> m.round, alias |-> m.alias]
  BY DEF Sound, Typed, GameType, Message
<1>3. ASSUME NEW b \in Humans(g)
      PROVE  b \in SubmittedHumans(g) <=> g.round \in AnsweredBy(g, b)
  <2>1. b \notin Impostors(g)
    BY DEF Humans, Impostors
  <2>2. b \in SubmittedHumans(g) <=> [round |-> g.round, alias |-> b] \in g.messages
    BY <1>2, <2>1 DEF SubmittedHumans, Current
  <2>3. QED  BY <1>1, <2>2 DEF AnsweredBy
<1>4. QED  BY <1>1, <1>3 DEF HumansAnswered

(* A round all humans have answered waits for its one impostor.            *)
LEMMA TurnIsOpen ==
  ASSUME NEW g, Sound(g), ~Left(g)
  PROVE  \E i : /\ Impostors(g) = {i} /\ g.round \notin AnsweredBy(g, i)
               /\ CanTakeTurn(g, i, g.round)
<1>1. /\ g.state = "ROUND" /\ g.round \in 1..Rounds
      /\ \A b \in Humans(g) : g.round \in AnsweredBy(g, b)
  BY AnsweredIsSubmitted DEF Left
<1>2. PICK i : Impostors(g) = {i}
  <2>1. Cardinality(Impostors(g)) = 1 /\ IsFiniteSet(Impostors(g))
    <3>1. IsFiniteSet(Players(g)) /\ Impostors(g) \subseteq Players(g)
      BY PlayersAreNumbered DEF Impostors, Sound
    <3>2. QED  BY <1>1, <3>1, FS_Subset DEF Sound, FairRoster
  <2>2. QED  BY <2>1, FS_Singleton
<1>3. Players(g) = Humans(g) \cup {i}
  BY <1>2 DEF Players, Humans, Impostors
<1>4. [round |-> g.round, alias |-> i] \notin g.messages
  <2>1. SUFFICES ASSUME [round |-> g.round, alias |-> i] \in g.messages  PROVE FALSE
    OBVIOUS
  <2>2. \A a \in Players(g) : [round |-> g.round, alias |-> a] \in g.messages
    BY <1>1, <1>3, <2>1 DEF AnsweredBy
  <2>3. \A m \in g.messages : m.alias \in Players(g)
    BY DEF Sound, RoundsInOrder
  <2>4. RoundComplete(g, g.round)
    <3>1. Answered(g, g.round) \subseteq Players(g)
      BY <2>3 DEF Answered
    <3>2. ASSUME NEW a \in Players(g)  PROVE a \in Answered(g, g.round)
      <4> DEFINE m == [round |-> g.round, alias |-> a]
      <4>1. m \in g.messages /\ m.round = g.round /\ m.alias = a
        BY <2>2
      <4>2. QED  BY <4>1 DEF Answered
    <3>3. QED  BY <3>1, <3>2 DEF RoundComplete
  <2>5. QED  BY <1>1, <2>4 DEF Sound, RoundsInOrder
<1>5. g.round \notin AnsweredBy(g, i) /\ CanTakeTurn(g, i, g.round)
  BY <1>1, <1>2, <1>4 DEF AnsweredBy, CanTakeTurn
<1>6. QED  BY <1>2, <1>5

LEMMA HumanAnswers ==
  ASSUME NEW g, Sound(g), NEW c, Order(g, c), NEW a \in Humans(g), NEW t, NEW x,
         CanSubmit(g, a, t, x)
  PROVE  LET h == SubmitMessage(g, a)
         IN /\ Order(h, c) /\ Published(h) = Published(g)
            /\ h.state = "ROUND" => c[h.round] = 0
            /\ Len(h.events) > Len(g.events) => Left(h)
<1> DEFINE h == SubmitMessage(g, a)
           k == g.round
<1>1. /\ k \in 1..Rounds /\ k \notin AnsweredBy(g, a) /\ h.state # "LOBBY"
      /\ \/ h.state = "ROUND" /\ h.round = k /\ h.events = g.events
         \/ h.state = "ROUND" /\ h.round = k + 1 /\ h.round <= Rounds
         \/ h.state = "DISCUSSION" /\ h.round = k
  BY SubmittingMoves
<1>2. /\ Impostors(h) = Impostors(g) /\ Humans(h) = Humans(g) /\ Humans(g) # {}
      /\ \A b : AnsweredBy(h, b) = AnsweredBy(g, b) \cup (IF b = a THEN {k} ELSE {})
      /\ \A b : k + 1 \notin AnsweredBy(h, b)
      /\ h.round = k + 1 => Left(h)
      /\ h.state = "DISCUSSION" => Left(h)
  BY SubmittingOrders
<1>3. g.events \in Seq(Event)
  BY DEF Sound, Typed, GameType
<1> HIDE DEF h, k
<1>4. a \notin Impostors(g)
  BY DEF Humans, Impostors
<1>5. \A i \in Impostors(g) : AnsweredBy(h, i) = AnsweredBy(g, i)
  BY <1>2, <1>4
<1>6. Order(h, c)
  BY <1>1, <1>2, <1>5 DEF Order
<1>7. Published(h) = Published(g)
  BY <1>2, <1>5 DEF Published
<1>8. c[k] = 0
  BY <1>1 DEF Order
<1>9. k + 1 <= Rounds => c[k + 1] = 0
  <2>1. SUFFICES ASSUME k + 1 <= Rounds  PROVE c[k + 1] = 0
    OBVIOUS
  <2>2. k + 1 \in 1..Rounds /\ c[k + 1] \in {0, 1}
    BY <1>1, <2>1, RoundsAssumption DEF Order
  <2>3. QED  BY <1>2, <1>6, <2>2 DEF Order
<1>10. Len(h.events) > Len(g.events) => Left(h)
  BY <1>1, <1>2, <1>3
<1>11. QED  BY <1>1, <1>6, <1>7, <1>8, <1>9, <1>10 DEF h

LEMMA ImpostorAnswers ==
  ASSUME NEW g, Sound(g), ~Left(g), NEW c, Order(g, c), NEW i \in Impostors(g), NEW t, NEW x,
         CanSubmit(g, i, t, x)
  PROVE  LET h == SubmitMessage(g, i)
         IN /\ Order(h, c) /\ Left(h) /\ Published(h) = Published(g) \cup {g.round}
            /\ g.state # "REVEAL" /\ h.state # "REVEAL"
<1> DEFINE h == SubmitMessage(g, i)
           k == g.round
<1>1. /\ g.state = "ROUND" /\ k \in 1..Rounds /\ h.state \in {"ROUND", "DISCUSSION"}
      /\ Sound(h) /\ h.round \in {k, k + 1}
  BY SubmittingMoves
<1>2. /\ Impostors(h) = Impostors(g) /\ Humans(h) = Humans(g)
      /\ \A b : AnsweredBy(h, b) = AnsweredBy(g, b) \cup (IF b = i THEN {k} ELSE {})
      /\ h.round = k + 1 => Left(h)
  BY SubmittingOrders
<1>3. Impostors(g) = {i}
  BY TurnIsOpen
<1>4. \A b \in Humans(g) : k \in AnsweredBy(g, b)
  BY <1>1, AnsweredIsSubmitted DEF Left
<1> HIDE DEF h, k
<1>5. \A b \in Humans(g) : b # i
  BY DEF Humans, Impostors
<1>6. Order(h, c)
  BY <1>1, <1>2, <1>3, <1>4, <1>5 DEF Order
<1>7. Published(h) = Published(g) \cup {k}
  BY <1>2, <1>3 DEF Published
<1>8. Left(h)
  <2>1. CASE h.round = k
    <3>1. k \in AnsweredBy(h, i)
      BY <1>2
    <3>2. QED  BY <1>1, <1>2, <1>3, <2>1, <3>1, TurnIsOpen
  <2>2. QED  BY <1>1, <1>2, <2>1
<1>9. QED  BY <1>1, <1>6, <1>7, <1>8 DEF h, k

(* A message of a human, and the count of the humans after it.             *)
LEMMA LookingAtARound ==
  ASSUME NEW g, Sound(g), CheckExpiration(g).state = "ROUND"
  PROVE  CheckExpiration(g) = g
  BY CheckExpirationSteps

LEMMA PostingIsOrdered ==
  ASSUME Ordered, NEW r \in Room, NEW a, NEW t, PostMessage(r, a, t)
  PROVE  ServerOrdered'
<1> DEFINE g == CheckExpiration(games[r])
           h == SubmitMessage(g, a)
<1>1. holder[r] = "free" /\ a \in Humans(games[r]) /\ UNCHANGED <<calls, usage, books>>
  BY DEF PostMessage, Free
<1>2. Sound(games[r]) /\ Order(games[r], calls[r])
  BY DEF Ordered, RoomsSound, ServerOrdered, RoomOrdered
<1>3. CASE CanSubmit(g, a, t, games[r].round)
  <2>1. Does(r, h, "accepted")
    BY <1>3 DEF PostMessage
  <2>2. g = games[r] /\ g.state = "ROUND"
    BY <1>2, <1>3, LookingAtARound DEF CanSubmit
  <2> HIDE DEF g
  <2>3. /\ Order(h, calls[r]) /\ Published(h) = Published(g)
        /\ h.state = "ROUND" => calls[r][h.round] = 0
        /\ Len(h.events) > Len(g.events) => Left(h)
    BY <1>1, <1>2, <1>3, <2>2, HumanAnswers
  <2> HIDE DEF h
  <2>4. Held(h, "accepted", calls[r])
    BY <2>3 DEF Held
  <2>5. Len(h.events) > Len(g.events) => Held(h, "free", calls[r])
    BY <2>3, LettingGo
  <2>6. BookKept(g, h)
    BY <2>2, <2>3 DEF BookKept
  <2>7. QED  BY <1>1, <2>1, <2>2, <2>3, <2>4, <2>5, <2>6, DoingMoves
<1>4. CASE ~CanSubmit(g, a, t, games[r].round)
  <2>1. Does(r, g, "free")
    BY <1>4 DEF PostMessage
  <2>2. QED  BY <1>1, <2>1, LookingMoves
<1>5. QED  BY <1>3, <1>4

(* A handler that leaves the game as it is and goes on.                    *)
LEMMA WaitingMoves ==
  ASSUME Ordered, NEW r \in Room, NEW next, Does(r, games[r], next),
         UNCHANGED <<calls, usage, books>>, Held(games[r], next, calls[r])
  PROVE  ServerOrdered'
<1>1. /\ Order(games[r], calls[r]) /\ BookKept(games[r], games[r])
      /\ games[r].events \in Seq(Event)
  BY DEF Ordered, RoomsSound, GameType, ServerOrdered, RoomOrdered, BookKept
<1>2. ~(Len(games[r].events) > Len(games[r].events))
  BY <1>1
<1>3. QED  BY <1>1, <1>2, DoingMoves

(* A handler that only looks, finds nobody waiting and lets go.            *)
LEMMA LeavingMoves ==
  ASSUME Ordered, NEW r \in Room, NEW h, Keeps(games[r], h), Left(h),
         \/ Does(r, h, "free") /\ UNCHANGED <<calls, usage, books>>
         \/ DoesAndLogs(r, h) /\ UNCHANGED <<calls, usage>>
  PROVE  ServerOrdered'
<1>1. Order(h, calls[r]) /\ BookKept(games[r], h)
  BY KeepingKeeps DEF Ordered, ServerOrdered, RoomOrdered, BookKept, Keeps
<1>2. Held(h, "free", calls[r])
  BY LettingGo
<1>3. QED  BY <1>1, <1>2, DoingMoves, LoggingMoves

LEMMA CountingIsOrdered ==
  ASSUME Ordered, NEW r \in Room, AfterMessage(r)
  PROVE  ServerOrdered'
<1> DEFINE g == CheckExpiration(games[r])
<1>1. holder[r] = "accepted" /\ UNCHANGED <<calls, usage>> /\ Sound(games[r])
  BY DEF AfterMessage, Ordered, RoomsSound
<1>2. CASE HumansComplete(g)
  <2>1. Does(r, g, "turn") /\ UNCHANGED books
    BY <1>2 DEF AfterMessage
  <2>2. g = games[r]
    BY <1>1, <1>2, LookingAtARound DEF HumansComplete
  <2>3. ~Left(games[r])
    BY <1>2, <2>2 DEF HumansComplete, Left
  <2>4. Held(games[r], "accepted", calls[r])
    BY <1>1 DEF Ordered, ServerOrdered, RoomOrdered
  <2>5. Held(games[r], "turn", calls[r])
    BY <2>3, <2>4 DEF Held
  <2>6. QED  BY <1>1, <2>1, <2>2, <2>5, WaitingMoves
<1>3. CASE ~HumansComplete(g)
  <2>1. DoesAndLogs(r, g) /\ Left(g)
    BY <1>3 DEF AfterMessage, HumansComplete, Left
  <2>2. QED  BY <1>1, <2>1, LookingKeeps, LeavingMoves
<1>4. QED  BY <1>2, <1>3

LEMMA ValidatingIsOrdered ==
  ASSUME Ordered, NEW r \in Room, ValidateTurn(r)
  PROVE  ServerOrdered'
<1> DEFINE g == CheckExpiration(games[r])
<1>1. holder[r] = "turn" /\ UNCHANGED <<calls, usage, books>> /\ Sound(games[r])
  BY DEF ValidateTurn, Ordered, RoomsSound
<1>2. ~Left(games[r]) /\ Held(games[r], "turn", calls[r])
  BY <1>1 DEF Ordered, ServerOrdered, RoomOrdered, Held
<1>3. CASE games[r].round > Prompts /\ Does(r, games[r], "free")
  <2>1. games[r].round \in 1..Rounds
    BY <1>1, <1>2, AnsweredIsSubmitted DEF Left
  <2>2. ~(Prompts >= Rounds)
    BY <1>3, <2>1, ServerAssumption, RoundsAssumption
  <2>3. QED  BY <1>1, <1>3, <2>2, LettingGo, WaitingMoves
<1>4. ASSUME NEW i \in Impostors(g), CanTakeTurn(g, i, games[r].round), Does(r, g, "validated")
      PROVE  ServerOrdered'
  <2>1. g = games[r]
    BY <1>1, <1>4, LookingAtARound DEF CanTakeTurn
  <2>2. Held(games[r], "validated", calls[r])
    BY <1>2 DEF Held
  <2>3. QED  BY <1>1, <1>4, <2>1, <2>2, WaitingMoves
<1>5. ASSUME \A i \in Impostors(g) : ~CanTakeTurn(g, i, games[r].round), Does(r, g, "free")
      PROVE  ServerOrdered'
  <2>1. g # games[r]
    <3>1. \E i : Impostors(games[r]) = {i} /\ CanTakeTurn(games[r], i, games[r].round)
      BY <1>1, <1>2, TurnIsOpen
    <3>2. QED  BY <1>5, <3>1
  <2>2. Left(g)
    BY <1>1, <2>1, LookingAtARound DEF Left
  <2>3. QED  BY <1>1, <1>5, <2>2, LookingKeeps, LeavingMoves
<1>6. QED  BY <1>3, <1>4, <1>5 DEF ValidateTurn

LEMMA GivingUpIsOrdered ==
  ASSUME Ordered, NEW r \in Room, NEW reason, holder[r] \in {"validated", "thinking"},
         DoesAndLogs(r, Interrupt(games[r], reason)), UNCHANGED <<calls, usage>>
  PROVE  ServerOrdered'
<1> DEFINE h == Interrupt(games[r], reason)
<1>1. games[r].state = "ROUND" /\ Sound(games[r])
  BY DEF Ordered, RoomsSound, ServerOrdered, RoomOrdered, Held, Left
<1>2. Keeps(games[r], h)
  BY <1>1, MarkingKeeps
<1>3. h.state = "REVEAL"
  BY <1>1 DEF Interrupt, EmitClose, Emit, Sound, Typed, GameType
<1> HIDE DEF h
<1>4. Left(h)
  BY <1>3 DEF Left
<1>5. QED  BY <1>2, <1>4, LeavingMoves DEF h

LEMMA CallingIsOrdered ==
  ASSUME Ordered, NEW r \in Room, CallEngine(r)
  PROVE  ServerOrdered'
<1> DEFINE g == games[r]
           more == [calls[r] EXCEPT ![g.round] = @ + 1]
<1>1. holder[r] = "validated" /\ UNCHANGED usage /\ Sound(g)
  BY DEF CallEngine, Ordered, RoomsSound
<1>2. CASE Expired(g)
  BY <1>1, <1>2, GivingUpIsOrdered DEF CallEngine
<1>3. CASE ~Expired(g)
  <2>1. /\ calls' = [calls EXCEPT ![r] = more] /\ Become(r, g, "thinking")
        /\ UNCHANGED <<books, failures>>
    BY <1>3 DEF CallEngine
  <2>2. /\ ~Left(g) /\ g.state = "ROUND" /\ calls[r][g.round] = 0 /\ Order(g, calls[r])
        /\ Book(g, usage[r], r \in tracked, runs[r], failures)
    BY <1>1 DEF Ordered, ServerOrdered, RoomOrdered, Held, Left
  <2>3. g.round \in 1..Rounds /\ \A b \in Humans(g) : g.round \in AnsweredBy(g, b)
    BY <1>1, <2>2, AnsweredIsSubmitted DEF Left
  <2>4. /\ more \in [1..Rounds -> {0, 1}] /\ more[g.round] = 1
        /\ \A k \in 1..Rounds : k # g.round => more[k] = calls[r][k]
    <3>1. calls[r] \in [1..Rounds -> {0, 1}]
      BY <2>2 DEF Order
    <3>2. more = [calls[r] EXCEPT ![g.round] = 1]
      BY <2>2, <2>3, <3>1
    <3> HIDE DEF more, g
    <3>3. QED  BY <2>3, <3>1, <3>2
  <2>5. calls \in [Room -> [1..Rounds -> Nat]]
    BY DEF Ordered, BooksTyped
  <2> HIDE DEF more, g
  <2>6. Order(g, more)
    BY <2>2, <2>3, <2>4 DEF Order
  <2>7. calls'[r] = more /\ \A q \in Room \ {r} : calls'[q] = calls[q]
    BY <2>1, <2>5
  <2>8. Held(g, "thinking", more)
    BY <2>2 DEF Held
  <2>9. /\ games'[r] = g /\ holder'[r] = "thinking"
        /\ \A q \in Room \ {r} : games'[q] = games[q] /\ holder'[q] = holder[q]
    BY <2>1, BecomingIsElsewhere
  <2>10. /\ usage' = usage /\ tracked' = tracked /\ runs' = runs /\ failures' = failures
    BY <1>1, <2>1 DEF books
  <2>11. RoomOrdered(r)'
    BY <2>2, <2>6, <2>7, <2>8, <2>9, <2>10 DEF RoomOrdered
  <2>12. Elsewhere(r)
    BY <2>7, <2>9, <2>10 DEF Elsewhere
  <2>13. QED  BY <2>10, <2>11, <2>12, OthersStayOrdered DEF Ordered, ServerOrdered
<1>4. QED  BY <1>2, <1>3

LEMMA AnsweringIsOrdered ==
  ASSUME Ordered, NEW r \in Room, NEW t, EngineAnswers(r, t)
  PROVE  ServerOrdered'
<1> DEFINE g == CheckExpiration(games[r])
           impostor == CHOOSE a \in Impostors(g) : TRUE
           h == SubmitMessage(g, impostor)
           published == usage[r] \cup {games[r].round}
<1>1. holder[r] = "thinking" /\ UNCHANGED calls /\ Sound(games[r])
  BY DEF EngineAnswers, Ordered, RoomsSound
<1>2. /\ ~Left(games[r]) /\ Order(games[r], calls[r])
      /\ Book(games[r], usage[r], r \in tracked, runs[r], failures)
  BY <1>1 DEF Ordered, ServerOrdered, RoomOrdered, Held
<1>3. CASE CanSubmit(g, impostor, t, games[r].round)
  <2>1. g = games[r]
    BY <1>1, <1>3, LookingAtARound DEF CanSubmit
  <2>2. impostor \in Impostors(g)
    BY <1>1, <1>2, <2>1, TurnIsOpen
  <2>3. \/ /\ Become(r, h, "free")
           /\ usage' = [usage EXCEPT ![r] = published]
           /\ LogFinishedGame(r, h, published)
           /\ UNCHANGED failures
        \/ SinkRaises(r, h) /\ UNCHANGED <<usage, books>>
    BY <1>3 DEF EngineAnswers
  <2> HIDE DEF g, impostor
  <2>4. /\ Order(h, calls[r]) /\ Left(h)
        /\ Published(h) = Published(games[r]) \cup {games[r].round}
        /\ games[r].state # "REVEAL" /\ h.state # "REVEAL"
    BY <1>1, <1>2, <1>3, <2>1, <2>2, ImpostorAnswers
  <2> HIDE DEF h
  <2>5. Held(h, "free", calls[r])
    BY <2>4, LettingGo
  <2>6. /\ games'[r] = h /\ holder'[r] = "free"
        /\ \A q \in Room \ {r} : games'[q] = games[q] /\ holder'[q] = holder[q]
    BY <2>3, BecomingIsElsewhere DEF SinkRaises
  <2>7. tracked' = tracked /\ runs' = runs
    BY <2>3, <2>4 DEF LogFinishedGame, books
  <2>8. /\ failures' \in {failures, failures + 1} /\ failures \in Nat
        /\ \/ usage'[r] = published /\ failures' = failures
           \/ usage'[r] = usage[r] /\ failures' = failures + 1
        /\ \A q \in Room \ {r} : usage'[q] = usage[q]
    <3>1. usage \in [Room -> SUBSET (1..Rounds)] /\ failures \in Nat
      BY ServerAssumption DEF Ordered, BooksTyped
    <3> HIDE DEF published
    <3>2. QED  BY <2>3, <3>1 DEF SinkRaises
  <2>9. Book(h, usage'[r], r \in tracked, runs[r], failures')
    <3>1. ~(r \in tracked) /\ runs[r] = << >>
      BY <1>2, <2>4 DEF Book
    <3>2. usage'[r] \subseteq Published(h)
      BY <1>2, <2>4, <2>8 DEF Book
    <3>3. failures' = 0 => usage'[r] = Published(h)
      BY <1>2, <2>4, <2>8 DEF Book
    <3>4. QED  BY <3>1, <3>2, <3>3 DEF Book
  <2>10. RoomOrdered(r)'
    BY <1>1, <2>4, <2>5, <2>6, <2>7, <2>9 DEF RoomOrdered
  <2>11. Elsewhere(r)
    BY <1>1, <2>6, <2>7, <2>8 DEF Elsewhere
  <2>12. QED  BY <2>7, <2>10, <2>11, OthersStayOrdered DEF Ordered, ServerOrdered
<1>4. CASE ~CanSubmit(g, impostor, t, games[r].round)
  <2>1. DoesAndLogs(r, RejectAnswer(g)) /\ UNCHANGED usage
    BY <1>4 DEF EngineAnswers
  <2>2. CASE g.state = "ROUND"
    <3>1. RejectAnswer(g) = Interrupt(games[r], "invalid_engine_response")
      BY <1>1, <2>2, LookingAtARound DEF RejectAnswer
    <3>2. QED  BY <1>1, <2>1, <3>1, GivingUpIsOrdered
  <2>3. CASE g.state # "ROUND"
    <3>1. RejectAnswer(g) = g /\ Left(g)
      BY <2>3 DEF RejectAnswer, Left
    <3>2. QED  BY <1>1, <2>1, <3>1, LookingKeeps, LeavingMoves
  <2>4. QED  BY <2>2, <2>3
<1>5. QED  BY <1>3, <1>4

----------------------------------------------------------------------------
(* The invariant, and what follows from it.                                *)

LEMMA ServerStepIsOrdered ==
  ASSUME Ordered, [ServerNext]_vars
  PROVE  ServerOrdered'
<1>1. ASSUME NEW r \in Room, Request(r)  PROVE ServerOrdered'
  BY <1>1, JoiningIsOrdered, SeatingIsOrdered, CallingVoteIsOrdered, ReadingIsOrdered,
     PostingIsOrdered, VotingIsOrdered DEF Request
<1>2. ASSUME NEW r \in Room, NEW code, EngineFails(r, code)  PROVE ServerOrdered'
  BY <1>2, GivingUpIsOrdered DEF EngineFails
<1>3. ASSUME NEW r \in Room, Continue(r)  PROVE ServerOrdered'
  BY <1>2, <1>3, StartingIsOrdered, CountingIsOrdered, ValidatingIsOrdered,
     CallingIsOrdered, AnsweringIsOrdered DEF Continue
<1>4. ASSUME UNCHANGED <<games, holder, calls, usage, tracked, runs, failures>>
      PROVE  ServerOrdered'
  BY <1>4 DEF Ordered, ServerOrdered, RoomOrdered
<1>5. CASE BeginTick
  BY <1>4, <1>5 DEF BeginTick, room, books
<1>6. CASE UNCHANGED vars
  BY <1>4, <1>6 DEF vars, books
<1>7. QED
  BY <1>1, <1>3, <1>5, <1>6, FoundingIsOrdered, PassingIsOrdered, VisitingIsOrdered
     DEF ServerNext

LEMMA ServerInitIsOrdered == ServerInit => ServerOrdered
<1> SUFFICES ASSUME ServerInit  PROVE ServerOrdered
  OBVIOUS
<1>1. ASSUME NEW r \in Room  PROVE RoomOrdered(r)
  <2>1. /\ games[r] = NewGame /\ holder[r] = "free" /\ calls[r] = [k \in 1..Rounds |-> 0]
        /\ usage[r] = {} /\ tracked = {} /\ runs[r] = << >>
    BY DEF ServerInit
  <2>2. NewGame.state = "LOBBY" /\ Impostors(NewGame) = {}
    BY DEF NewGame, Impostors, Players
  <2> HIDE DEF NewGame
  <2>3. Order(games[r], calls[r])
    BY <2>1, <2>2 DEF Order
  <2>4. Held(games[r], holder[r], calls[r])
    BY <2>1, <2>2 DEF Held, Left
  <2>5. Book(games[r], usage[r], r \in tracked, runs[r], failures)
    BY <2>1, <2>2 DEF Book, Published
  <2>6. QED  BY <2>3, <2>4, <2>5 DEF RoomOrdered
<1>2. QED  BY <1>1 DEF ServerInit, ServerOrdered

LEMMA ServerStaysOrdered == ServerSpec => []Ordered
<1>1. ServerInit => BooksTyped
  BY ServerAssumption DEF ServerInit, BooksTyped
<1>2. RoomsSound /\ BooksTyped /\ [ServerNext]_vars => BooksTyped'
  BY BooksStayTyped
<1>3. RoomsSound /\ BooksTyped /\ ServerOrdered /\ [ServerNext]_vars => ServerOrdered'
  BY ServerStepIsOrdered DEF Ordered
<1>4. RoomsSound /\ BooksTyped /\ ServerOrdered => Ordered
  BY DEF Ordered
<1>5. QED  BY <1>1, <1>2, <1>3, <1>4, ServerInitIsOrdered, RoomsAreSound, PTL DEF ServerSpec

(* The impostor answers a round only after all its humans have: nobody's   *)
(* answer is ever written with the impostor's in sight, in any room.       *)
THEOREM TheImpostorAnswersLast == ServerSpec => []ImpostorAnswersLast
<1>1. Ordered => ImpostorAnswersLast
  BY DEF Ordered, ServerOrdered, RoomOrdered, Order, ImpostorAnswersLast
<1>2. QED  BY <1>1, ServerStaysOrdered, PTL

(* The engine is called once for a round at the most, and only for a round *)
(* all the humans of its game have answered.                               *)
THEOREM TheEngineIsCalledOnce == ServerSpec => []OneCallPerRound
<1>1. Ordered => OneCallPerRound
  <2> SUFFICES ASSUME Ordered, NEW r \in Room, NEW k \in 1..Rounds
               PROVE  /\ calls[r][k] <= 1
                      /\ calls[r][k] = 1 =>
                           \A b \in Humans(games[r]) : k \in AnsweredBy(games[r], b)
    BY DEF OneCallPerRound
  <2>1. Order(games[r], calls[r])
    BY DEF Ordered, ServerOrdered, RoomOrdered
  <2>2. calls[r][k] \in {0, 1}
    BY <2>1 DEF Order
  <2>3. QED  BY <2>1, <2>2 DEF Order
<1>2. QED  BY <1>1, ServerStaysOrdered, PTL

(* With a prompt for each round, a lock is never let go over a round that  *)
(* all its humans have answered and that is still open: not when the sink  *)
(* raises, not when the engine fails or is late.                           *)
THEOREM NobodyWaitsForTheImpostor ==
  ASSUME Prompts >= Rounds
  PROVE  ServerSpec => []NoRoundWaitsForTheImpostor
<1>1. Ordered => NoRoundWaitsForTheImpostor
  BY DEF Ordered, ServerOrdered, RoomOrdered, Held, Left, NoRoundWaitsForTheImpostor
<1>2. QED  BY <1>1, ServerStaysOrdered, PTL

(* A run is logged once at the most, for a game that is over, with its     *)
(* result and with the metadata of the answers it published.               *)
THEOREM TheRunTellsTheGame == ServerSpec => []RunsTellTheGame
<1>1. Ordered => RunsTellTheGame
  <2> SUFFICES ASSUME Ordered, NEW r \in Room
               PROVE  /\ r \in tracked => games[r].state = "REVEAL"
                      /\ runs[r] # << >> => r \in tracked
                      /\ Len(runs[r]) <= 1
                      /\ usage[r] \subseteq Published(games[r])
                      /\ failures = 0 => usage[r] = Published(games[r])
                      /\ \A i \in DOMAIN runs[r] : runs[r][i] = RunOf(games[r], usage[r])
    BY DEF RunsTellTheGame, Published
  <2>1. Book(games[r], usage[r], r \in tracked, runs[r], failures)
    BY DEF Ordered, ServerOrdered, RoomOrdered
  <2>2. CASE runs[r] = << >>
    BY <2>1, <2>2 DEF Book
  <2>3. CASE r \in tracked /\ runs[r] = <<RunOf(games[r], usage[r])>>
    <3>1. /\ Len(runs[r]) = 1 /\ DOMAIN runs[r] = {1}
          /\ runs[r][1] = RunOf(games[r], usage[r])
      BY <2>3
    <3>2. QED  BY <2>1, <2>3, <3>1 DEF Book
  <2>4. QED  BY <2>1, <2>2, <2>3 DEF Book
<1>2. QED  BY <1>1, ServerStaysOrdered, PTL

=============================================================================
