------------------------------- MODULE Server -------------------------------
(***************************************************************************)
(* The game server: src/orchestrator/server.py and the AI turn of          *)
(* engine_client.py.  Rooms, each with its game and its lock; requests     *)
(* that take the lock of their room; the timer thread, which takes one     *)
(* lock after the other; the engine, which answers, fails or lets its      *)
(* deadline pass; the event sink, which may raise; the run logged in       *)
(* MLflow when a game is revealed.                                         *)
(*                                                                         *)
(* A step is what a thread does between two points where something else    *)
(* can make a difference: time may pass, other rooms move, and a join,     *)
(* which takes no lock, may come.  (Module Lobby looks inside the join; a  *)
(* join is one step here.)                                                 *)
(***************************************************************************)
EXTENDS GameRules

CONSTANTS
  NumRooms,     \* bound: the rooms founded
  Prompts,      \* len(GameServer.prompts)
  MaxFailures   \* bound: the calls of the event sink that raise

ASSUME ServerAssumption == /\ NumRooms \in Nat /\ Prompts \in Nat
                           /\ MaxFailures \in Nat /\ MaxPlayers >= 1

Room == 1..NumRooms   \* in the order in which they are founded

VARIABLES
  known,     \* _known_rooms: rooms 1..known have been founded
  games,     \* the game of each room
  holder,    \* what the holder of each room.lock has got to, or "free"
  calls,     \* how often the engine was called in each round of a room
  usage,     \* _usage_by_room: the rounds whose metadata was recorded
  tracked,   \* _tracked_rooms
  runs,      \* what MLflow has received from each room
  timer,     \* the timer thread: whether it is alive, the room it is at
             \* (0: it waits for a tick), the last room of this tick
  failures   \* how often the sink has raised

room == <<games, holder>>
books == <<tracked, runs>>
vars == <<known, games, holder, calls, usage, tracked, runs, timer, failures>>

ServerInit ==
  /\ known = 0
  /\ games = [r \in Room |-> NewGame]
  /\ holder = [r \in Room |-> "free"]
  /\ calls = [r \in Room |-> [k \in 1..Rounds |-> 0]]
  /\ usage = [r \in Room |-> {}]
  /\ tracked = {}
  /\ runs = [r \in Room |-> << >>]
  /\ timer = [alive |-> TRUE, at |-> 0, last |-> 0]
  /\ failures = 0

Free(r) == r \in 1..known /\ holder[r] = "free"

HumansAnswered(g) == Humans(g) \subseteq SubmittedHumans(g)

----------------------------------------------------------------------------
(* The end of a step of the holder of r's lock.                            *)

(* The game becomes h and the holder goes on, or releases the lock.        *)
Become(r, h, next) ==
  /\ games' = [games EXCEPT ![r] = h]
  /\ holder' = [holder EXCEPT ![r] = next]

(* h was reached, but the sink raised while it was told: every emission    *)
(* follows the assignments of its method.  The exception releases the lock *)
(* and skips the rest of the handler; _dispatch answers internal.          *)
SinkRaises(r, h) ==
  /\ failures < MaxFailures
  /\ Len(h.events) > Len(games[r].events)
  /\ failures' = failures + 1
  /\ Become(r, h, "free")

RunOf(h, metadata) == [result |-> ClosePayload(h), usage |-> metadata]

LogFinishedGameFaulty(r, h, metadata) ==
  IF h.state = "REVEAL"
    THEN /\ tracked' = tracked \cup {r}
         /\ \/ runs' = [runs EXCEPT ![r] = Append(@, RunOf(h, metadata))]
            \/ UNCHANGED runs
    ELSE UNCHANGED books

(* log_finished_game: the room is marked before the run is logged, and a   *)
(* failure of MLflow is swallowed.                                         *)
LogFinishedGame(r, h, metadata) ==
  IF r \notin tracked /\ h.state = "REVEAL"
    THEN /\ tracked' = tracked \cup {r}
         /\ \/ runs' = [runs EXCEPT ![r] = Append(@, RunOf(h, metadata))]
            \/ UNCHANGED runs
    ELSE UNCHANGED books

(* The step calls methods that lead from the game of r to h.               *)
Does(r, h, next) ==
  \/ Become(r, h, next) /\ UNCHANGED failures
  \/ SinkRaises(r, h)

(* The same, and log_finished_game before the lock is released.            *)
DoesAndLogs(r, h) ==
  \/ Become(r, h, "free") /\ LogFinishedGame(r, h, usage[r]) /\ UNCHANGED failures
  \/ SinkRaises(r, h) /\ UNCHANGED books

----------------------------------------------------------------------------
(* Rooms, joins and the start.                                             *)

CreateRoom ==
  /\ known < NumRooms
  /\ known' = known + 1
  /\ games' = [games EXCEPT ![known'] = AddPlayer(NewGame, FALSE)]
  /\ UNCHANGED <<holder, calls, usage, books, timer, failures>>

(* No lock: in the lobby, whoever holds it.                                *)
JoinRoom(r) ==
  /\ r \in 1..known
  /\ CanAddPlayer(games[r], FALSE) /\ Len(games[r].players) < MaxPlayers
  /\ games' = [games EXCEPT ![r] = AddPlayer(@, FALSE)]
  /\ UNCHANGED <<known, holder, calls, usage, books, timer, failures>>

(* _handle_start: the impostor first, then start(); refused, it stays.     *)
SeatImpostor(r) ==
  /\ Free(r)
  /\ CanAddPlayer(games[r], TRUE) /\ Len(games[r].players) < MaxPlayers
  /\ Become(r, AddPlayer(games[r], TRUE), "seated")
  /\ UNCHANGED <<known, calls, usage, books, timer, failures>>

StartGame(r) ==
  /\ holder[r] = "seated"
  /\ IF CanStart(games[r])
       THEN Does(r, Start(games[r]), "free")
       ELSE Does(r, games[r], "free")
  /\ UNCHANGED <<known, calls, usage, books, timer>>

----------------------------------------------------------------------------
(* Requests of players.  A call that is refused has still run              *)
(* check_expiration, and answers without log_finished_game.                *)

(* _handle_messages, up to _humans_complete.                               *)
PostMessage(r, a, t) ==
  LET g == CheckExpiration(games[r])
  IN /\ Free(r)
     /\ a \in Humans(games[r])
     /\ IF CanSubmit(g, a, t, games[r].round)
          THEN Does(r, SubmitMessage(g, a), "accepted")
          ELSE Does(r, g, "free")
     /\ UNCHANGED <<known, calls, usage, books, timer>>

HumansCompleteFaultyEarly(g) == g.state = "ROUND" /\ SubmittedHumans(g) # {}

HumansCompleteFaultyLate(g) ==
  g.state = "ROUND" /\ Players(g) \subseteq SubmittedHumans(g)

HumansComplete(g) == g.state = "ROUND" /\ HumansAnswered(g)

AfterMessage(r) ==
  LET g == CheckExpiration(games[r])
  IN /\ holder[r] = "accepted"
     /\ IF HumansComplete(g)
          THEN Does(r, g, "turn") /\ UNCHANGED books
          ELSE DoesAndLogs(r, g)
     /\ UNCHANGED <<known, calls, usage, timer>>

OpenVoting(r) ==
  LET g == CheckExpiration(games[r])
  IN /\ Free(r)
     /\ Does(r, IF CanOpenVoting(g) THEN OpenBallot(g) ELSE g, "free")
     /\ UNCHANGED <<known, calls, usage, books, timer>>

PostVote(r, v, s) ==
  LET g == CheckExpiration(games[r])
  IN /\ Free(r)
     /\ v \in Humans(games[r])
     /\ IF CanVote(g, v, s)
          THEN DoesAndLogs(r, CastVote(g, v, s))
          ELSE Does(r, g, "free") /\ UNCHANGED books
     /\ UNCHANGED <<known, calls, usage, timer>>

GetState(r) ==
  /\ Free(r)
  /\ DoesAndLogs(r, CheckExpiration(games[r]))
  /\ UNCHANGED <<known, calls, usage, timer>>

----------------------------------------------------------------------------
(* The turn of the impostor, under the lock of the handler that found the  *)
(* humans complete: _run_ai_turn and apply_ai_turn.                        *)

(* prompts[round_number - 1] may not exist; validate_ai_turn may find the  *)
(* round expired.  Either exception is answered internal.                  *)
ValidateTurn(r) ==
  LET g == CheckExpiration(games[r])
  IN /\ holder[r] = "turn"
     /\ \/ /\ games[r].round > Prompts
           /\ Does(r, games[r], "free")
        \/ /\ games[r].round <= Prompts
           /\ \E a \in Impostors(g) : CanTakeTurn(g, a, games[r].round)
           /\ Does(r, g, "validated")
        \/ /\ games[r].round <= Prompts
           /\ \A a \in Impostors(g) : ~CanTakeTurn(g, a, games[r].round)
           /\ Does(r, g, "free")
     /\ UNCHANGED <<known, calls, usage, books, timer>>

(* remaining_time() is 0, or the budget of the one call to the engine.     *)
CallEngine(r) ==
  /\ holder[r] = "validated"
  /\ IF Expired(games[r])
       THEN DoesAndLogs(r, Interrupt(games[r], "round_timeout")) /\ UNCHANGED calls
       ELSE /\ calls' = [calls EXCEPT ![r][games[r].round] = @ + 1]
            /\ Become(r, games[r], "thinking")
            /\ UNCHANGED <<books, failures>>
  /\ UNCHANGED <<known, usage, timer>>

EngineFailures == {"engine_timeout", "engine_unavailable", "engine_protocol",
                   "engine_rejected"}

EngineFailsFaulty(r, code) ==
  /\ holder[r] = "thinking"
  /\ Become(r, games[r], "validated")
  /\ UNCHANGED <<known, calls, usage, books, timer, failures>>

EngineFails(r, code) ==
  /\ holder[r] = "thinking"
  /\ DoesAndLogs(r, Interrupt(games[r], code))
  /\ UNCHANGED <<known, calls, usage, timer>>

RejectAnswerFaulty(g) == Interrupt(g, "invalid_engine_response")

RejectAnswer(g) ==
  IF g.state = "ROUND" THEN Interrupt(g, "invalid_engine_response") ELSE g

(* The whole text has come, and is submitted like that of a human; only    *)
(* when it is published is the metadata recorded, before the run is.       *)
EngineAnswers(r, t) ==
  LET g == CheckExpiration(games[r])
      impostor == CHOOSE a \in Impostors(g) : TRUE
      published == usage[r] \cup {games[r].round}
  IN /\ holder[r] = "thinking"
     /\ IF CanSubmit(g, impostor, t, games[r].round)
          THEN LET h == SubmitMessage(g, impostor)
               IN \/ /\ Become(r, h, "free")
                     /\ usage' = [usage EXCEPT ![r] = published]
                     /\ LogFinishedGame(r, h, published)
                     /\ UNCHANGED failures
                  \/ SinkRaises(r, h) /\ UNCHANGED <<usage, books>>
          ELSE DoesAndLogs(r, RejectAnswer(g)) /\ UNCHANGED usage
     /\ UNCHANGED <<known, calls, timer>>

----------------------------------------------------------------------------
(* The timer thread: each tick it takes the locks of the rooms known when  *)
(* the tick began, one after the other.  Nothing catches an exception.     *)

BeginTick ==
  /\ timer.alive /\ timer.at = 0 /\ known > 0
  /\ timer' = [timer EXCEPT !.at = 1, !.last = known]
  /\ UNCHANGED <<known, room, calls, usage, books, failures>>

NextStopFaulty(t) == 0

NextStopFaultyPast(t) == t.at + 1

NextStop(t) == IF t.at = t.last THEN 0 ELSE t.at + 1

VisitRoom ==
  LET r == timer.at
      h == CheckExpiration(games[r])
  IN /\ timer.alive /\ r # 0
     /\ Free(r)
     /\ \/ /\ Become(r, h, "free") /\ LogFinishedGame(r, h, usage[r])
           /\ timer' = [timer EXCEPT !.at = NextStop(timer)]
           /\ UNCHANGED failures
        \/ /\ SinkRaises(r, h)
           /\ timer' = [timer EXCEPT !.alive = FALSE]
           /\ UNCHANGED books
     /\ UNCHANGED <<known, calls, usage>>

PassTime(r) ==
  /\ games[r].state \in TimedStates /\ games[r].window = "open"
  /\ games' = [games EXCEPT ![r].window = "due"]
  /\ UNCHANGED <<known, holder, calls, usage, books, timer, failures>>

(* What the holder of a lock goes on with.                                 *)
Continue(r) ==
  \/ StartGame(r) \/ AfterMessage(r) \/ ValidateTurn(r) \/ CallEngine(r)
  \/ \E code \in EngineFailures : EngineFails(r, code)
  \/ \E t \in Texts : EngineAnswers(r, t)

Request(r) ==
  \/ JoinRoom(r) \/ SeatImpostor(r) \/ OpenVoting(r) \/ GetState(r)
  \/ \E a \in Aliases, t \in Texts : PostMessage(r, a, t)
  \/ \E v \in Aliases, s \in Aliases \cup {None} : PostVote(r, v, s)

ServerNext ==
  \/ CreateRoom
  \/ \E r \in Room : Request(r)
  \/ \E r \in Room : Continue(r)
  \/ \E r \in Room : PassTime(r)
  \/ BeginTick
  \/ VisitRoom

ServerSpec == ServerInit /\ [][ServerNext]_vars

(* Time passes, threads run, the engine answers before its deadline or     *)
(* fails at it.  Requests are owed nothing.                                *)
FairServer ==
  /\ ServerSpec
  /\ \A r \in Room : WF_vars(Continue(r)) /\ WF_vars(PassTime(r))
  /\ WF_vars(BeginTick) /\ WF_vars(VisitRoom)

----------------------------------------------------------------------------
(* Each room plays the game of module Game, whatever the others, the       *)
(* engine, the sink and the clock do: every step of the server is a step   *)
(* of the game of a room, or none.                                         *)
G(r) == INSTANCE Game WITH game <- games[r]

RoomsPlayTheGame ==
  /\ \A r \in Room : G(r)!Init
  /\ [][\A r \in Room : G(r)!Next \/ UNCHANGED games[r]]_games

Holders == {"free", "seated", "accepted", "turn", "validated", "thinking"}

(* Type invariant, with what the lock is held for: an AI turn is under way *)
(* only in a game that has begun.                                          *)
ServerTypeOK ==
  /\ known \in 0..NumRooms
  /\ \A r \in Room : G(r)!TypeOK
  /\ holder \in [Room -> Holders]
  /\ calls \in [Room -> [1..Rounds -> Nat]]
  /\ usage \in [Room -> SUBSET (1..Rounds)]
  /\ tracked \subseteq Room
  /\ timer \in [alive : BOOLEAN, at : 0..known, last : 0..known]
  /\ failures \in 0..MaxFailures
  /\ \A r \in Room :
       /\ r > known => games[r] = NewGame /\ holder[r] = "free"
       /\ holder[r] \notin {"free", "seated"} => games[r].state # "LOBBY"

AnsweredBy(g, a) == {k \in 1..g.round : [round |-> k, alias |-> a] \in g.messages}

(* The impostor answers a round only after all its humans have, and their  *)
(* answers are never written with its own in sight.                        *)
ImpostorAnswersLast ==
  \A r \in Room : \A a \in Impostors(games[r]), b \in Humans(games[r]) :
    AnsweredBy(games[r], a) \subseteq AnsweredBy(games[r], b)

(* One call to the engine for each round at the most, and none that was    *)
(* not for an answer all humans had waited for.                            *)
OneCallPerRound ==
  \A r \in Room, k \in 1..Rounds :
    /\ calls[r][k] <= 1
    /\ calls[r][k] = 1 => \A b \in Humans(games[r]) : k \in AnsweredBy(games[r], b)

(* Once its last human has answered, a round is never left to the clock:   *)
(* when the lock is released the impostor has answered or the game is      *)
(* over, also when the engine, the sink or MLflow fails.                   *)
NoRoundWaitsForTheImpostor ==
  \A r \in Room : holder[r] = "free" =>
    ~(games[r].state = "ROUND" /\ HumansAnswered(games[r]))

(* A room is marked once its game is revealed and not before; its run is   *)
(* logged once at the most, with the result that will always be read, and  *)
(* with the metadata of the answers that were published and no other.      *)
RunsTellTheGame ==
  \A r \in Room :
    LET answered == UNION {AnsweredBy(games[r], a) : a \in Impostors(games[r])}
    IN /\ r \in tracked => games[r].state = "REVEAL"
       /\ runs[r] # << >> => r \in tracked
       /\ Len(runs[r]) <= 1
       /\ usage[r] \subseteq answered
       /\ failures = 0 => usage[r] = answered
       /\ \A i \in DOMAIN runs[r] : runs[r][i] = RunOf(games[r], usage[r])

(* Whatever its players omit, every game that begins is revealed, and its  *)
(* run is offered to MLflow: in every room, with nobody polling.           *)
EveryRoomIsRevealed ==
  \A r \in Room :
    games[r].state # "LOBBY" ~> games[r].state = "REVEAL" /\ r \in tracked

(* What the specification of the server says of its timer: an expired game *)
(* moves on regardless of client activity.                                 *)
ExpiryNeedsNoClient ==
  \A r \in Room : games[r].state # "LOBBY" ~> games[r].state = "REVEAL"

============================================================================
