------------------------------ MODULE Replies ------------------------------
(***************************************************************************)
(* What a room tells the world: the reply to each request of server.py and *)
(* the rows its event sink adds to the table game_events (storage.py).     *)
(*                                                                         *)
(* Handlers hold room.lock, so that one request is handled at a time; but  *)
(* time passes between its calls of the domain.  The reason of a refusal   *)
(* is not in the exception: the handler looks for it afterwards, with a    *)
(* call of its own of check_expiration.  And the sink is told after the    *)
(* game has changed, one INSERT after the other; any may raise.            *)
(*                                                                         *)
(* The impostor's turn is one step here (Server has its parts), and there  *)
(* is a prompt for every round.                                            *)
(***************************************************************************)
EXTENDS Game

CONSTANT MaxFailures   \* bound: the calls of the event sink that raise

ASSUME RepliesAssumption == MaxFailures \in Nat

VARIABLES
  job,       \* the request that holds room.lock, and the last reply; history:
             \* what the room had (found, short) as it was handled
  rows,      \* the rows of this room in game_events, by their id
  acked,     \* history: the messages and voters answered 204 ...
  failed,    \* ... and those answered internal
  failures   \* how often the sink has raised

books == <<acked, failed>>
vars == <<game, job, rows, books, failures>>

NoBook == [messages |-> {}, voters |-> {}]

NoRequest == [kind |-> "none", alias |-> None, text |-> "ok", suspect |-> None]
Request(kind) == [NoRequest EXCEPT !.kind = kind]
Message_(a, t) == [Request("message") EXCEPT !.alias = a, !.text = t]
Vote_(v, s) == [Request("vote") EXCEPT !.alias = v, !.suspect = s]

RepliesInit ==
  /\ Init
  /\ job = [at |-> "free", q |-> NoRequest, round |-> 0, code |-> "none",
            found |-> FALSE, short |-> FALSE]
  /\ rows = << >>
  /\ acked = NoBook /\ failed = NoBook
  /\ failures = 0

Free == job.at = "free"

----------------------------------------------------------------------------
(* The sink: append_game_event for each event that led from game to h.     *)

News(h) == SubSeq(h.events, Len(game.events) + 1, Len(h.events))

Tell(h) ==
  /\ game' = h
  /\ rows' = rows \o News(h)
  /\ UNCHANGED failures

TellFailsFaulty(h) ==
  /\ failures < MaxFailures /\ News(h) # << >>
  /\ failures' = failures + 1 /\ UNCHANGED game
  /\ \E n \in 0..(Len(News(h)) - 1) : rows' = rows \o SubSeq(News(h), 1, n)

(* It raises at one of them: the game has become h all the same, and the   *)
(* rest is never told.                                                     *)
TellFails(h) ==
  /\ failures < MaxFailures /\ News(h) # << >>
  /\ failures' = failures + 1 /\ game' = h
  /\ \E n \in 0..(Len(News(h)) - 1) : rows' = rows \o SubSeq(News(h), 1, n)

----------------------------------------------------------------------------
(* Replies, which release the lock.                                        *)

Enter(book, q, k) ==
  CASE q.kind = "message" ->
         [book EXCEPT !.messages = @ \cup {[round |-> k, alias |-> q.alias]}]
    [] q.kind = "vote" -> [book EXCEPT !.voters = @ \cup {q.alias}]
    [] OTHER -> book

Reply(q, k, code) ==
  /\ job' = [at |-> "free", q |-> NoRequest, round |-> 0, code |-> code,
             found |-> FALSE, short |-> FALSE]
  /\ acked' = IF code = "no_content" THEN Enter(acked, q, k) ELSE acked
  /\ failed' = IF code = "internal" THEN Enter(failed, q, k) ELSE failed

(* History: the request found an impostor in the room when it came; and    *)
(* two humans were missing when the handler last looked.                   *)
Goto(q, k, label) ==
  /\ job' = [at |-> label, q |-> q, round |-> k, code |-> "none",
             found |-> IF Free THEN Impostors(game) # {} ELSE job.found,
             short |-> Cardinality(Humans(game')) < 2]
  /\ UNCHANGED books

(* The calls of the domain lead to h, and the handler goes on; or the sink *)
(* raises and _dispatch answers internal.                                  *)
GoesOn(h, q, k, label) ==
  \/ Tell(h) /\ Goto(q, k, label)
  \/ TellFails(h) /\ Reply(q, k, "internal")

Answers(h, q, k, code) ==
  \/ Tell(h) /\ Reply(q, k, code)
  \/ TellFails(h) /\ Reply(q, k, "internal")

----------------------------------------------------------------------------
(* Handlers.                                                               *)

(* create and join take no lock.                                           *)
JoinRoom == Join(FALSE) /\ UNCHANGED <<job, rows, books, failures>>

(* start: the impostor first.                                              *)
SeatImpostor ==
  LET q == Request("start")
  IN /\ Free /\ game.players # << >>
     /\ \/ /\ CanAddPlayer(game, TRUE) /\ Len(game.players) < MaxPlayers
           /\ GoesOn(AddPlayer(game, TRUE), q, 0, "seated")
        \/ ~CanAddPlayer(game, TRUE) /\ GoesOn(game, q, 0, "refused")

StartGame ==
  /\ job.at = "seated"
  /\ \/ CanStart(game) /\ Answers(Start(game), job.q, 0, "no_content")
     \/ ~CanStart(game) /\ GoesOn(game, job.q, 0, "refused")

PostMessage(a, t) ==
  LET g == CheckExpiration(game)
      k == game.round
      q == Message_(a, t)
  IN /\ Free /\ a \in Humans(game)
     /\ \/ CanSubmit(g, a, t, k) /\ GoesOn(SubmitMessage(g, a), q, k, "accepted")
        \/ ~CanSubmit(g, a, t, k) /\ GoesOn(g, q, k, "refused")

HumansComplete(g) == g.state = "ROUND" /\ Humans(g) \subseteq SubmittedHumans(g)

AfterMessage ==
  LET g == CheckExpiration(game)
  IN /\ job.at = "accepted"
     /\ \/ HumansComplete(g) /\ GoesOn(g, job.q, job.round, "turn")
        \/ ~HumansComplete(g) /\ Answers(g, job.q, job.round, "no_content")

ImpostorTurnFaulty ==
  LET k == job.round
  IN /\ job.at = "turn"
     /\ \/ /\ ~Expired(game)
           /\ \E a \in Impostors(game) :
                Answers(SubmitMessage(game, a), job.q, k, "no_content")
        \/ /\ \E r \in TurnFailures \ {"round_timeout"} :
                \/ Tell(Interrupt(game, r)) /\ Reply(job.q, k, "no_content")
                \/ TellFails(Interrupt(game, r)) /\ Goto(NoRequest, 0, "free")
        \/ Expired(game) /\ Answers(CheckExpiration(game), job.q, k, "no_content")

ImpostorTurnFaultyLate ==
  LET k == job.round
  IN /\ job.at = "turn"
     /\ \/ \E a \in Impostors(game) :
             Answers(SubmitMessage(game, a), job.q, k, "no_content")
        \/ \E r \in TurnFailures \ {"round_timeout"} :
             Answers(Interrupt(game, r), job.q, k, "no_content")

(* Validated or not, answered or not, expired meanwhile or not: only a     *)
(* turn that was never valid, or a sink that raised, is answered internal. *)
ImpostorTurn ==
  LET k == job.round
  IN /\ job.at = "turn"
     /\ \/ /\ ~Expired(game)
           /\ \E a \in Impostors(game) :
                Answers(SubmitMessage(game, a), job.q, k, "no_content")
        \/ \E r \in TurnFailures \ {"round_timeout"} :
             Answers(Interrupt(game, r), job.q, k, "no_content")
        \/ /\ Expired(game)
           /\ \E code \in {"no_content", "internal"} :
                Answers(CheckExpiration(game), job.q, k, code)

OpenVoting ==
  LET g == CheckExpiration(game)
      q == Request("open")
  IN /\ Free /\ game.players # << >>
     /\ \/ CanOpenVoting(g) /\ Answers(OpenBallot(g), q, 0, "no_content")
        \/ ~CanOpenVoting(g) /\ Answers(g, q, 0, "wrong_state")

PostVote(v, s) ==
  LET g == CheckExpiration(game)
      q == Vote_(v, s)
  IN /\ Free /\ v \in Humans(game)
     /\ \/ CanVote(g, v, s) /\ Answers(CastVote(g, v, s), q, 0, "no_content")
        \/ ~CanVote(g, v, s) /\ GoesOn(g, q, 0, "refused")

(* GET state, or a visit of the timer.                                     *)
Observe ==
  /\ Free
  /\ Tell(CheckExpiration(game)) \/ TellFails(CheckExpiration(game))
  /\ UNCHANGED <<job, books>>

----------------------------------------------------------------------------
(* The reason of a refusal, as it is looked for when time has passed.      *)

ClassifyStart(g) == IF g.state # "LOBBY" THEN "wrong_state" ELSE "invalid_roster"

ClassifySubmit(g, q) ==
  CASE g.state # "ROUND" -> "wrong_state"
    [] g.state = "ROUND" /\ q.text = "blank" -> "empty_message"
    [] g.state = "ROUND" /\ q.text = "long" -> "too_many_words"
    [] OTHER -> "duplicate_message"

ClassifyVoteFaulty(g, q) ==
  CASE q.suspect = None -> "duplicate_vote"
    [] q.suspect # None /\ g.state # "VOTING" -> "wrong_state"
    [] q.suspect = q.alias -> "self_vote"
    [] q.suspect \notin Players(g) \cup {None} -> "not_a_player"
    [] OTHER -> "duplicate_vote"

ClassifyVote(g, q) ==
  CASE g.state # "VOTING" -> "wrong_state"
    [] g.state = "VOTING" /\ q.suspect \notin Players(g) \cup {None} -> "not_a_player"
    [] g.state = "VOTING" /\ q.suspect \in {q.alias} \cap Players(g) -> "self_vote"
    [] OTHER -> "duplicate_vote"

Classify ==
  LET g == CheckExpiration(game)
      q == job.q
  IN /\ job.at = "refused"
     /\ Answers(g, q, job.round,
          CASE q.kind = "start" -> ClassifyStart(g)
            [] q.kind = "message" -> ClassifySubmit(g, q)
            [] q.kind = "vote" -> ClassifyVote(g, q))

PassTime == Elapse /\ UNCHANGED <<job, rows, books, failures>>

Handler ==
  \/ SeatImpostor \/ StartGame \/ AfterMessage \/ ImpostorTurn
  \/ OpenVoting \/ Observe \/ Classify
  \/ \E a \in Aliases, t \in Texts : PostMessage(a, t)
  \/ \E v \in Aliases, s \in Aliases \cup {None} : PostVote(v, s)

RepliesNext == JoinRoom \/ Handler \/ PassTime

RepliesSpec == RepliesInit /\ [][RepliesNext]_vars

----------------------------------------------------------------------------
Books == [messages : SUBSET Message, voters : SUBSET Aliases]

Codes == {"none", "no_content", "internal", "wrong_state", "invalid_roster",
          "empty_message", "too_many_words", "duplicate_message",
          "not_a_player", "self_vote", "duplicate_vote"}

RepliesTypeOK ==
  /\ TypeOK
  /\ job.at \in {"free", "seated", "refused", "accepted", "turn"}
  /\ job.code \in Codes /\ job.round \in 0..Rounds
  /\ job.found \in BOOLEAN /\ job.short \in BOOLEAN
  /\ acked \in Books /\ failed \in Books
  /\ failures \in 0..MaxFailures

Handled == job.at \in {"accepted", "turn"}

HumanMessages == {m \in game.messages : m.alias \in Humans(game)}

(* Who is answered 204 has its message or its vote in the records; and     *)
(* what a human has there was answered 204, or is being handled, or was    *)
(* answered internal: a refusal never leaves a trace.  If the sink never   *)
(* raises, internal too is said only of what was accepted.                 *)
RepliesTellTheTruth ==
  /\ acked.messages \subseteq game.messages
  /\ acked.voters \subseteq PresentHumans(game)
  /\ HumanMessages \subseteq
       acked.messages \cup failed.messages
         \cup (IF Handled THEN {[round |-> job.round, alias |-> job.q.alias]} ELSE {})
  /\ PresentHumans(game) \subseteq acked.voters \cup failed.voters
  /\ failures = 0 => /\ failed.messages \subseteq game.messages
                     /\ failed.voters = {}

PhaseOf == [start |-> "LOBBY", message |-> "ROUND", vote |-> "VOTING"]

(* What the code of a refusal claims: docs/CONTRATO_UI_ORQUESTADOR.md:146, *)
(* 162, 188, and its table of codes.                                       *)
Holds(code, q, g) ==
  CASE code = "wrong_state" -> g.state # PhaseOf[q.kind]
    [] code = "invalid_roster" -> Cardinality(Humans(g)) < 2
    [] code = "empty_message" -> q.text = "blank"
    [] code = "too_many_words" -> q.text = "long"
    [] code = "duplicate_message" -> [round |-> g.round, alias |-> q.alias] \in g.messages
    [] code = "not_a_player" -> q.suspect \notin Players(g)
    [] code = "self_vote" -> q.suspect = q.alias
    [] code = "duplicate_vote" -> q.alias \in DOMAIN g.votes

(* The window of the discussion has run out since the request was refused: *)
(* the handler's second look opens the voting.                             *)
VotingJustOpened == Expired(game) /\ game.state = "DISCUSSION"

(* The answers that break the contract.  A start that finds the impostor   *)
(* of an earlier one is told that humans are missing (see lobby_start);    *)
(* and a vote that came before the voting, and is looked at in it, is told *)
(* that it is the second.                                                  *)
AnsweredFalsely(code) ==
  \/ code = "invalid_roster" /\ job.found
  \/ code = "duplicate_vote" /\ VotingJustOpened

(* Although it is looked for after the refusal, when the window may have   *)
(* run out and humans may have come in, the reason that is answered holds, *)
(* or, of a start, has held when it was refused: in every case but the two *)
(* in which the code says what is not so.                                  *)
RefusalsHaveTheirReason ==
  [][job.at = "refused" /\ Free' /\ job'.code # "internal" =>
       \/ Holds(job'.code, job.q, game')
       \/ job'.code = "invalid_roster" /\ job.short
       \/ AnsweredFalsely(job'.code)]_vars

Position(event) == CHOOSE i \in DOMAIN game.events : game.events[i] = event

(* The table tells the events of the game in their order, each once at the *)
(* most; every call of the sink that raised has lost two at the most, and  *)
(* without one nothing is missing: no event is lost or told twice because  *)
(* of what happens to requests.                                            *)
RowsTellTheLog ==
  /\ \A i \in DOMAIN rows : rows[i] \in {game.events[j] : j \in DOMAIN game.events}
  /\ \A i, j \in DOMAIN rows : i < j => Position(rows[i]) < Position(rows[j])
  /\ Len(rows) <= Len(game.events)
  /\ Len(game.events) <= Len(rows) + 2 * failures

(* The room is the game of module Game, whatever is refused and whatever   *)
(* the sink does.                                                          *)
PlaysTheGame == Init /\ [][Next]_game

============================================================================
