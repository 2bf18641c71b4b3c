# A verification of sospechAI's game

sospechAI is a party game: a few people and one language model, the *impostor*,
answer the same questions under anonymous aliases ("Jugador N"), discuss, and
vote for whom they believe the impostor to be. The program has three processes:
a UI (Streamlit), an orchestrator (HTTP, one game per room) and an engine (gRPC,
which asks a hosted model). This directory models all three in TLA+, where the
rules, the threads, the clocks and the failures meet; TLC checks them on small
instances and TLAPS proves for all of them what matters most: of the orchestrator,
of the engine, of the pages of the UI and of the fake they may be tried with.

Paths below are relative to the repository's root (`src/orchestrator/...`).

## 1. The system

| Part | State | Operations | What makes it correct |
|---|---|---|---|
| **Game** `src/orchestrator/game.py` | phase, round, players, messages, votes, explicit abstentions, deadline, reason of the end, event sink | `add_player`, `start`, `submit_message`, `open_voting`, `cast_vote`, `interrupt`, `check_expiration`, `validate_ai_turn`, `public_state`, `result` | rounds complete before the next, one impostor and two humans, sound ballots, nothing accepted late, one announced end whose reason the records bear out, every game ends |
| **Session store** `session.py` | rooms, the token-to-alias table of each, one lock per room | `create`, `join`, lookups | a token has a player and an alias of its own |
| **Server** `server.py` | known rooms, tokens, usage metadata, tracked rooms, timer thread | seven handlers, `_run_ai_turn`, `log_finished_game`, `_timer_loop` | each room plays the game; the impostor answers last and once; each finished game is logged once, with what it was; rooms do not stop each other |
| **Engine client** `engine_client.py` | what has come of the present call: text, final marker | `generate`, `apply_ai_turn` | one call per turn, whole answers only, a failure ends the game |
| **Storage** `storage.py` | the SQLite table `game_events` | `append_game_event` | the table tells the events in order, each once |
| **Tracking** `tracking.py`, `src/common/metrics.py` | metadata of the answers, one MLflow run per game | `record_usage`, `log_game_run` | metrics that agree with the game and each other, runs that are closed |
| **Engine service** `src/impostor_engine/` | `last_usage` and `attempts` of one client that four workers share; per call the budget, the candidate, the attempts left | `GenerateUtterance`, `stream_chat`, its retry, the incremental stream, regeneration | budget kept, one retry at most, nothing of a discarded candidate delivered, metadata of the right call |
| **UI** `src/ui/` | identity, snapshot, notice per session; a second in-memory game in `sources/fake.py` | polls and mutations through `api.py` | a screen that follows the server; the fake keeps the contract |

**How they interact.** Each HTTP request has a thread. A handler takes
`room.lock`, calls the game (which is single-threaded code), and before it lets
the lock go calls `log_finished_game`. A refused call raises one kind of
exception; why it was refused the handler finds out afterwards, with a look of
its own at the game (`classify_*`), which first closes what has expired
meanwhile. When a message completes the humans' answers, the same handler, still
holding the lock, asks the engine for the impostor's. One timer thread goes
round all rooms every `timer_tick` seconds, takes each lock, and calls
`check_expiration`. Every method of the game calls `check_expiration` first. The
game tells its events to a sink (an SQLite insert) by a synchronous callback.
`_handle_join` takes no lock.

A browser's session makes its calls one after the other: what its user does, a
`get_state` after each accepted mutation, and a poll every second or so. Without
a configured server all sessions share one `FakeSospechAI`, a second game written
anew in `src/ui/sources/fake.py`, whose polls play everybody else's part.

The engine is a gRPC server with four workers and one `InferenceClient` for all.
A worker answers one call: it asks the provider for a stream over HTTP, reads it
to its end, yields chunks of text, and last the final marker and the trailing
metadata, which it reads from the shared client. `generate`, in the handler's
thread, collects the chunks until the status of the RPC or its deadline.

**What is hard here.** Windows that run out between two calls, inside a call of
the engine, or while the timer waits for another room's lock; joins that race
each other and the start; a last vote that races the timeout; exceptions of the
sink in the middle of a handler or of the timer; a start that half succeeds; an
answer of the engine that comes late; boundaries (quorum, number of prompts,
least budget); three deadlines of one utterance, each kept by somebody else; a
client object that several calls use at once; replies that never come, to a user
who may try again; a log whose writing fails half way.
`PROJECT.json` lists each at its line under `hazards`, with the properties that
watch it.

## 2. The modules

| Module | Models | Depends on |
|---|---|---|
| `Sizes` | the constants and assumptions that the server's game and the fake's share | |
| `GameRules` | the attributes of `Game` as a record, and every method and helper of `game.py` as an operator from a game to a game | `Sizes` |
| `Game` | one game whose methods are called in any order, while time passes; its properties | `GameRules`, `Lifecycle` |
| `Lifecycle` | abstract specification: phases, rounds and the event stream, as clients and the reader of `game_events` see them | |
| `Lobby` | `_handle_join` and `_handle_start` on one room, at the grain of thread switches | `Game` |
| `Server` | rooms, locks, all handlers, the impostor's turn, timer, sink, MLflow | `GameRules`, an instance of `Game` per room |
| `Engine` | calls of `generate`, the workers of the servicer, and the HTTP client they share | |
| `Replies` | the reply to each request of one room, the reason of a refusal, and the rows its sink adds to `game_events` | `Game` |
| `Tracking` | what is accumulated for a run, derived of it, and sent to MLflow call by call | `Game` |
| `UiSession` | the sessions of the browsers in one room, their screens, and the network between | `Game` |
| `Fake` | one room of `FakeSospechAI` and the browsers that share it | `Sizes`, `Lifecycle` |
| `Api` | the choice of the source: a process plays with the server or with the fake | `UiSession`, an instance of `Fake` |
| `GameProofs` | theorems about a game | `Game`, TLAPS |
| `ServerProofs` | theorems about the server | `Server`, `GameProofs` |
| `RepliesProofs`, `TrackingProofs` | theorems about replies and runs | `Replies`, `Tracking`, `GameProofs` |
| `LobbyProofs` | theorems about overlapping joins and starts | `Lobby`, `GameProofs` |
| `EngineProofs` | theorems about calls, workers, budgets and the shared client | `Engine`, TLAPS |
| `UiProofs` | theorems about the sessions and their screens, and about the choice of the source | `Api`, `GameProofs` |
| `FakeProofs` | theorems about the fake | `Fake`, TLAPS |
| `MCGame`, `MCLobby`, `MCServer`, `MCReplies`, `MCTracking`, `MCEngine`, `MCApi` | instances for TLC | |

### Game

State corresponds to attributes: `state`, `round` (`round_number`), `players`
(`_players`: position *k* is "Jugador *k*", the value is `is_ai`), `messages`,
`votes` (a function from those who voted; `None` is an abstention),
`abstentions` (`_explicit_abstentions`), `window` (`_deadline`: none, running,
or due), `interruption`, `close` (the two reasons), `events` (what the sink was
told). Time is abstracted to what the code asks of it: whether the deadline has
passed. `Elapse` makes a running window due at any moment; a new deadline makes
it run again. `Timed = FALSE` is `round_timeout=None`.

Texts are abstracted to the classes `submit_message` distinguishes ("ok",
"blank", "long"); that a player answers a round once is in the set of messages.

Each method is an action: `Join` and `Begin` (`add_player`, `start`), `Say`,
`CallVote`, `Vote`, `FailTurn` (`interrupt`, as `apply_ai_turn` calls it),
`Poll` (`public_state`, `validate_ai_turn`, the timer). A call that raises
`RuleViolation` still leaves what `check_expiration` did, and so does its action.

### Lobby

`add_player` reads the state, computes the alias from `len(self._players)` and
writes it. In `Lobby` each is a step; joins run in threads of their own, the
host's starts one after the other under the lock. Python ends a loop over a
dictionary that grew with `RuntimeError`, so `start`'s loops are two steps each.

### Server

A step is what a thread does between two points at which something else can
matter. `holder[r]` says what the holder of `r`'s lock has got to:

    free -> seated -> free                           SeatImpostor, StartGame
    free -> accepted -> free                         PostMessage, AfterMessage
                accepted -> turn -> validated -> thinking -> free
                                                     ValidateTurn, CallEngine,
                                                     EngineAnswers, EngineFails

Between these steps windows run out (`PassTime`), other rooms move, the timer
waits at a room, and joins come in. `SinkRaises` is an exception of the sink:
the game has changed, the lock is released, the rest of the handler is skipped.
In `VisitRoom` it ends the timer thread, which catches nothing. `runs` is what
MLflow received; a run may also be lost there (the exception is swallowed).
A join is a single step here, and nobody joins twice: `Lobby` looks inside.

`CallEngine`, `EngineAnswers` and `EngineFails` take of the engine no more than
`generate` promises: a whole answer or a failure, within the budget of the turn.
`Engine` looks at how the promise is kept.

### Replies

`job` is the request that holds the lock: `free`, `seated` (a start whose impostor
is in), `accepted` and `turn` (a message whose handler goes on), or `refused`. From
`refused` the handler calls `check_expiration` once more and then asks `classify_*`
for the reason (`Classify`); `Elapse` may come between. Every call of the domain is
told to the sink event by event, in `Tell`, or in `TellFails` until one INSERT
raises: the game has changed all the same, the rest is not told, and `_dispatch`
answers `internal`. `rows` is the table, in the order of its `id`. For the properties, `acked`
and `failed` record what was answered 204 and what `internal`, and of a start, `found`
that an earlier one had left its impostor, `short` that humans were missing when the
handler last looked (a join may come before the reply). The impostor's turn is a
single step here, since `Server` has its parts.

### Tracking

`pairs` are the metadata of the answers that were published (`record_usage`), each
with counters, a latency, and whether the trailing metadata could be read; `lost`
counts the answers whose metadata an exception of the sink kept out. `log` is the
call of `log_game_run`: `StartRun`, then one `WriteEntry` for each call of MLflow in
the order of the code, any of which may fail (`WriteFails`), and `EndRun`, which
the `finally` reaches in both cases and may fail too. `Plan` is what a run is to
have; a rate is a pair of hits and total. `Rank95` is the index of the percentile
and `Nth` its element, by counting those before it instead of sorting.

### Engine

`turn[c]` is what `generate` has of its call: the time before the deadline of the
RPC, the text so far, whether the final marker came, and the outcome, an answer
with its metadata or one of the four error codes. `job[c]` is the worker's side:

    none -> queued -> ready -> connecting -> reading -> drain -> close -> done
                      Connect  Respond       ReadAll    Deliver  Close
                        ^  |                            or Judge
                        |  +-- SendFailure: one retry --+   |
                        +------ regeneration ---------------+

`drain` is the consumption of a stream that has been read: `Deliver` is one turn
of `_stream_incremental`, `Judge` the whole of `_stream_with_regeneration`'s
verdict on a candidate. `close` is left by `Close`, which reads the shared client
(`engine.attempts`, `engine.usage`) after whatever the other workers have done to
it. `engine.regenerate` is chosen initially; `serve.py` builds the servicer
without regeneration, the tests with it.

*Time* is counted in units of `MIN_BUDGET`, fractions rounded down: an operation
may take no time or any. Each job has three clocks: the servicer's deadline
(`left`), that of the present `stream_chat` (`att`), and the socket's (`sock`),
which starts afresh with every operation, as a socket's timeout does. `Tick` moves
them all, with the RPC's; it waits for a socket whose time is up, for nobody else.

*Texts* are sequences of words of three kinds, of which the code tells no more
apart: plain, one with a break of character, one over `max_chars`.

*The provider and gRPC* are external, and may do what the code catches: refuse the
connection or drop it with the request already sent, answer an HTTP error, stream
lines as slowly as they like, break off, send what is not JSON, tell the usage or
not. A chunk goes from `yield` to `generate` in one step: gRPC keeps their order,
and nothing in the code looks at it on the way. A worker that yields to an RPC that
is over is left by gRPC (`gone`).

A line of the stream (`ReadLine`) may tell the usage, which the client keeps even if
the stream then fails.

`alone`, `overrun`, `sent`, `mute`, `retried` and `told` record what happened, for the
properties; only `retried` is also read (as `_attempt`'s two calls are). `mute` says
that the provider got a request and closed the connection without a byte, which the
code cannot tell from one that never left.

### UiSession

`page[b]` is a browser's `session_state`: identity (the alias), snapshot, whether
there is a notice, `vote_accepted`. `Screen` is `resolve_screen`, and an action is
possible where its widget is drawn: on the screen of the snapshot, which may be
old. The room at the other end is `Game`, with each handler of `server.py` as one
step (the lock makes it one; the impostor's turn is in `AfterMessage`), but for a
join, which takes no lock: `JoinRoom` reads the roster (`found`) and `TakeSeat` writes
the player of the alias computed from it (`Seat`, `Sit`), over another's if a join
was written meanwhile (`crowded`). A late join does the same (`LateJoinReads`,
`LateJoinWrites`). A start waits here for the joins under way (`Entering`): what comes
of their overlap (a game can lose its impostor) is module `Lobby`'s matter.

A mutation is two steps, the call and `Refresh`, as `_mutate` is two calls. Each
call may be answered; applied, with its reply lost (also when the handler answers
`internal` after the change); or given up by the source after its timeout, and then
come later (`late`, `Arrive`) or never. A poll
replaces the page's snapshot and clears its notice (`PollSnapshot`), or leaves the
snapshot and sets the notice (`PollFails`).

A creation whose reply is lost founds a room nobody knows, and so none here. The
poll runs between calls, never during one: Streamlit runs one script of a session
at a time. `lost` records that a call of the session other than a poll was lost.

### Fake

A call of `FakeSospechAI` is a step; a refused one changes nothing and is none. The
first message of a round fills in everybody else's (`Fill`) and moves the round on;
in the discussion and the voting, polls do (`debateSeen`, `votingSeen` are the
attributes that make the second poll act, not the first). `own` tells a message its
player wrote from one of the script. There is no event log; `Story` is the one a
server would have told, and with it the fake implements `Lifecycle`.

### Api

`api.py` asks the environment for the source at each call (`_source`), and the
environment of a process does not change: `source` is chosen in `ApiInit`, and every
step of `ApiNext` is one of `UiSession` with the server as source, or of `Fake`.

### Definitions named ...Faulty

No specification uses them. Each is a plausible mistake in the definition that
follows it (a dropped guard, a missing reset, an off-by-one), and `PROJECT.json`
pairs it with the property that it breaks. They keep the properties honest: one
that no mistake can break says nothing.

## 3. What is checked

| Run | Instance | Shows |
|---|---|---|
| `game_rules` | 3 rounds, up to 5 players (20,307 states) | all safety invariants and action properties of `Game`, and that it implements `Lifecycle`; with time passing and the timer polling, every game that starts is revealed |
| `lobby` | host and 3 joins, all in flight (10,349, symmetric) | whatever the overlap: one impostor at most, two humans in a game, the host in its place; without overlap: tokens and humans one to one, nothing failed inside, an impostor in every game |
| `server` | 1 room, 2 rounds, up to 4 players, 1 failure of the sink (23,713) | the impostor answers last; one engine call per round; no round waits for the impostor; runs tell the game; the room plays `Game` |
| `server_live` | 2 rooms, 1 round, up to 3 players (285,799) | with one timer for all and locks held while the engine thinks, every game is revealed and its run offered |
| `replies` | 2 rounds, up to 4 players, 2 failures of the sink (1,775,881) | who is answered 204 is in the records, and a refusal leaves no trace; a refusal names a reason that holds, though it is looked for later, or held when a start was refused, but for two cases (section 6); the table misses only what an INSERT raised at; the room plays `Game` |
| `tracking` | 2 rounds, up to 4 players, metadata of two latencies, malformed or not, 1 lost (539,329) | the metrics agree with the ballots that name somebody, with the answers and with each other; a run is closed, and holds a prefix of the plan, wherever MLflow fails |
| `engine` | 2 overlapping calls, 2 workers, budget of 2 units, 2 attempts, 1 word (2,639,525, symmetric) | no request is repeated that the provider began to answer; only whole answers are returned; breaks of character are marked and cost what they should; a timeout is told to those who had the time; a call that was alone is given its own metadata; each regeneration starts in time |
| `ui` | with the server, 2 browsers, 2 rounds, up to 4 players, 1 request on its way late; with the fake, as many rounds and players and browsers that call in any order (409,132) | a vote is shown as cast only if it was, and always if no call was lost; a page shows what the room has been, and goes back only when a call was lost; everyone in a game that ends comes to the revelation and stays. The fake's rounds are whole, every human has one vote and none for itself, a poll changes no vote, and it goes through the phases of `Lifecycle` |

Four runs find a violation. Each states what a document says and the code does
not do:

| Run | Property | Finding |
|---|---|---|
| `lobby_start` | `RefusedOnlyForWantOfHumans` | a start refused with one human leaves the impostor seated, and no later start can succeed |
| `server_sink` | `ExpiryNeedsNoClient` | one exception of the sink ends the timer for all rooms |
| `engine_cancel` | `WorkEndsWithTheRpc` | a provider that keeps sending lines holds a worker after its RPC is over; the review says the work must be cancelled |
| `tracking_abstentions` | `FalseAccusationsAreVotes` | an abstention is logged as a false accusation; the docstring of the rate speaks of votes directed at somebody |

Section 6 lists further disagreements between code and documents that have no run.

**Bounds, and why they are enough.** A round that is neither first nor last
needs three rounds; a voting timeout that keeps its quorum needs three humans
with one silent, and so four players; five let the impostor sit anywhere among
them. Nothing in the code depends on more. The lobby needs two joins to share an
alias and a third to see what they left. What happens under one lock needs one
room; what rooms share is the timer, and that needs two. Two rounds in `server`
let the impostor's answer both continue and end the rounds. `MaxFailures = 1`
lets the sink raise at any single event; in `replies` a second failure lets a row
be missing on both sides of one that was written. Of a run, two answers with
different latencies, one of which may be unreadable or lost, tell the sums, the
percentile and the pairing apart. The engine needs two calls to mix their
metadata, two units of time to split a budget or to lose half of it in a retry,
two attempts to discard a candidate, and one word to have a second one cut off.
In `ui` the host and a guest have different widgets and can overtake each other; a
third human is one whose join was lost, so that a voting can time out with a quorum.
Two browsers join with a reading and a writing each, and a late join beside them; for
two *sessions* to have one alias takes three browsers, the host and two that join,
which the theorems cover and the run, which has two, does not. The fake is built with
two rounds; four players put three humans beside the impostor, so that one poll
completes several votes.
`MaxLate` and `MaxLost` bound the model only, as do `MaxPlayers`, `NumRooms` and
`MaxFailures`: nothing in the program limits them.

**Fairness.** `FairSpec`: time passes, and the timer thread polls. `FairServer`:
threads that hold a lock run on, the engine answers or fails by its deadline
(gRPC enforces it; `min(timeout, remaining)`), time passes, the timer ticks and
gets the lock it waits for. The last is weak fairness of `VisitRoom`: a room's
lock is free again and again, and a request could in theory overtake the timer
for ever; TLC shows that even then the game ends, since each request that gets
the lock of a room whose window is due runs `check_expiration` itself, there are
only finitely many phases, and once a game is revealed no request holds its lock
from one step to the next. No request is owed: players may do nothing at all.
`FairService`: workers run on, sockets report their timeouts, gRPC ends an RPC by
its deadline, time passes; of the provider nothing is expected. It is used for the
counterexample of `engine_cancel`, which a system that merely stops would not be.
`UiFairness`: as `FairSpec`, and a session that had an answer goes on to `Refresh`; its
poll, which `st.fragment` repeats for ever, gets an answer again and again (strong
fairness: a user who keeps pressing buttons cannot keep it out, since between two
runs of the script the fragment's turn comes, and the network is not down for ever).

`CHECK_DEADLOCK FALSE` is in the runs of the lobby, the tracking and the engine
only: when the game has begun and all joins are answered, when the run is closed,
or when all calls are over, nothing is left to do. `server_live` runs with a sink
that does not fail, because `server_sink` shows that a failing one ends the timer.

## 4. What is proved

TLAPS checks all of these for every value of the constants that satisfies the
named assumptions: `Rounds` and `MaxPlayers` positive integers, `Timed` a Boolean (in
`UiSession`, where the impostor joins a host, at least 2 players), natural numbers of rooms,
prompts, failures, losses and late requests, and a finite set of browsers. `Lobby`
takes any host and any finite set of joins, fewer than there are places. `Engine`
takes any set of calls, positive numbers of workers, attempts, words and units of
time, and as answers any sequences of deltas, of any length and cut anywhere. Two
theorems assume more and say so: `Prompts >= Rounds`, and `MaxAttempts <= 2`.

- **`GameProofs`**: `GameIsSound`, `Spec => []Sound(game)`. None of the safety
  invariants is inductive alone. That a reason has evidence rests on the ballots
  being sound while the voting is open; that the log tells the game rests on
  complete rounds being exactly those left behind; that the count of a round's
  messages closes it only when everyone has answered rests on each alias
  answering once, which is the shape of the message set, and on every message
  being by a player. `Sound` is their conjunction with the type and with
  `Unbegun` (no messages in the lobby). It is a predicate of one record, so each
  method has a lemma "sound before, sound after", and a call composes
  `check_expiration`'s lemma with the method's. `Closable` is the weaker state
  between filling the ballot box and announcing the close.
  `TypeCorrect`, `EveryRoundIsComplete`, `EveryRosterIsFair`, `EveryBallotIsSound`,
  `EveryReasonHasEvidence` and `EveryLogTellsItsGame` give the invariants of the run.
  From `Sound` follows, too, what one step may do: `PhasesOnlyAdvance`,
  `RecordsAreKept`, `TheBellIsFinal`, and `GameFollowsLifecycle`, the refinement
  of `Lifecycle`: initial states map to initial states, every step to a step or
  a stutter. Two more theorems are the part of termination that needs no fairness.
  `EveryChangeIsProgress`: `Work`, which counts players, messages, votes, phases and
  a window that is due, grows with every change and never exceeds `MostWork`, so no
  sequence of calls keeps a game busy for ever. `EveryCallRingsTheBell`: once a
  window is due, whatever is called next leads to a later phase. What
  `EveryGameEnds` adds to them is that time passes and that somebody calls.
- **`ServerProofs`**: `ServerPlaysTheGame`, `ServerSpec => RoomsPlayTheGame`:
  composed with all its concurrency, the server still implements `Game` in every
  room. `RoomsSound` is the inductive invariant: games are sound, unfounded rooms
  are new and free, and, the part that matters, whoever holds the lock for an
  impostor's turn finds a game in which that turn is still possible, although
  time and joins go on meanwhile. `GameStep` restates `Game`'s `Next` over two
  records, and the `Same...` lemmas carry it to the instance of a room. With
  `RoomsAreSound` everything `GameProofs` shows of one game holds in every room;
  `ServerTypeCorrect` is the server's type invariant. The second part is what the
  server adds to its games. `ServerOrdered` has three
  parts for each room, none inductive without the others. *Order*: the impostor has
  answered no round that some human has not, and the calls counted are for rounds
  all humans have answered. *Held*: from `accepted` on, a handler's round has had no
  call; in a turn every human has answered; and when the lock is free, no round waits
  for the impostor alone (if there are prompts for all). *Book*: the metadata kept
  are of published answers (of all of them while the sink never raised), and a room
  that was marked is revealed and has at most one run, with its result. A move of a
  game is one of three kinds (it keeps the messages, adds a human's, or adds the
  impostor's), and each kind has a lemma. From it come `TheImpostorAnswersLast`,
  `TheEngineIsCalledOnce`, `NobodyWaitsForTheImpostor` and `TheRunTellsTheGame`.
- **`RepliesProofs`**: `RoomStands` is the invariant: `Sound`, and what a handler may
  rely on when it goes on, above all the *ground* of a refusal, which time does not
  take away. `RefusalsAreTrue` follows: the reason that is answered holds, or of a start has
  held when it was refused, except in the two cases of section 6. `TableTellsTheLog` needs that the rows are the log
  with gaps no longer than a failure each; `RepliesAreTrue` that a message of the
  records is acknowledged, failed, or that of the request in progress.
- **`TrackingProofs`**: `RunsEndClosed`, `VotesAreWellMeasured`, `TurnsAreWellMeasured`
  and, of the last two, `MetricsAreTheGames`. Once a game is revealed nothing in the
  plan of its run changes, its entries come in the order of `Number`, and what is in
  the run is a beginning of them (`Logged`). `Accounted` pairs the metadata with the
  answers: a step of the players adds no round the impostor answered, an answer of
  the impostor adds exactly one, recorded or lost. The rest is arithmetic. `SumsAddUp`
  says what a sum computes and `SumOfBits` bounds one; both go by induction over the
  length, which the prover can do once the set it runs through is named
  (`CountingUp`, from the well-foundedness of the naturals). `RankIsTheCeiling` shows
  the index of the percentile right for all n, `EveryRankIsTaken` that the element
  `Nth` chooses exists: no two latencies have as many before them, so counting is a
  bijection. From both, `PercentileDividesTheTurns`.
- **`LobbyProofs`**: `OverlapIsFair`, `LobbyTypeCorrect` and `OneByOneIsOrderly`, for any
  number of joins. A join may overwrite another's player, but only with a human and
  never the host, whose alias no join can compute; humans can only be lost while the
  host writes the impostor, and it counts them after that. Nothing in `add_player`
  bounds a roster: that it has its bound rests on `Counted`, by which the humans are
  no more than the joins that have stored one, and the host. `Orderly` is what holds
  until two requests overlap: whoever is busy is alone, so the length it has read is
  still that of the roster, the alias it is about to write is the next, and the player
  it has stored without a token yet is the only one (`InTransit`).
- **`EngineProofs`**: `EngineIsSound`, `EngineSpec => []EngineSound`, and from it every
  property of the run. The invariant says of each call: what its three clocks and its
  retry have left (`OnTime`); that the words emitted are as many as the deltas handled
  have (`Counted`); that `generate` holds exactly those while it waits, and the whole
  candidate, cut, when it stops (`Heard`); that the verdict on a candidate is on its
  way to the metadata (`Marked`); and of the client that all share, that as long as a
  call is alone its attributes are those of the call (`Metered`, `Alone`); and that a
  request is only ever sent again while the provider has not said a word to it. What holds
  of `FlattenSeq` (a fold of the community modules, defined by a `CHOOSE` over
  recursive functions) is proved first, by induction over the length: it concatenates
  delta by delta, and so what a stream has emitted is a prefix of its answer.
  `TheSecondAttemptHasTime` assumes `MaxAttempts <= 2`, as the code has it
  (`servicer.py:51`), since with three it is false: see section 6.
- **`FakeProofs`**: `FakeKeepsWholeRecords` and `FakeFollowsLifecycle`. The first message
  of a round writes it, so that the count that closes a round is a bijection between
  its messages and the players; `Story` is a function of phase and round, and each
  phase continues it.
- **`UiProofs`**: `UiTypeCorrect`, `ShownVotesAreCast`, `ScreensTellNoLies` and
  `ScreensGoForward`. `Goes` says what any call does to a room: it goes forward, keeps
  what it has, and adds no vote but the caller's; every handler has a lemma for it,
  the impostor's turn included. The invariant `UiSound` says of each page that it was
  told of the room's past, that its alias is a human's (`Seated`, which the impostor cannot
  disturb because it comes when no join is under way), that whoever has the same alias
  came by a crowded join, and that what it believes of its vote is right unless it
  knows of a loss or shares its alias; and of a late vote, that
  its sender knows of one, without which a vote could arrive that an untroubled
  session does not show. A step is the room's (`RoomGoes`) or turns one page
  (`PageGoes`), and either keeps `UiSound`. `Fit`, that a place is left for the
  impostor, is what a room needs to go on to its start. `EitherSource`
  carries all this, and what `FakeProofs` shows, to `Api`: `ApiSpec` implies `UiSpec` and the
  fake's specification.

**Only model-checked:** liveness (`EveryGameEnds`, `EveryRoomIsRevealed`,
`EveryoneSeesTheEnd`), since neither fairness nor `ENABLED` is within the prover's
reach, and the four violations. Every invariant, action property and refinement that
a passing run checks is a theorem.

## 5. What is not modelled

- **Requests.** Routes, headers, bodies and JSON, and the lookups that are answered
  `room_not_found`, `unauthorized` or `forbidden_host_action`: they change no state.
- **Wording.** Texts, prompts, normalisation, logging.
- **Of the engine**: validation of requests, the prompt store and `HealthCheck`,
  which change no state that a call uses; the token, read from the environment; the
  composition of characters over the border of two deltas (NFC); protocol errors
  that this servicer never makes (a second final marker, chunks out of order). Of
  calls that overlap nothing is claimed about metadata: `attempts` and
  `last_usage` are shared, and the run shows only that calls alone are safe.
- **Of the UI**: rendering, the text of the draft (which is kept when a reply is
  lost, and may be sent into the next round), and the derivation of what the
  revelation shows.
- **Of the fake**: its methods overlapping. It takes no lock although sessions are
  threads; it exists to try the screens (`README.md:92`).
- **Of tracking and storage**: the cost, for which the server never gives a price;
  `save_practice_game`, one INSERT of the demonstration. `demo.py`, the two scripts of
  `scripts/` and `smoke_health.py` have no state of their own.
- **Process restarts.** Rooms live in memory; nothing is recovered.
- **Memory model.** Threads of the interpreter switch between bytecodes; a
  single read or write of a dictionary is atomic.

## 6. Observations

What the modelling met besides the four runs, each at its line. None has a run:
the property would restate one line of code, or the run would repeat another.

*The room.*
- Two joins at once can get the same alias: `_handle_join` takes no lock
  (`src/orchestrator/server.py:368`), and `docs/CONTRATO_UI_ORQUESTADOR.md:49` says
  one to one. `OneByOneIsSound`, `OverlapIsFair` and `UiTypeCorrect` say what does hold:
  sessions that share an alias got it by joins that overlapped. They then share one
  vote: what one casts the other is refused, and `VotesShownAreCast` asks of a page to
  show it only if nobody else plays under its alias.
- `--rounds 3` with the two built-in prompts (`server.py:491`): the impostor is never
  asked in round 3. `NobodyWaitsForTheImpostor` assumes a prompt for each round.
- `votes_received` counts forced abstentions after a voting timeout (`game.py:346`);
  the contract (line 215) counts only those who voted or abstained.
- Two refusals give a reason that does not hold; `AnsweredFalsely` names them, and
  `RefusalsHaveTheirReason` excepts these two only. A vote in the discussion whose
  window runs out between the refusal and `classify_vote` is answered
  `duplicate_vote`, though none was cast (contract, line 188). A start that finds the
  impostor of an earlier one is answered `invalid_roster` with two humans there
  (contract, lines 146 and 323): a consequence of what `lobby_start` shows.

*The run.*
- `docs/REVISION_CAMBIO_API.md:14` wants an interruption recorded apart in MLflow;
  `log_game_run` logs neither `valid_game` nor the reason.
- `tracking.py:204` says zeros are never invented, but the servicer reports 0 tokens
  when the provider told none (`servicer.py:335`).
- A run whose writing failed is closed as FINISHED, and never tried again. MLflow is
  called under the room's lock, and also in the timer's thread (`server.py:295`).

*The engine and the UI.*
- A provider that takes the request and closes the connection without an answer is
  sent it again (`inference_client.py:209`); the comment at lines 3-8 says that only
  failures before the sending are retried. `EngineTypeOK` says that this is the only
  request to be sent twice: none that the provider has begun to answer is.
- The docstring at `servicer.py:172` says that the sum of the calls does not exceed the
  round. With `max_attempts` above 2 it can, without any call overrunning its share:
  shares of `MIN_BUDGET` at least (`servicer.py:187`) use a short round up, and the
  third attempt starts after the deadline. `RegenerationHasTime` is proved for the
  two attempts the servicer has by default.
- A vote that was accepted is offered again when the `get_state` after it fails
  (`voting.py:24`), where UIF-15 wants the controls gone after the 204.
  `VotesShownAreCast` states what does hold.
- A draft written for one round is sent into the next if the round closed meanwhile:
  the request names no round (`chat.py:29`).
- The fake refuses an abstention, which the server accepts.

## 7. Plan

All modules of the plan are written, with the runs and the proofs above. What a
further effort would add, in this order:

1. *From lobby to game.* A game that `Lobby` begins without overlap has the roster
   that `Game`'s `Begin` would have given it: a refinement of `Game`'s lobby phase,
   which `OneByOneIsOrderly` holds most of.
2. *Progress of the server.* `EveryChangeIsProgress` for each room of `Server`, and a
   measure of a held lock: that a handler has finitely many steps before it lets go,
   so that `EveryRoomIsRevealed` needs of fairness only that threads run.
3. *The server and the engine together.* `CallEngine` and its two outcomes as an
   abstract specification that `Engine` implements for a call, so that the budget of
   a turn holds of the composition and not of its two sides.
