------------------------------- MODULE Engine -------------------------------
(***************************************************************************)
(* The engine service and both its ends: the calls of generate in          *)
(* src/orchestrator/engine_client.py, the servicer whose workers answer    *)
(* them (src/impostor_engine/servicer.py, serve.py), and the streaming     *)
(* HTTP client that all workers share (inference_client.py).  The          *)
(* provider and gRPC are external: what they may do is read off what the   *)
(* code catches.                                                           *)
(*                                                                         *)
(* Texts are sequences of words, of which the code tells three kinds       *)
(* apart; time is counted in units of MIN_BUDGET, fractions rounded down.  *)
(* stream_chat hands over its deltas when it has read the whole stream, so *)
(* that nothing is yielded while the provider talks.                       *)
(***************************************************************************)
EXTENDS Integers, SequencesExt

CONSTANTS
  Calls,         \* the calls of generate, each made once
  Workers,       \* max_workers of the gRPC server
  Timeout,       \* the budgets that generate may be given
  RoundTimeout,  \* of the servicer
  MaxAttempts,   \* of the servicer, when it regenerates
  MaxWords,      \* request.config.max_words
  Answers        \* what the provider may stream: sequences of deltas, which
                 \* are sequences of words

Word == {"plain", "break", "huge"}  \* "huge" has more than max_chars characters

ASSUME EngineAssumption ==
  /\ Workers \in Nat \ {0} /\ MaxAttempts \in Nat \ {0} /\ MaxWords \in Nat \ {0}
  /\ RoundTimeout \in Nat \ {0} /\ Timeout \subseteq Nat \ {0}
  /\ Answers \subseteq Seq(Seq(Word))

VARIABLES
  engine,  \* regenerate_on_character_break, and the attributes of the one
           \* InferenceClient: attempts, and whose usage last_usage is
  job,     \* what the servicer does about each call
  turn     \* what generate has got of it

vars == <<engine, job, turn>>

MIN_BUDGET == 1

HttpKind == {"rejected", "unavailable"}  \* auth and credits end like rejected
Nobody == "nobody"

Least(m, n) == IF m <= n THEN m ELSE n
Most(m, n) == IF m >= n THEN m ELSE n

Cut(words) == SubSeq(words, 1, Least(Len(words), MaxWords))

Breaks(words) == "break" \in Range(words)

Waiting(c) == turn[c].at = "waiting"
Working(j) == j.at \in {"ready", "connecting", "reading", "drain", "close"}
Busy == {c \in Calls : Working(job[c])}

NoMeta == [attempts |-> 0, usage |-> Nobody, broke |-> FALSE, regenerations |-> 0]

NewJob ==
  [at |-> "none",        \* the worker's place in the code
   left |-> 0,           \* time before the deadline of the servicer
   att |-> 0,            \* ... before that of the present stream_chat
   sock |-> 0,           \* ... before the present operation times out
   limit |-> 0,          \* the timeout of the socket
   tries |-> 0,          \* attempts_remaining
   chats |-> 0,          \* calls of stream_chat
   sent |-> 0,           \* requests of it that the provider is known to have got
   mute |-> FALSE,       \* ... but closed the connection of without a word
   retried |-> FALSE,
   told |-> FALSE,       \* whether it was told its usage
   answer |-> << >>,     \* its deltas
   next |-> 0,           \* deltas handled
   emitted |-> 0,        \* words emitted
   broke |-> FALSE,      \* character_break
   status |-> "none",    \* what the observability and the RPC are told
   meta |-> NoMeta,      \* the trailing metadata
   alone |-> TRUE,       \* no other call has used the client meanwhile
   overrun |-> FALSE]    \* a stream_chat has outlived its timeout

Init ==
  /\ engine \in [regenerate : BOOLEAN, attempts : {0}, usage : {Nobody}]
  /\ job = [c \in Calls |-> NewJob]
  /\ turn = [c \in Calls |->
       [at |-> "idle", rpc |-> 0, text |-> << >>, final |-> FALSE, code |-> "none",
        meta |-> NoMeta]]

----------------------------------------------------------------------------
(* The orchestrator's end.                                                 *)

(* generate: the RPC starts, with its deadline, and waits for a worker.    *)
Call(c) ==
  /\ turn[c].at = "idle"
  /\ \E t \in Timeout : turn' = [turn EXCEPT ![c].at = "waiting", ![c].rpc = t]
  /\ job' = [job EXCEPT ![c].at = "queued"]
  /\ UNCHANGED engine

FailTurn(t, code) ==
  [t EXCEPT !.at = "failed", !.code = code, !.rpc = 0, !.text = << >>, !.final = FALSE]

(* A chunk of text: max_chars is the bound, and its breach cancels.        *)
Receive(t, words) ==
  IF "huge" \in Range(words) THEN FailTurn(t, "engine_protocol")
                             ELSE [t EXCEPT !.text = @ \o words]

CodeOf(status) == CASE status = "timeout" -> "engine_timeout"
                    [] status = "unavailable" -> "engine_unavailable"
                    [] OTHER -> "engine_rejected"

(* The RPC has ended: its status, and the metadata of a whole answer.      *)
Finish(c) ==
  /\ Waiting(c) /\ job[c].at = "done"
  /\ turn' = [turn EXCEPT ![c] =
       IF job[c].status # "ok" THEN FailTurn(@, CodeOf(job[c].status))
       ELSE IF @.final /\ @.text # << >> THEN [@ EXCEPT !.at = "answered", !.rpc = 0, !.meta = job[c].meta]
       ELSE FailTurn(@, "engine_protocol")]
  /\ job' = [job EXCEPT ![c].status = "none", ![c].meta = NoMeta]
  /\ UNCHANGED engine

DeadlinePassesFaulty(c) ==
  /\ Waiting(c) /\ turn[c].rpc = 0
  /\ turn' = [turn EXCEPT ![c] = IF @.text # << >> THEN [@ EXCEPT !.at = "answered"]
                                 ELSE FailTurn(@, "engine_timeout")]
  /\ UNCHANGED <<engine, job>>

(* gRPC gives up, whatever the engine does.                                *)
DeadlinePasses(c) ==
  /\ Waiting(c) /\ turn[c].rpc = 0
  /\ turn' = [turn EXCEPT ![c] = FailTurn(@, "engine_timeout")]
  /\ UNCHANGED <<engine, job>>

----------------------------------------------------------------------------
(* The servicer.                                                           *)

(* The loop over stream_chat is left, with a status: the time is no longer *)
(* looked at.                                                              *)
Closing(j, status) ==
  [j EXCEPT !.at = "close", !.status = status, !.left = 0, !.sock = 0, !.limit = 0,
            !.att = 0, !.next = 0, !.emitted = 0, !.sent = 0,
            !.mute = FALSE, !.overrun = FALSE]

(* The worker is free again.                                               *)
Over(j, status) ==
  [NewJob EXCEPT !.at = "done", !.status = status,
                 !.answer = IF status = "ok" THEN j.answer ELSE << >>]

ShareFaulty(j) == Most(MIN_BUDGET, j.left)

(* What each of the attempts that are left may take of the time left:      *)
(* MIN_BUDGET at least.  Without regeneration there is one, with all of it.*)
Share(j) == Most(MIN_BUDGET, j.left \div j.tries)

StreamChatFaulty(c, j) ==
  /\ engine' = [engine EXCEPT !.attempts = 0]
  /\ job' = [d \in Calls |->
       IF d = c
         THEN [j EXCEPT !.at = "ready", !.att = Share(j),
                        !.chats = @ + 1, !.sent = 0, !.mute = FALSE,
                        !.retried = FALSE, !.told = FALSE, !.answer = << >>,
                        !.alone = Busy \subseteq {c}]
         ELSE [job[d] EXCEPT !.alone = @ /\ d \notin Busy]]

(* stream_chat starts: the attributes of the shared client are reset.      *)
StreamChat(c, j) ==
  /\ engine' = [engine EXCEPT !.attempts = 0, !.usage = Nobody]
  /\ job' = [d \in Calls |->
       IF d = c
         THEN [j EXCEPT !.at = "ready", !.att = Share(j),
                        !.chats = @ + 1, !.sent = 0, !.mute = FALSE,
                        !.retried = FALSE, !.told = FALSE, !.answer = << >>,
                        !.alone = Busy \subseteq {c}]
         ELSE [job[d] EXCEPT !.alone = @ /\ d \notin Busy]]

(* _budget: what gRPC says is left, and no more than round_timeout.        *)
Budget(c) == Least(RoundTimeout, turn[c].rpc)

(* A worker takes the call.                                                *)
GenerateUtterance(c) ==
  LET budget == Budget(c)
  IN /\ job[c].at = "queued" /\ Cardinality(Busy) < Workers
     /\ IF budget <= MIN_BUDGET
          THEN /\ job' = [job EXCEPT ![c] = Over(@, "timeout")]
               /\ UNCHANGED engine
          ELSE StreamChat(c, [job[c] EXCEPT
                 !.left = budget, !.tries = IF engine.regenerate THEN MaxAttempts ELSE 1])
     /\ UNCHANGED turn

(* yield: gRPC takes the chunk to generate, or, if the RPC is over, drops  *)
(* it and leaves the generator.                                            *)
Yield(c, words, j) ==
  /\ job' = [job EXCEPT ![c] = IF words = << >> \/ Waiting(c) THEN j
                               ELSE Over(j, "gone")]
  /\ turn' = [turn EXCEPT ![c] = IF Waiting(c) THEN Receive(@, words) ELSE @]

(* _stream_incremental: what a delta adds, up to max_words.                *)
Deliver(c) ==
  LET j == job[c]
      candidate == FlattenSeq(SubSeq(j.answer, 1, j.next + 1))
      words == SubSeq(Cut(candidate), j.emitted + 1, Least(Len(candidate), MaxWords))
  IN /\ ~engine.regenerate /\ j.at = "drain"
     /\ IF j.next = Len(j.answer)
          THEN job' = [job EXCEPT ![c] = Closing(j, "ok")] /\ UNCHANGED turn
          ELSE IF Len(candidate) > MaxWords
          THEN Yield(c, words, Closing(j, "ok"))
          ELSE Yield(c, words, [j EXCEPT !.next = @ + 1, !.emitted = @ + Len(words)])
     /\ UNCHANGED engine

JudgeFaulty(c) ==
  LET candidate == Cut(FlattenSeq(job[c].answer))
      j == [job[c] EXCEPT !.tries = @ - 1, !.broke = Breaks(FlattenSeq(job[c].answer))]
  IN /\ engine.regenerate /\ job[c].at = "drain"
     /\ IF j.broke /\ j.tries > 0
          THEN StreamChat(c, j) /\ UNCHANGED turn
          ELSE /\ Yield(c, candidate, Closing(j, "ok"))
               /\ UNCHANGED engine

(* _stream_with_regeneration: the whole candidate is judged before any of  *)
(* it is yielded.                                                          *)
Judge(c) ==
  LET candidate == Cut(FlattenSeq(job[c].answer))
      j == [job[c] EXCEPT !.tries = @ - 1, !.broke = Breaks(candidate)]
  IN /\ engine.regenerate /\ job[c].at = "drain"
     /\ IF j.broke /\ j.tries > 0
          THEN StreamChat(c, j) /\ UNCHANGED turn
          ELSE /\ Yield(c, candidate, Closing(j, "ok"))
               /\ UNCHANGED engine

(* _emit_observability reads the shared client; then the final marker, or  *)
(* _abort_for.                                                             *)
Close(c) ==
  LET j == job[c]
      ok == j.status = "ok"
      meta == [attempts |-> engine.attempts, usage |-> engine.usage,
               broke |-> ok /\ j.broke,
               regenerations |-> IF ok THEN j.chats - 1 ELSE 0]
  IN /\ j.at = "close"
     /\ job' = [job EXCEPT ![c] = IF Waiting(c) THEN [Over(j, j.status) EXCEPT !.meta = meta]
                                                ELSE Over(j, "gone")]
     /\ turn' = [turn EXCEPT ![c].final = @ \/ (ok /\ Waiting(c))]
     /\ UNCHANGED engine

----------------------------------------------------------------------------
(* The HTTP client: _attempt, _read_stream, _consume.                      *)

(* Another attempt, unless its time is up.                                 *)
Connect(c) ==
  /\ job[c].at = "ready"
  /\ engine' = [engine EXCEPT !.attempts = @ + 1]
  /\ job' = [job EXCEPT ![c] =
       IF @.att = 0 THEN Closing(@, "timeout")
       ELSE [@ EXCEPT !.at = "connecting", !.sock = job[c].att, !.limit = job[c].att]]
  /\ UNCHANGED turn

SendFailureFaultyKind(j) ==
  IF j.retried \/ j.att = 0 THEN Closing(j, "timeout")
  ELSE [j EXCEPT !.at = "ready", !.retried = TRUE, !.sock = 0, !.limit = 0]

(* _SendFailure that is no timeout: retried once, if there is time.        *)
SendFailure(j) ==
  IF j.retried \/ j.att = 0 THEN Closing(j, "unavailable")
  ELSE [j EXCEPT !.at = "ready", !.retried = TRUE, !.sock = 0, !.limit = 0]

(* urlopen raises: no connection, or a connection that the provider closes *)
(* without a word after it got the request.  The code takes both for a     *)
(* failure before the request was sent.                                    *)
ConnectionFails(c) ==
  /\ job[c].at = "connecting"
  /\ \E j \in {job[c], [job[c] EXCEPT !.sent = @ + 1, !.mute = TRUE]} :
       job' = [job EXCEPT ![c] = SendFailure(j)]
  /\ UNCHANGED <<engine, turn>>

(* HTTPError is a URLError: caught after it, it would be retried.          *)
HttpErrorFaulty(c) ==
  /\ job[c].at = "connecting"
  /\ job' = [job EXCEPT ![c] = SendFailure([job[c] EXCEPT !.sent = @ + 1])]
  /\ UNCHANGED <<engine, turn>>

HttpError(c) ==
  /\ job[c].at = "connecting"
  /\ \E kind \in HttpKind :
       job' = [job EXCEPT ![c] = Closing([job[c] EXCEPT !.sent = @ + 1], kind)]
  /\ UNCHANGED <<engine, turn>>

Respond(c) ==
  /\ job[c].at = "connecting"
  /\ job' = [job EXCEPT ![c].at = "reading", ![c].sock = job[c].limit, ![c].sent = @ + 1]
  /\ UNCHANGED <<engine, turn>>

(* A line of the stream, which may be the event that tells the usage: the  *)
(* socket's timeout starts afresh.                                         *)
ReadLine(c) ==
  /\ job[c].at = "reading"
  /\ \E usage \in BOOLEAN :
       /\ job' = [job EXCEPT ![c].sock = job[c].limit, ![c].told = @ \/ usage]
       /\ engine' = [engine EXCEPT !.usage = IF usage THEN c ELSE @]
  /\ UNCHANGED turn

(* The stream is complete.                                                 *)
ReadAll(c) ==
  /\ job[c].at = "reading"
  /\ \E a \in Answers :
       job' = [job EXCEPT ![c].at = "drain", ![c].sock = 0, ![c].limit = 0, ![c].sent = 0,
                          ![c].mute = FALSE, ![c].answer = a]
  /\ UNCHANGED <<engine, turn>>

(* The connection breaks; or what came is no JSON, an exception that only  *)
(* gRPC catches.                                                           *)
ReadFails(c) ==
  /\ job[c].at = "reading"
  /\ \/ job' = [job EXCEPT ![c] = Closing(@, "unavailable")]
     \/ job' = [job EXCEPT ![c] = Over(@, "unknown")]
  /\ UNCHANGED <<engine, turn>>

SocketTimeout(c) ==
  /\ job[c].at \in {"connecting", "reading"} /\ job[c].sock = 0
  /\ job' = [job EXCEPT ![c] = Closing(@, "timeout")]
  /\ UNCHANGED <<engine, turn>>

----------------------------------------------------------------------------
Before(n) == Most(n - 1, 0)

(* Time passes for all; a socket whose time is up says so first.           *)
Tick ==
  /\ \A c \in Calls : job[c].at \in {"connecting", "reading"} => job[c].sock > 0
  /\ \E c \in Calls : \/ Waiting(c) /\ turn[c].rpc > 0
                      \/ Working(job[c]) /\ (job[c].left > 0 \/ job[c].att > 0)
                      \/ job[c].at = "reading"
  /\ job' = [c \in Calls |->
       IF Working(job[c])
         THEN [job[c] EXCEPT !.left = Before(@), !.att = Before(@), !.sock = Before(@),
                             !.overrun = @ \/ (engine.regenerate /\ job[c].att = 0 /\ job[c].at # "close")]
         ELSE job[c]]
  /\ turn' = [c \in Calls |-> IF Waiting(c) THEN [turn[c] EXCEPT !.rpc = Before(@)]
                                            ELSE turn[c]]
  /\ UNCHANGED engine

Generate(c) == Call(c) \/ Finish(c) \/ DeadlinePasses(c)
Serve(c) == GenerateUtterance(c) \/ Deliver(c) \/ Judge(c) \/ Close(c) \/ Connect(c)
Provide(c) == \/ ConnectionFails(c) \/ HttpError(c) \/ Respond(c)
              \/ ReadLine(c) \/ ReadAll(c) \/ ReadFails(c)

Next == \/ Tick
        \/ \E c \in Calls : Generate(c) \/ Serve(c) \/ Provide(c) \/ SocketTimeout(c)

EngineSpec == Init /\ [][Next]_vars

(* Threads run, sockets time out, gRPC keeps its deadlines.  Of the        *)
(* provider nothing is expected.                                           *)
FairService ==
  /\ EngineSpec /\ WF_vars(Tick)
  /\ \A c \in Calls : /\ WF_vars(Serve(c)) /\ WF_vars(SocketTimeout(c))
                      /\ WF_vars(Finish(c)) /\ WF_vars(DeadlinePasses(c))

----------------------------------------------------------------------------
Answered(c) == turn[c].at = "answered"

(* Types, and three bounds that hold only together: no word beyond         *)
(* max_words is emitted; no operation waits longer than the timeout of its *)
(* socket; and the provider gets no request of a stream_chat again that it *)
(* has begun to answer, with an error or with a stream.  A request that it *)
(* got and did not answer is the exception: it is sent once more, against  *)
(* inference_client.py:3-8, for the code cannot tell that it was sent.     *)
EngineTypeOK ==
  /\ engine \in [regenerate : BOOLEAN, attempts : Nat, usage : {Nobody} \cup Calls]
  /\ \A c \in Calls :
       /\ job[c].left <= RoundTimeout /\ job[c].sock <= job[c].limit
       /\ job[c].emitted <= MaxWords
       /\ job[c].sent \in 0..(IF job[c].mute THEN 2 ELSE 1)
       /\ job[c].at \in {"ready", "connecting"} /\ job[c].sent > 0 => job[c].mute
       /\ turn[c].at \in {"idle", "waiting", "answered", "failed"}

(* generate discards incomplete streams: what it returns is the whole of   *)
(* the candidate that the engine accepted last, cut to max_words; no part  *)
(* of one that was cut off by the deadline, and none of a discarded one.   *)
WholeAnswersOnly ==
  \A c \in Calls : Answered(c) =>
    /\ turn[c].text = Cut(FlattenSeq(job[c].answer)) /\ turn[c].text # << >>
    /\ turn[c].final

(* When the engine regenerates, an answer with a break of character is     *)
(* delivered only when the attempts are used up, and marked; one without   *)
(* is not marked, whatever was cut off.                                    *)
BreaksAreMarked ==
  \A c \in Calls : Answered(c) /\ engine.regenerate =>
    /\ turn[c].meta.broke <=> Breaks(turn[c].text)
    /\ turn[c].meta.broke => turn[c].meta.regenerations = MaxAttempts - 1

(* Who is told of a timeout has had the time: the attempt's share of the   *)
(* budget is used up, through all retries and operations on the socket.    *)
TimeoutsAreReal ==
  [][\A c \in Calls :
       job[c].at # "close" /\ job'[c].at = "close" /\ job'[c].status = "timeout"
         => job[c].att = 0]_vars

(* The trailing metadata of a call that no other call overlapped are its   *)
(* own: the usage of its last stream_chat or none, and the attempts of it. *)
(* (The workers share one client; of overlapping calls nothing is known.)  *)
LoneCallsAreMetered ==
  [][\A c \in Calls :
       job[c].at = "close" /\ job[c].alone /\ job'[c].at = "done" /\ Waiting(c) =>
         /\ job'[c].status = "ok" =>
              job'[c].meta.attempts = IF job[c].retried THEN 2 ELSE 1
         /\ job'[c].meta.usage = IF job[c].told THEN c ELSE Nobody]_vars

(* The split of the budget: as long as each attempt ends within its share, *)
(* a regeneration starts before the deadline of the round.                 *)
RegenerationHasTime ==
  [][\A c \in Calls :
       job'[c].chats > job[c].chats /\ job[c].chats > 0 /\ ~job[c].overrun
         => job[c].left > 0]_vars

(* The work for a call is cancelled when its RPC ends                      *)
(* (docs/REVISION_CAMBIO_API.md:19).                                       *)
WorkEndsWithTheRpc == \A c \in Calls : (turn[c].at = "failed") ~> (job[c].at = "done")

=============================================================================
