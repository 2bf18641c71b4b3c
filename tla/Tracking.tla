------------------------------ MODULE Tracking ------------------------------
(***************************************************************************)
(* The run that MLflow gets of a game: src/orchestrator/tracking.py and    *)
(* the arithmetic of src/common/metrics.py.                                *)
(*                                                                         *)
(* One room is played to its end.  Each answer of the impostor that is     *)
(* published leaves the metadata of its call, unless the event sink raised *)
(* while it was published.  Then log_finished_game, once: one call of      *)
(* MLflow after the other, each of which may fail.  (Module Server has the *)
(* threads and the lock around this; here is what is computed and sent.)   *)
(*                                                                         *)
(* A rate is a pair <<hits, total>>; the quotient is not taken.            *)
(***************************************************************************)
EXTENDS Game

CONSTANTS
  Metadata,   \* what one call of the engine may report, see Reported
  MaxLost     \* bound: the answers whose metadata the sink's failure loses

Reported ==
  [wellFormed : BOOLEAN, prompt : Nat, completion : Nat, latency : Nat,
   broken : {0, 1}]

ASSUME TrackingAssumption == Metadata \subseteq Reported /\ MaxLost \in Nat

VARIABLES
  pairs,   \* _usage_by_room: the metadata of each answer, in order
  lost,    \* the answers published whose metadata were not recorded
  log      \* the call of log_game_run: at which point, and what MLflow has

trackingVars == <<game, pairs, lost, log>>

TrackingInit ==
  /\ Init
  /\ pairs = << >> /\ lost = 0
  /\ log = [at |-> "idle", status |-> "none", entries |-> << >>, broke |-> FALSE]

----------------------------------------------------------------------------
(* common/metrics.py                                                       *)

Rank95Faulty(n) == (95 * (n - 1)) \div 100 + 1

(* The index of the percentile, from 1: ceil(0.95 * n).                    *)
Rank95(n) == (95 * n + 99) \div 100

Precedes(s, p, q) == s[p] < s[q] \/ (s[p] = s[q] /\ p < q)

(* ordered[k]: the element with k - 1 before it, were s sorted.            *)
Nth(s, k) ==
  s[CHOOSE p \in DOMAIN s : Cardinality({q \in DOMAIN s : Precedes(s, q, p)}) = k - 1]

LatencyP95(s) == Nth(s, Rank95(Len(s)))

----------------------------------------------------------------------------
(* EngineUsage.from_trailing_metadata: counters are added up, latencies    *)
(* collected, calls is their number; one malformed value and all is lost.  *)

SumOf(f) == LET sum[n \in Nat] == IF n = 0 THEN 0 ELSE sum[n - 1] + f[n]
            IN sum[Len(f)]

Field(s, name) == [n \in DOMAIN s |-> s[n][name]]

NoUsage == [calls |-> 0, tokens |-> 0, breaks |-> 0, latencies |-> << >>]

UsageOf(s) ==
  [calls |-> Len(s),
   tokens |-> SumOf(Field(s, "prompt")) + SumOf(Field(s, "completion")),
   breaks |-> SumOf(Field(s, "broken")),
   latencies |-> Field(s, "latency")]

(* usage=None when no answer left metadata, or some of it is malformed.    *)
Usage(s) ==
  IF s # << >> /\ \A n \in DOMAIN s : s[n].wellFormed THEN UsageOf(s) ELSE NoUsage

----------------------------------------------------------------------------
(* _log_metrics: those that apply, in the order of the dictionary.         *)

Entry(name, value) == [name |-> name, value |-> value]

Only(condition, entry) == IF condition THEN <<entry>> ELSE << >>

FalseAccusations(g) ==
  <<Cardinality({v \in DOMAIN g.votes : g.votes[v] \notin Impostors(g)}),
    Cardinality(DOMAIN g.votes)>>

UsageMetrics(u) ==
  Only(u.calls > 0, Entry("tasa_ruptura_personaje", <<u.breaks, u.calls>>))
    \o Only(u.calls > 0, Entry("latencia_p95", LatencyP95(u.latencies)))
    \o Only(u.calls > 0, Entry("tokens_totales", u.tokens))

Metrics(g, u) ==
  Only(ValidGame(g) /\ DetectionRate(g)[2] > 0, Entry("tasa_deteccion", DetectionRate(g)))
    \o <<Entry("rondas_sobrevividas", Rounds)>>
    \o Only(FalseAccusations(g)[2] > 0, Entry("tasa_falsa_acusacion", FalseAccusations(g)))
    \o UsageMetrics(u)

(* Params and tags before the metrics; then the transcript without roles   *)
(* and the ballots.                                                        *)
Plan(g, u) ==
  <<Entry("params", Len(g.players)), Entry("tags", 0)>>
    \o Metrics(g, u)
    \o <<Entry("transcript_anonimo", g.messages), Entry("matriz_votos", g.votes)>>

----------------------------------------------------------------------------
(* The game is played: everything but the answers of the impostor.         *)

PlayersPlay ==
  /\ \/ \E ai \in BOOLEAN : Join(ai)
     \/ Begin
     \/ \E a \in Humans(game) : Say(a, "ok", game.round)
     \/ CallVote
     \/ \E v \in Humans(game), s \in Players(game) \cup {None} : Vote(v, s)
     \/ \E r \in TurnFailures : FailTurn(r)
     \/ Poll
     \/ Elapse
  /\ UNCHANGED <<pairs, lost, log>>

(* record_usage, when the answer is published.                             *)
ImpostorAnswers(m) ==
  /\ game.state = "ROUND" /\ ~Expired(game)
  /\ Humans(game) \subseteq SubmittedHumans(game)
  /\ \E a \in Impostors(game) : game' = SubmitMessage(game, a)
  /\ \/ pairs' = Append(pairs, m) /\ UNCHANGED lost
     \/ lost < MaxLost /\ lost' = lost + 1 /\ UNCHANGED pairs
  /\ UNCHANGED log

----------------------------------------------------------------------------
(* log_game_run: open a run, write, and close it whatever happened.        *)

StartRun ==
  /\ game.state = "REVEAL" /\ log.at = "idle"
  /\ \/ log' = [log EXCEPT !.at = "writing", !.status = "RUNNING"]
     \/ log' = [log EXCEPT !.at = "over", !.broke = TRUE]
  /\ UNCHANGED <<game, pairs, lost>>

NextEntry == Plan(game, Usage(pairs))[Len(log.entries) + 1]

WriteEntry ==
  /\ log.at = "writing"
  /\ Len(log.entries) < Len(Plan(game, Usage(pairs)))
  /\ log' = [log EXCEPT !.entries = Append(@, NextEntry)]
  /\ UNCHANGED <<game, pairs, lost>>

WriteFailsFaulty ==
  /\ log.at = "writing"
  /\ Len(log.entries) < Len(Plan(game, Usage(pairs)))
  /\ log' = [log EXCEPT !.at = "over"]
  /\ UNCHANGED <<game, pairs, lost>>

WriteFails ==
  /\ log.at = "writing"
  /\ Len(log.entries) < Len(Plan(game, Usage(pairs)))
  /\ log' = [log EXCEPT !.at = "closing"]
  /\ UNCHANGED <<game, pairs, lost>>

(* end_run, with the status it has by default: after a failure too.        *)
EndRun ==
  /\ \/ log.at = "closing"
     \/ log.at = "writing" /\ Len(log.entries) = Len(Plan(game, Usage(pairs)))
  /\ \/ log' = [log EXCEPT !.at = "over", !.status = "FINISHED"]
     \/ log' = [log EXCEPT !.at = "over", !.broke = TRUE]
  /\ UNCHANGED <<game, pairs, lost>>

TrackingNext ==
  \/ PlayersPlay
  \/ \E m \in Metadata : ImpostorAnswers(m)
  \/ StartRun \/ WriteEntry \/ WriteFails \/ EndRun

TrackingSpec == TrackingInit /\ [][TrackingNext]_trackingVars

----------------------------------------------------------------------------
Written(name) == {n \in DOMAIN log.entries : log.entries[n].name = name}

ValueOf(name) == log.entries[CHOOSE n \in Written(name) : TRUE].value

RoundsAnswered ==
  {m.round : m \in {n \in game.messages : n.alias \in Impostors(game)}}

Accusers(suspects) == {v \in DOMAIN game.votes : game.votes[v] \in suspects}

Others == Players(game) \ Impostors(game)

(* The metrics of the votes bear each other out and the ballots: one is    *)
(* logged for a vote that was closed only; whoever named another player is *)
(* among the false accusations and whoever named the impostor is not; and  *)
(* both are shares of the humans.  Of those who named nobody it says       *)
(* nothing: see FalseAccusationsAreVotes.                                  *)
VotesAreMeasured ==
  /\ Written("tasa_deteccion") # {} =>
       /\ game.close # "none"
       /\ LET hits == ValueOf("tasa_deteccion")
          IN hits[1] <= hits[2] /\ hits[2] <= Cardinality(Humans(game))
  /\ Written("tasa_falsa_acusacion") # {} =>
       LET falses == ValueOf("tasa_falsa_acusacion")
       IN /\ falses[2] = Cardinality(Humans(game))
          /\ Cardinality(Accusers(Others)) <= falses[1]
          /\ falses[1] + Cardinality(Accusers(Impostors(game))) <= falses[2]
  /\ Written("tasa_deteccion") # {} /\ Written("tasa_falsa_acusacion") # {} =>
       LET hits == ValueOf("tasa_deteccion")
           falses == ValueOf("tasa_falsa_acusacion")
       IN hits[1] + falses[1] <= falses[2] /\ hits[2] <= falses[2]

(* The docstring of _false_accusation_rate (tracking.py:225): the rate is  *)
(* that of the votes directed at somebody who is not the impostor.  An     *)
(* abstention, which is None in the ballots, is directed at nobody.        *)
FalseAccusationsAreVotes ==
  Written("tasa_falsa_acusacion") # {} =>
    ValueOf("tasa_falsa_acusacion")[1] = Cardinality(Accusers(Others))

(* Those of the turns are about the answers the players have read: as many *)
(* calls as rounds the impostor answered, but for those the sink lost; a   *)
(* latency that one of them had, and that no answer exceeds but, in twenty,*)
(* one.                                                                    *)
TurnsAreMeasured ==
  /\ Len(pairs) + lost = Cardinality(RoundsAnswered)
  /\ Written("tasa_ruptura_personaje") # {} =>
       LET breaks == ValueOf("tasa_ruptura_personaje")
       IN breaks[1] <= breaks[2] /\ breaks[2] + lost = Cardinality(RoundsAnswered)
  /\ Written("latencia_p95") # {} =>
       LET p95 == ValueOf("latencia_p95")
           slower == {n \in DOMAIN pairs : pairs[n].latency > p95}
       IN /\ \E n \in DOMAIN pairs : pairs[n].latency = p95
          /\ 20 * Cardinality(slower) <= Len(pairs)
          /\ \A n \in DOMAIN pairs : pairs[n].latency < p95 =>
               20 * (Cardinality({q \in DOMAIN pairs : pairs[q].latency >= p95})) > Len(pairs)
  /\ Written("tokens_totales") # {} => Written("latencia_p95") # {}

MetricsTellTheGame == VotesAreMeasured /\ TurnsAreMeasured

(* A run that was opened is closed once log_game_run is over, unless the   *)
(* closing itself failed; nothing is written twice, and whoever finds the  *)
(* ballots in a run has its metrics whole: an interrupted log is a prefix. *)
RunsAreClosed ==
  /\ log.at = "over" => log.status = "FINISHED" \/ log.broke
  /\ log.at # "idle" => game.state = "REVEAL"
  /\ log.entries = SubSeq(Plan(game, Usage(pairs)), 1, Len(log.entries))
  /\ \A n, p \in DOMAIN log.entries : log.entries[n].name = log.entries[p].name => n = p

============================================================================
