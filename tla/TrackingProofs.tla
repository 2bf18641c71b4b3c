--------------------------- MODULE TrackingProofs ---------------------------
(***************************************************************************)
(* What MLflow gets of a game, for any number of rounds, players and lost  *)
(* answers: that the room of Tracking plays the game, that a run is closed *)
(* and holds a beginning of what was planned, each entry once, and that    *)
(* the metrics of the votes and of the turns tell the game they are of.    *)
(*                                                                         *)
(* What is planned does not change once the game is revealed, by           *)
(* RevealIsFinal of GameProofs, and its entries have the order of the      *)
(* names below: from both, what is in the run at any moment is known.  A   *)
(* sum is what the totals of ever longer beginnings agree on; that there   *)
(* are such totals, and that the sum of noughts and ones does not exceed   *)
(* their number, goes by CountingUp.  The percentile is chosen: that there *)
(* is an element of every rank to choose follows from no two having the    *)
(* same rank.                                                              *)
(***************************************************************************)
EXTENDS Tracking, GameProofs, WellFoundedInduction

USE RoundsAssumption, TimedAssumption, MaxPlayersAssumption, TrackingAssumption

(* The percentile is the element at ceil(0.95 * n), for every n: no latency *)
(* but one in twenty is above it (metrics.py:40).                          *)
THEOREM RankIsTheCeiling ==
  ASSUME NEW n \in Nat \ {0}
  PROVE  /\ Rank95(n) \in 1..n
         /\ 100 * Rank95(n) >= 95 * n /\ 100 * (Rank95(n) - 1) < 95 * n
         /\ 20 * (n - Rank95(n)) <= n
<1> DEFINE k == (95 * n + 99) \div 100
           r == (95 * n + 99) % 100
<1>1. k \in Int /\ r \in 0..99 /\ 95 * n + 99 = 100 * k + r
  OBVIOUS
<1> HIDE DEF k, r
<1>2. QED  BY <1>1 DEF Rank95, k

----------------------------------------------------------------------------
(* The room plays the game.                                                *)
LEMMA PlayingIsNext ==
  ASSUME Sound(game), [TrackingNext]_trackingVars
  PROVE  [Next]_game /\ Sound(game')
<1>1. CASE PlayersPlay
  <2>1. game.round \in 0..Rounds /\ "ok" \in Texts
    BY DEF Sound, Typed, GameType, Texts
  <2>2. \A a \in Humans(game) : a \in Aliases
    BY PlayersAreNumbered DEF Sound, Humans
  <2>3. Players(game) \subseteq Aliases
    BY PlayersAreNumbered DEF Sound
  <2>4. Next
    BY <1>1, <2>1, <2>2, <2>3 DEF PlayersPlay, Next
  <2>5. QED  BY <2>4, StepIsSound
<1>2. ASSUME NEW m \in Metadata, ImpostorAnswers(m)
      PROVE  [Next]_game /\ Sound(game')
  <2>1. PICK a \in Impostors(game) : game' = SubmitMessage(game, a)
    BY <1>2 DEF ImpostorAnswers
  <2>2. game.state = "ROUND" /\ ~RoundComplete(game, game.round) /\ Typed(game)
    BY <1>2 DEF ImpostorAnswers, Sound, RoundsInOrder
  <2>3. \A b \in Players(game) \ {a} : b \in Humans(game)
    <3>1. Cardinality(Impostors(game)) = 1
      BY <2>2 DEF Sound, FairRoster
    <3>2. PICK c : Impostors(game) = {c}
      BY <3>1, <2>2, PresenceIsFinite, FS_Singleton
    <3>3. QED  BY <3>2 DEF Impostors, Humans
  <2>4. Humans(game) \subseteq Answered(game, game.round)
    BY <1>2 DEF ImpostorAnswers, SubmittedHumans, Current, Answered
  <2>5. Answered(game, game.round) \subseteq Players(game)
    BY DEF Answered, Sound, RoundsInOrder
  <2>6. a \notin Answered(game, game.round)
    BY <2>2, <2>3, <2>4, <2>5 DEF RoundComplete
  <2>7. \A m1 \in Current(game) : m1.alias # a
    BY <2>6 DEF Current, Answered
  <2>8. CanSubmit(game, a, "ok", None) /\ CheckExpiration(game) = game
    BY <1>2, <2>2, <2>7 DEF CanSubmit, Impostors, ImpostorAnswers, CheckExpiration
  <2>9. Say(a, "ok", 0)
    BY <2>1, <2>8 DEF Say, None
  <2>10. a \in Aliases /\ "ok" \in Texts /\ 0 \in 0..Rounds
    BY PlayersAreNumbered DEF Sound, Impostors, Texts
  <2>11. Next
    BY <2>9, <2>10 DEF Next
  <2>12. QED  BY <2>11, StepIsSound
<1>3. CASE UNCHANGED game
  BY <1>3
<1>4. QED
  BY <1>1, <1>2, <1>3
     DEF TrackingNext, StartRun, WriteEntry, WriteFails, EndRun, trackingVars

(* The game whose run is logged is a game of module Game.                  *)
THEOREM TrackedRoomPlaysTheGame == TrackingSpec => Spec /\ []Sound(game)
<1>1. TrackingInit => Init /\ Sound(game)
  BY NewGameIsSound DEF TrackingInit, Init
<1>2. Sound(game) /\ [TrackingNext]_trackingVars => [Next]_game /\ Sound(game)'
  BY PlayingIsNext
<1>3. QED  BY <1>1, <1>2, PTL DEF TrackingSpec, Spec

----------------------------------------------------------------------------
(* The plan: its entries in the order of their names.                      *)
Number ==
  [params |-> 1, tags |-> 2, tasa_deteccion |-> 3, rondas_sobrevividas |-> 4,
   tasa_falsa_acusacion |-> 5, tasa_ruptura_personaje |-> 6, latencia_p95 |-> 7,
   tokens_totales |-> 8, transcript_anonimo |-> 9, matriz_votos |-> 10]

(* What an entry says of the game g, or of the usage u of its turns.       *)
Reports(e, g, u) ==
  /\ e.name = "tasa_deteccion" =>
       /\ ValidGame(g) /\ DetectionRate(g)[2] > 0
       /\ e.value = DetectionRate(g)
  /\ e.name = "tasa_falsa_acusacion" =>
       FalseAccusations(g)[2] > 0 /\ e.value = FalseAccusations(g)
  /\ e.name = "tasa_ruptura_personaje" => u.calls > 0 /\ e.value = <<u.breaks, u.calls>>
  /\ e.name = "latencia_p95" => u.calls > 0 /\ e.value = LatencyP95(u.latencies)
  /\ e.name = "tokens_totales" => u.calls > 0

(* The entries of s have the numbers from lo to hi, in their order, and    *)
(* the latency is one of them when there are calls to measure.             *)
Ordered(s, lo, hi, g, u) ==
  /\ \E S : s \in Seq(S)
  /\ \A n \in DOMAIN s : /\ Number[s[n].name] \in lo..hi
                         /\ Reports(s[n], g, u)
  /\ \A n, p \in DOMAIN s : n < p => Number[s[n].name] < Number[s[p].name]
  /\ 7 \in lo..hi /\ u.calls > 0 => \E n \in DOMAIN s : s[n].name = "latencia_p95"

LEMMA OneIsOrdered ==
  ASSUME NEW g, NEW u, NEW e, NEW lo \in Nat, NEW hi \in Nat,
         Number[e.name] \in lo..hi, Reports(e, g, u),
         7 \in lo..hi => e.name = "latencia_p95"
  PROVE  Ordered(<<e>>, lo, hi, g, u)
<1> DEFINE s == <<e>>
<1>1. s \in Seq({e}) /\ DOMAIN s = {1} /\ s[1] = e
  OBVIOUS
<1> HIDE DEF s
<1>2. Ordered(s, lo, hi, g, u)
  BY <1>1 DEF Ordered
<1>3. QED  BY <1>2 DEF s

LEMMA SomeAreOrdered ==
  ASSUME NEW g, NEW u, NEW b \in BOOLEAN, NEW e, NEW lo \in Nat, NEW hi \in Nat,
         Number[e.name] \in lo..hi, b => Reports(e, g, u),
         7 \in lo..hi => e.name = "latencia_p95" /\ (u.calls > 0 => b)
  PROVE  Ordered(Only(b, e), lo, hi, g, u)
<1>1. CASE b
  BY <1>1, OneIsOrdered DEF Only
<1>2. CASE ~b
  <2>1. Only(b, e) = << >>
    BY <1>2 DEF Only
  <2>2. << >> \in Seq({}) /\ DOMAIN << >> = {}
    OBVIOUS
  <2>3. ~(7 \in lo..hi /\ u.calls > 0)
    BY <1>2
  <2>4. Ordered(<< >>, lo, hi, g, u)
    BY <2>2, <2>3 DEF Ordered
  <2>5. QED  BY <2>1, <2>4
<1>3. QED  BY <1>1, <1>2

LEMMA BothAreOrdered ==
  ASSUME NEW g, NEW u, NEW s, NEW t, NEW lo \in Nat, NEW mid \in Nat, NEW hi \in Nat,
         lo <= mid, mid < hi,
         Ordered(s, lo, mid, g, u), Ordered(t, mid + 1, hi, g, u)
  PROVE  Ordered(s \o t, lo, hi, g, u)
<1>1. PICK S : s \in Seq(S)
  BY DEF Ordered
<1>2. PICK T : t \in Seq(T)
  BY DEF Ordered
<1>3. s \in Seq(S \cup T) /\ t \in Seq(S \cup T)
  BY <1>1, <1>2
<1> DEFINE c == s \o t
<1>4. /\ c \in Seq(S \cup T) /\ Len(c) = Len(s) + Len(t)
      /\ DOMAIN s = 1..Len(s) /\ DOMAIN t = 1..Len(t) /\ DOMAIN c = 1..Len(c)
      /\ Len(s) \in Nat /\ Len(t) \in Nat
      /\ \A n \in 1..Len(s) : c[n] = s[n]
      /\ \A n \in DOMAIN c : n > Len(s) => n - Len(s) \in DOMAIN t /\ c[n] = t[n - Len(s)]
      /\ \A n \in DOMAIN t : Len(s) + n \in DOMAIN c /\ c[Len(s) + n] = t[n]
  BY <1>3
<1> HIDE DEF c
<1>5. ASSUME NEW n \in DOMAIN c
      PROVE  /\ Number[c[n].name] \in lo..hi /\ Reports(c[n], g, u)
             /\ n <= Len(s) => Number[c[n].name] <= mid
             /\ n > Len(s) => Number[c[n].name] > mid
  <2>1. CASE n <= Len(s)
    <3>1. n \in DOMAIN s /\ c[n] = s[n]
      BY <1>4, <1>5, <2>1
    <3>2. Number[c[n].name] \in lo..mid /\ Reports(c[n], g, u)
      BY <3>1 DEF Ordered
    <3>3. QED  BY <3>2, <2>1, <1>4, <1>5
  <2>2. CASE n > Len(s)
    <3>1. n - Len(s) \in DOMAIN t /\ c[n] = t[n - Len(s)]
      BY <1>4, <1>5, <2>2
    <3>2. Number[c[n].name] \in (mid + 1)..hi /\ Reports(c[n], g, u)
      BY <3>1 DEF Ordered
    <3>3. QED  BY <3>2, <2>2, <1>4, <1>5
  <2>3. QED  BY <1>4, <1>5, <2>1, <2>2
<1>6. ASSUME NEW n \in DOMAIN c, NEW p \in DOMAIN c, n < p
      PROVE  Number[c[n].name] < Number[c[p].name]
  <2>1. n \in Nat /\ p \in Nat
    BY <1>4, <1>6
  <2>2. CASE p <= Len(s)
    <3>1. n \in DOMAIN s /\ p \in DOMAIN s /\ c[n] = s[n] /\ c[p] = s[p]
      BY <1>4, <1>6, <2>1, <2>2
    <3>2. QED  BY <1>6, <3>1 DEF Ordered
  <2>3. CASE n <= Len(s) /\ p > Len(s)
    <3>1. /\ Number[c[n].name] \in lo..hi /\ Number[c[p].name] \in lo..hi
          /\ Number[c[n].name] <= mid /\ Number[c[p].name] > mid
      BY <1>5, <1>6, <2>3
    <3>2. QED  BY <3>1
  <2>4. CASE n > Len(s) /\ p > Len(s)
    <3>1. /\ n - Len(s) \in DOMAIN t /\ p - Len(s) \in DOMAIN t
          /\ c[n] = t[n - Len(s)] /\ c[p] = t[p - Len(s)]
          /\ n - Len(s) < p - Len(s)
      BY <1>4, <1>6, <2>1, <2>4
    <3>2. QED  BY <3>1 DEF Ordered
  <2>5. QED  BY <1>4, <1>6, <2>1, <2>2, <2>3, <2>4
<1>7. ASSUME 7 \in lo..hi, u.calls > 0
      PROVE  \E n \in DOMAIN c : c[n].name = "latencia_p95"
  <2>1. CASE 7 \in lo..mid
    <3>1. PICK n \in DOMAIN s : s[n].name = "latencia_p95"
      BY <1>7, <2>1 DEF Ordered
    <3>2. n \in DOMAIN c /\ c[n] = s[n]
      BY <1>4
    <3>3. QED  BY <3>1, <3>2
  <2>2. CASE 7 \in (mid + 1)..hi
    <3>1. PICK n \in DOMAIN t : t[n].name = "latencia_p95"
      BY <1>7, <2>2 DEF Ordered
    <3>2. QED  BY <1>4, <3>1
  <2>3. QED  BY <1>7, <2>1, <2>2
<1>8. QED  BY <1>4, <1>5, <1>6, <1>7 DEF Ordered, c

LEMMA PlanIsOrdered ==
  ASSUME NEW g, NEW u
  PROVE  Ordered(Plan(g, u), 1, 10, g, u)
<1>1. /\ Number["params"] = 1 /\ Number["tags"] = 2 /\ Number["tasa_deteccion"] = 3
      /\ Number["rondas_sobrevividas"] = 4 /\ Number["tasa_falsa_acusacion"] = 5
      /\ Number["tasa_ruptura_personaje"] = 6 /\ Number["latencia_p95"] = 7
      /\ Number["tokens_totales"] = 8 /\ Number["transcript_anonimo"] = 9
      /\ Number["matriz_votos"] = 10
  BY DEF Number
<1>2. ASSUME NEW name, NEW value
      PROVE  /\ Entry(name, value).name = name /\ Entry(name, value).value = value
             /\ name \in {"params", "tags", "rondas_sobrevividas",
                         "transcript_anonimo", "matriz_votos"} =>
                  Reports(Entry(name, value), g, u)
  BY DEF Entry, Reports
<1>3. \A x, y : /\ Ordered(<<Entry("params", x)>>, 1, 1, g, u)
                /\ Ordered(<<Entry("tags", y)>>, 2, 2, g, u)
  BY <1>1, <1>2, OneIsOrdered
<1>4. \A x, y : Ordered(<<Entry("params", x), Entry("tags", y)>>, 1, 2, g, u)
  <2> TAKE x, y
  <2>1. <<Entry("params", x), Entry("tags", y)>>
          = <<Entry("params", x)>> \o <<Entry("tags", y)>>
    OBVIOUS
  <2>2. Ordered(<<Entry("params", x)>> \o <<Entry("tags", y)>>, 1, 2, g, u)
    BY <1>3, BothAreOrdered
  <2>3. QED  BY <2>1, <2>2
<1>5. \A x, y : Ordered(<<Entry("transcript_anonimo", x), Entry("matriz_votos", y)>>,
                        9, 10, g, u)
  <2> TAKE x, y
  <2>1. <<Entry("transcript_anonimo", x), Entry("matriz_votos", y)>>
          = <<Entry("transcript_anonimo", x)>> \o <<Entry("matriz_votos", y)>>
    OBVIOUS
  <2>2. /\ Ordered(<<Entry("transcript_anonimo", x)>>, 9, 9, g, u)
        /\ Ordered(<<Entry("matriz_votos", y)>>, 10, 10, g, u)
    BY <1>1, <1>2, OneIsOrdered
  <2>3. Ordered(<<Entry("transcript_anonimo", x)>> \o <<Entry("matriz_votos", y)>>,
                9, 10, g, u)
    BY <2>2, BothAreOrdered
  <2>4. QED  BY <2>1, <2>3
<1>6. Ordered(UsageMetrics(u), 6, 8, g, u)
  <2> DEFINE b == u.calls > 0
             x == Entry("tasa_ruptura_personaje", <<u.breaks, u.calls>>)
             y == Entry("latencia_p95", LatencyP95(u.latencies))
             z == Entry("tokens_totales", u.tokens)
  <2>1. /\ Number[x.name] \in 6..6 /\ (b => Reports(x, g, u))
        /\ Number[y.name] \in 7..7 /\ (b => Reports(y, g, u))
        /\ y.name = "latencia_p95"
        /\ Number[z.name] \in 8..8 /\ (b => Reports(z, g, u))
    BY <1>1, <1>2 DEF Reports
  <2>2. /\ UsageMetrics(u) = (Only(b, x) \o Only(b, y)) \o Only(b, z)
        /\ b \in BOOLEAN /\ (u.calls > 0 => b)
    BY DEF UsageMetrics
  <2> HIDE DEF x, y, z, b
  <2>3. /\ Ordered(Only(b, x), 6, 6, g, u) /\ Ordered(Only(b, y), 7, 7, g, u)
        /\ Ordered(Only(b, z), 8, 8, g, u)
    <3>1. /\ Number[x.name] \in 6..6 /\ Number[y.name] \in 7..7 /\ Number[z.name] \in 8..8
          /\ 7 \notin 6..6 /\ 7 \notin 8..8 /\ 6 \in Nat /\ 7 \in Nat /\ 8 \in Nat
      BY <2>1
    <3>2. Ordered(Only(b, x), 6, 6, g, u) /\ Ordered(Only(b, z), 8, 8, g, u)
      BY <2>1, <2>2, <3>1, SomeAreOrdered
    <3>3. Ordered(Only(b, y), 7, 7, g, u)
      BY <2>1, <2>2, <3>1, SomeAreOrdered
    <3>4. QED  BY <3>2, <3>3
  <2>4. Ordered(Only(b, x) \o Only(b, y), 6, 7, g, u)
    BY <2>3, BothAreOrdered
  <2>5. Ordered((Only(b, x) \o Only(b, y)) \o Only(b, z), 6, 8, g, u)
    BY <2>3, <2>4, BothAreOrdered
  <2>6. QED  BY <2>2, <2>5
<1>7. Ordered(Metrics(g, u), 3, 8, g, u)
  <2> DEFINE b == ValidGame(g) /\ DetectionRate(g)[2] > 0
             c == FalseAccusations(g)[2] > 0
             x == Entry("tasa_deteccion", DetectionRate(g))
             y == Entry("rondas_sobrevividas", Rounds)
             z == Entry("tasa_falsa_acusacion", FalseAccusations(g))
  <2>1. /\ Number[x.name] \in 3..3 /\ (b => Reports(x, g, u))
        /\ Number[y.name] \in 4..4 /\ Reports(y, g, u)
        /\ Number[z.name] \in 5..5 /\ (c => Reports(z, g, u))
    BY <1>1, <1>2 DEF Reports
  <2>2. /\ Metrics(g, u)
             = ((Only(b, x) \o <<y>>) \o Only(c, z)) \o UsageMetrics(u)
        /\ b \in BOOLEAN /\ c \in BOOLEAN
    BY DEF Metrics, ValidGame
  <2> HIDE DEF x, y, z, b, c
  <2>3. /\ Ordered(Only(b, x), 3, 3, g, u) /\ Ordered(<<y>>, 4, 4, g, u)
        /\ Ordered(Only(c, z), 5, 5, g, u)
    <3>1. /\ 7 \notin 3..3 /\ 7 \notin 4..4 /\ 7 \notin 5..5
          /\ 3 \in Nat /\ 4 \in Nat /\ 5 \in Nat
      OBVIOUS
    <3>2. Ordered(Only(b, x), 3, 3, g, u)
      BY <2>1, <2>2, <3>1, SomeAreOrdered
    <3>3. Ordered(Only(c, z), 5, 5, g, u)
      BY <2>1, <2>2, <3>1, SomeAreOrdered
    <3>4. Ordered(<<y>>, 4, 4, g, u)
      BY <2>1, <3>1, OneIsOrdered
    <3>5. QED  BY <3>2, <3>3, <3>4
  <2>4. Ordered(Only(b, x) \o <<y>>, 3, 4, g, u)
    BY <2>3, BothAreOrdered
  <2>5. Ordered((Only(b, x) \o <<y>>) \o Only(c, z), 3, 5, g, u)
    BY <2>3, <2>4, BothAreOrdered
  <2>6. Ordered(((Only(b, x) \o <<y>>) \o Only(c, z)) \o UsageMetrics(u), 3, 8, g, u)
    BY <1>6, <2>5, BothAreOrdered
  <2>7. QED  BY <2>2, <2>6
<1>8. QED
  <2> DEFINE x == <<Entry("params", Len(g.players)), Entry("tags", 0)>>
             y == Metrics(g, u)
             z == <<Entry("transcript_anonimo", g.messages),
                    Entry("matriz_votos", g.votes)>>
  <2>1. Plan(g, u) = (x \o y) \o z
    BY DEF Plan
  <2>2. Ordered(x, 1, 2, g, u) /\ Ordered(y, 3, 8, g, u) /\ Ordered(z, 9, 10, g, u)
    BY <1>4, <1>5, <1>7
  <2> HIDE DEF x, y, z
  <2>3. Ordered(x \o y, 1, 8, g, u)
    BY <2>2, BothAreOrdered
  <2>4. Ordered((x \o y) \o z, 1, 10, g, u)
    BY <2>2, <2>3, BothAreOrdered
  <2>5. QED  BY <2>1, <2>4

----------------------------------------------------------------------------
(* The run.                                                                *)
TheRun == Plan(game, Usage(pairs))

Logged ==
  /\ log.at \in {"idle", "writing", "closing", "over"}
  /\ log = [at |-> log.at, status |-> log.status, entries |-> log.entries,
            broke |-> log.broke]
  /\ log.at # "idle" => game.state = "REVEAL"
  /\ log.at = "idle" => log.entries = << >>
  /\ log.at = "over" => log.status = "FINISHED" \/ log.broke
  /\ Len(log.entries) \in 0..Len(TheRun)
  /\ log.entries = SubSeq(TheRun, 1, Len(log.entries))

LEMMA PlanIsASequence ==
  ASSUME NEW g, NEW u
  PROVE  /\ \E S : Plan(g, u) \in Seq(S)
         /\ Len(Plan(g, u)) \in Nat
         /\ SubSeq(Plan(g, u), 1, 0) = << >>
<1>1. PICK S : Plan(g, u) \in Seq(S)
  BY PlanIsOrdered DEF Ordered
<1> DEFINE p == Plan(g, u)
<1> HIDE DEF p
<1>2. p \in Seq(S) => Len(p) \in Nat /\ SubSeq(p, 1, 0) = << >>
  OBVIOUS
<1>3. QED  BY <1>1, <1>2 DEF p

(* A prefix and the next element make the next prefix.                     *)
LEMMA PrefixGrows ==
  ASSUME NEW S, NEW s \in Seq(S), NEW n \in 0..(Len(s) - 1)
  PROVE  /\ Append(SubSeq(s, 1, n), s[n + 1]) = SubSeq(s, 1, n + 1)
         /\ Len(SubSeq(s, 1, n + 1)) = n + 1
  OBVIOUS

LEMMA NothingIsLogged ==
  ASSUME TrackingInit  PROVE Logged
<1>1. /\ log = [at |-> "idle", status |-> "none", entries |-> << >>, broke |-> FALSE]
      /\ Len(log.entries) = 0
  BY DEF TrackingInit
<1>2. Len(TheRun) \in Nat /\ SubSeq(TheRun, 1, 0) = << >>
  BY PlanIsASequence DEF TheRun
<1>3. QED  BY <1>1, <1>2 DEF Logged

LEMMA LoggingGoesOn ==
  ASSUME Sound(game), Logged, [TrackingNext]_trackingVars
  PROVE  Logged'
<1>1. \/ TheRun' = TheRun /\ (game.state = "REVEAL" => game'.state = "REVEAL")
      \/ log.at = "idle" /\ UNCHANGED log
  <2>1. CASE log.at = "idle"
    <3>1. CASE UNCHANGED log
      BY <2>1, <3>1
    <3>2. CASE ~UNCHANGED log
      <4>1. UNCHANGED <<game, pairs>>
        BY <3>2 DEF TrackingNext, PlayersPlay, ImpostorAnswers, StartRun, WriteEntry,
           WriteFails, EndRun, trackingVars
      <4>2. QED  BY <4>1 DEF TheRun
    <3>3. QED  BY <3>1, <3>2
  <2>2. CASE log.at # "idle"
    <3>1. game.state = "REVEAL"
      BY <2>2 DEF Logged
    <3>2. game' = game
      BY <3>1, PlayingIsNext, RevealIsFinal
    <3>3. pairs' = pairs
      BY <3>1 DEF TrackingNext, PlayersPlay, ImpostorAnswers, StartRun, WriteEntry,
         WriteFails, EndRun, trackingVars
    <3>4. QED  BY <3>2, <3>3 DEF TheRun
  <2>3. QED  BY <2>1, <2>2
<1>2. CASE UNCHANGED log
  <2>1. CASE log.at = "idle"
    <3>1. /\ Len(TheRun') \in Nat
          /\ SubSeq(TheRun', 1, 0) = << >>
      BY PlanIsASequence DEF TheRun
    <3>2. Len(log.entries) = 0 /\ log.entries = << >>
      BY <2>1 DEF Logged
    <3>3. QED  BY <1>2, <2>1, <3>1, <3>2 DEF Logged
  <2>2. CASE log.at # "idle"
    BY <1>1, <1>2, <2>2 DEF Logged
  <2>3. QED  BY <2>1, <2>2
<1>3. CASE ~UNCHANGED log
  <2>1. TheRun' = TheRun /\ game' = game
    BY <1>3 DEF TheRun, TrackingNext, PlayersPlay, ImpostorAnswers, StartRun,
       WriteEntry, WriteFails, EndRun, trackingVars
  <2>2. CASE StartRun
    BY <2>1, <2>2 DEF StartRun, Logged
  <2>3. CASE WriteEntry
    <3>1. PICK S : TheRun \in Seq(S)
      BY PlanIsASequence DEF TheRun
    <3>2. /\ log.at = "writing" /\ Len(log.entries) < Len(TheRun)
          /\ log'.entries = Append(log.entries, TheRun[Len(log.entries) + 1])
          /\ log' = [at |-> log.at, status |-> log.status, entries |-> log'.entries,
                     broke |-> log.broke]
      BY <2>3 DEF WriteEntry, NextEntry, TheRun, Logged
    <3> DEFINE n == Len(log.entries)
               s == TheRun
    <3>3. s \in Seq(S) /\ n \in 0..(Len(s) - 1) /\ log.entries = SubSeq(s, 1, n)
      BY <3>1, <3>2 DEF Logged
    <3>4. log'.entries = Append(SubSeq(s, 1, n), s[n + 1])
      BY <3>2, <3>3
    <3> HIDE DEF n, s
    <3>5. log'.entries = SubSeq(s, 1, n + 1) /\ Len(log'.entries) = n + 1
      BY <3>3, <3>4, PrefixGrows
    <3>6. n + 1 \in 0..Len(s)
      BY <3>1, <3>3
    <3>7. QED  BY <2>1, <3>2, <3>5, <3>6 DEF Logged, s
  <2>4. CASE WriteFails
    BY <2>1, <2>4 DEF WriteFails, Logged
  <2>5. CASE EndRun
    BY <2>1, <2>5 DEF EndRun, Logged
  <2>6. QED
    BY <1>3, <2>2, <2>3, <2>4, <2>5
       DEF TrackingNext, PlayersPlay, ImpostorAnswers, trackingVars
<1>4. QED  BY <1>2, <1>3

(* Whatever is in the run is in the plan, at the same place.               *)
LEMMA TheRunIsPlanned ==
  ASSUME Logged, NEW n \in DOMAIN log.entries
  PROVE  n \in DOMAIN TheRun /\ log.entries[n] = TheRun[n]
<1>1. PICK S : TheRun \in Seq(S)
  BY PlanIsASequence DEF TheRun
<1> DEFINE l == Len(log.entries)
           s == TheRun
           e == log.entries
<1>2. s \in Seq(S) /\ l \in 0..Len(s) /\ e = SubSeq(s, 1, l) /\ n \in DOMAIN e
  BY <1>1 DEF Logged
<1> HIDE DEF s, e, l
<1>3. n \in DOMAIN s /\ e[n] = s[n]
  BY <1>2
<1>4. QED  BY <1>3 DEF s, e

(* A run that was opened is closed, unless closing it failed, and holds a  *)
(* prefix of what was planned, each entry once (tracking.py:86-114).       *)
THEOREM RunsEndClosed == TrackingSpec => []RunsAreClosed
<1>1. TrackingInit => Logged
  BY NothingIsLogged
<1>2. Sound(game) /\ Logged /\ [TrackingNext]_trackingVars => Logged'
  BY LoggingGoesOn
<1>3. Logged => RunsAreClosed
  <2> SUFFICES ASSUME Logged  PROVE RunsAreClosed
    OBVIOUS
  <2>1. Ordered(TheRun, 1, 10, game, Usage(pairs))
    BY PlanIsOrdered DEF TheRun
  <2>2. ASSUME NEW n \in DOMAIN log.entries, NEW p \in DOMAIN log.entries,
               log.entries[n].name = log.entries[p].name
        PROVE  n = p
    <3>1. /\ n \in DOMAIN TheRun /\ p \in DOMAIN TheRun
          /\ TheRun[n].name = TheRun[p].name
      BY <2>2, TheRunIsPlanned
    <3>2. PICK S : TheRun \in Seq(S)
      BY <2>1 DEF Ordered
    <3>3. n \in Nat /\ p \in Nat
      BY <3>1, <3>2
    <3>4. /\ n < p => Number[TheRun[n].name] < Number[TheRun[p].name]
          /\ p < n => Number[TheRun[p].name] < Number[TheRun[n].name]
          /\ Number[TheRun[n].name] \in 1..10
      BY <2>1, <3>1 DEF Ordered
    <3>5. QED  BY <3>1, <3>3, <3>4
  <2>3. QED  BY <2>2 DEF Logged, RunsAreClosed, TheRun
<1>4. QED
  BY <1>1, <1>2, <1>3, TrackedRoomPlaysTheGame, PTL DEF TrackingSpec

----------------------------------------------------------------------------
(* The metrics of the votes.                                               *)

Named(g, suspects) == {v \in DOMAIN g.votes : g.votes[v] \in suspects}

LEMMA VotesAddUp ==
  ASSUME NEW g, Sound(g), g.state = "REVEAL"
  PROVE  LET hits == DetectionRate(g)
             falses == FalseAccusations(g)
         IN /\ hits \in Nat \X Nat /\ falses \in Nat \X Nat
            /\ hits[1] <= hits[2] /\ hits[2] <= falses[2]
            /\ hits[1] + falses[1] <= falses[2]
            /\ Cardinality(Named(g, Players(g) \ Impostors(g))) <= falses[1]
            /\ falses[1] + Cardinality(Named(g, Impostors(g))) <= falses[2]
            /\ falses[2] > 0 => falses[2] = Cardinality(Humans(g))
            /\ ValidGame(g) => g.close # "none" /\ falses[2] = Cardinality(Humans(g))
<1> DEFINE V == DOMAIN g.votes
           S == Scorable(g)
           H == {a \in S : g.votes[a] \in Impostors(g)}
           F == {a \in V : g.votes[a] \notin Impostors(g)}
<1>1. /\ IsFiniteSet(V) /\ S \subseteq V /\ H \subseteq S /\ F \subseteq V
      /\ DetectionRate(g) = <<Cardinality(H), Cardinality(S)>>
      /\ FalseAccusations(g) = <<Cardinality(F), Cardinality(V)>>
  BY PresenceIsFinite DEF Sound, Scorable, DetectionRate, FalseAccusations
<1>2. /\ H = V \ F /\ Named(g, Impostors(g)) = V \ F
      /\ Named(g, Players(g) \ Impostors(g)) \subseteq F
  <2>1. None \notin Impostors(g)
    BY PlayersAreNumbered DEF Sound, Impostors, None
  <2>2. QED  BY <2>1 DEF Scorable, Named
<1>3. V # {} \/ ValidGame(g) => V = Humans(g)
  BY DEF Sound, Typed, GameType, ReasonHasEvidence, ValidGame, Interruptions
<1>4. ValidGame(g) => g.close # "none"
  BY DEF Sound, ReasonHasEvidence, ValidGame
<1> HIDE DEF V, S, H, F
<1>5. /\ IsFiniteSet(S) /\ IsFiniteSet(H) /\ IsFiniteSet(F)
      /\ Cardinality(V) \in Nat /\ Cardinality(S) \in Nat
      /\ Cardinality(H) \in Nat /\ Cardinality(F) \in Nat
      /\ Cardinality(H) <= Cardinality(S) /\ Cardinality(S) <= Cardinality(V)
  BY <1>1, FS_Subset, FS_CardinalityType
<1>6. Cardinality(V \ F) = Cardinality(V) - Cardinality(F)
  <2>1. V \cap F = F
    BY <1>1
  <2>2. QED  BY <1>1, <2>1, FS_Difference, ZenonT(60)
<1>9. Cardinality(Named(g, Players(g) \ Impostors(g))) <= Cardinality(F)
  BY <1>2, <1>5, FS_Subset
<1>7. Cardinality(V) > 0 => V # {}
  BY FS_EmptySet
<1>8. QED  BY <1>1, <1>2, <1>3, <1>4, <1>5, <1>6, <1>7, <1>9 DEF V

(* Whatever has a value in the run reports of the game and of its turns.   *)
LEMMA ValuesAreReported ==
  ASSUME Logged, NEW name, Written(name) # {}
  PROVE  /\ game.state = "REVEAL"
         /\ \E n \in DOMAIN log.entries :
              /\ n \in DOMAIN TheRun /\ TheRun[n].name = name
              /\ ValueOf(name) = TheRun[n].value
              /\ Reports(TheRun[n], game, Usage(pairs))
<1>1. Ordered(TheRun, 1, 10, game, Usage(pairs))
  BY PlanIsOrdered DEF TheRun
<1>2. PICK n \in Written(name) : ValueOf(name) = log.entries[n].value
  BY DEF ValueOf
<1>3. n \in DOMAIN log.entries /\ log.entries[n].name = name
  BY <1>2 DEF Written
<1>4. n \in DOMAIN TheRun /\ log.entries[n] = TheRun[n]
  BY <1>3, TheRunIsPlanned
<1>5. log.entries # << >>
  BY <1>3
<1>6. QED  BY <1>1, <1>2, <1>3, <1>4, <1>5 DEF Ordered, Logged

(* The metrics of the votes bear each other out and the game, whatever is  *)
(* in the run when MLflow fails (tracking.py:192-240).                     *)
THEOREM VotesAreWellMeasured == TrackingSpec => []VotesAreMeasured
<1>1. Sound(game) /\ Logged => VotesAreMeasured
  <2> SUFFICES ASSUME Sound(game), Logged  PROVE VotesAreMeasured
    OBVIOUS
  <2>1. Written("tasa_deteccion") # {} =>
          /\ game.state = "REVEAL" /\ ValidGame(game)
          /\ ValueOf("tasa_deteccion") = DetectionRate(game)
    BY ValuesAreReported DEF Reports
  <2>2. Written("tasa_falsa_acusacion") # {} =>
          /\ game.state = "REVEAL" /\ FalseAccusations(game)[2] > 0
          /\ ValueOf("tasa_falsa_acusacion") = FalseAccusations(game)
    BY ValuesAreReported DEF Reports
  <2> DEFINE hits == DetectionRate(game)
             falses == FalseAccusations(game)
  <2>3. game.state = "REVEAL" =>
          /\ hits \in Nat \X Nat /\ falses \in Nat \X Nat
          /\ hits[1] <= hits[2] /\ hits[2] <= falses[2]
          /\ hits[1] + falses[1] <= falses[2]
          /\ Cardinality(Accusers(Others)) <= falses[1]
          /\ falses[1] + Cardinality(Accusers(Impostors(game))) <= falses[2]
          /\ falses[2] > 0 => falses[2] = Cardinality(Humans(game))
          /\ ValidGame(game) =>
               game.close # "none" /\ falses[2] = Cardinality(Humans(game))
    BY VotesAddUp DEF Named, Accusers, Others
  <2> HIDE DEF hits, falses
  <2>4. QED
    BY <2>1, <2>2, <2>3 DEF VotesAreMeasured, hits, falses
<1>2. TrackingInit => Logged
  BY NothingIsLogged
<1>3. Sound(game) /\ Logged /\ [TrackingNext]_trackingVars => Logged'
  BY LoggingGoesOn
<1>4. QED
  BY <1>1, <1>2, <1>3, TrackedRoomPlaysTheGame, PTL DEF TrackingSpec

----------------------------------------------------------------------------
(* The answers of the impostor and the metadata they left.                 *)

(* A message of the players is of a human, in a round that is open.        *)
LEMMA PlayersSpeakForThemselves ==
  ASSUME Sound(game), PlayersPlay
  PROVE  \/ game'.messages = game.messages
         \/ /\ game.state = "ROUND" /\ game'.players = game.players
            /\ \E a \in Humans(game) :
                 game'.messages = game.messages \cup {[round |-> game.round, alias |-> a]}
<1>1. CASE Expired(game)
  <2>1. Next
    <3>1. game.round \in 0..Rounds /\ "ok" \in Texts
      BY DEF Sound, Typed, GameType, Texts
    <3>2. Players(game) \subseteq Aliases /\ Humans(game) \subseteq Players(game)
      BY PlayersAreNumbered DEF Sound, Humans
    <3>3. QED  BY <3>1, <3>2 DEF PlayersPlay, Next
  <2>2. QED  BY <1>1, <2>1, NobodyIsHeardLate
<1>2. CASE ~Expired(game)
  <2>1. CheckExpiration(game) = game /\ game \in GameType
    BY <1>2 DEF CheckExpiration, Sound, Typed
  <2>2. CASE (\E ai \in BOOLEAN : Join(ai)) \/ Begin \/ Elapse \/ Poll
    BY <2>1, <2>2 DEF Join, AddPlayer, Begin, Start, Emit, SetDeadline, Elapse, Poll, GameType
  <2>3. CASE CallVote
    <3>1. OpenBallot(game).messages = game.messages
      BY <2>1 DEF OpenBallot, SetDeadline, GameType
    <3>2. QED  BY <2>1, <2>3, <3>1 DEF CallVote
  <2>4. ASSUME NEW v, NEW w, Vote(v, w)  PROVE game'.messages = game.messages
    <3>1. CastVote(game, v, w).messages = game.messages
      BY <2>1 DEF CastVote, CompleteReveal, EmitClose, Emit, GameType
    <3>2. QED  BY <2>1, <2>4, <3>1 DEF Vote
  <2>5. ASSUME NEW r, FailTurn(r)  PROVE game'.messages = game.messages
    BY <2>1, <2>5 DEF FailTurn, Interrupt, EmitClose, Emit, GameType
  <2>6. ASSUME NEW a \in Humans(game), Say(a, "ok", game.round), game' # game
        PROVE  /\ game.state = "ROUND" /\ game'.players = game.players
               /\ game'.messages = game.messages \cup {[round |-> game.round, alias |-> a]}
    <3>1. game' = SubmitMessage(game, a) /\ game.state = "ROUND"
      BY <2>1, <2>6 DEF Say, CanSubmit
    <3>2. /\ SubmitMessage(game, a).players = game.players
          /\ SubmitMessage(game, a).messages
               = game.messages \cup {[round |-> game.round, alias |-> a]}
      BY <2>1 DEF SubmitMessage, NextRound, EndRounds, Emit, SetDeadline, GameType
    <3>3. QED  BY <3>1, <3>2
  <2>7. QED  BY <2>2, <2>3, <2>4, <2>5, <2>6 DEF PlayersPlay
<1>3. QED  BY <1>1, <1>2

RoundsOf(g) == {m.round : m \in {n \in g.messages : n.alias \in Impostors(g)}}

LEMMA RoundsAreFinite ==
  ASSUME NEW g, Sound(g)
  PROVE  /\ RoundsOf(g) \subseteq 1..Rounds /\ IsFiniteSet(RoundsOf(g))
         /\ Cardinality(RoundsOf(g)) \in Nat
<1>1. RoundsOf(g) \subseteq 1..Rounds
  BY DEF RoundsOf, Sound, Typed, GameType, Message
<1>2. IsFiniteSet(1..Rounds)
  BY FS_Interval
<1>3. QED  BY <1>1, <1>2, FS_Subset, FS_CardinalityType

(* The players do not answer for the impostor ...                          *)
LEMMA PlayersAnswerNothing ==
  ASSUME Sound(game), PlayersPlay
  PROVE  RoundsOf(game') = RoundsOf(game)
<1>1. [Next]_game /\ Sound(game')
  BY PlayingIsNext DEF TrackingNext
<1>2. CASE game.state = "LOBBY"
  <2>1. game.messages = {}
    BY <1>2 DEF Sound, Unbegun
  <2>2. game'.messages = {}
    BY <1>2, <2>1, PlayersSpeakForThemselves
  <2>3. QED  BY <2>1, <2>2 DEF RoundsOf
<1>3. CASE game.state # "LOBBY"
  <2>1. game'.players = game.players
    BY <1>1, <1>3, EveryStep DEF Stepped, Remembers
  <2>2. Impostors(game') = Impostors(game)
    BY <2>1 DEF Impostors, Players
  <2>3. CASE game'.messages = game.messages
    BY <2>2, <2>3 DEF RoundsOf
  <2>4. ASSUME NEW a \in Humans(game),
               game'.messages = game.messages \cup {[round |-> game.round, alias |-> a]}
        PROVE  RoundsOf(game') = RoundsOf(game)
    <3> DEFINE m == [round |-> game.round, alias |-> a]
    <3>1. m.alias \notin Impostors(game)
      BY DEF Humans, Impostors
    <3> HIDE DEF m
    <3>2. {n \in game'.messages : n.alias \in Impostors(game')}
            = {n \in game.messages : n.alias \in Impostors(game)}
      BY <2>2, <2>4, <3>1 DEF m
    <3>3. QED  BY <3>2 DEF RoundsOf
  <2>5. QED  BY <2>3, <2>4, PlayersSpeakForThemselves
<1>4. QED  BY <1>2, <1>3

(* ... and an answer of the impostor is that of one more round.            *)
LEMMA AnswersAreOnePerRound ==
  ASSUME Sound(game), NEW m, ImpostorAnswers(m)
  PROVE  Cardinality(RoundsOf(game')) = Cardinality(RoundsOf(game)) + 1
<1>1. PICK a \in Impostors(game) : game' = SubmitMessage(game, a)
  BY DEF ImpostorAnswers
<1>2. /\ game.state = "ROUND" /\ ~RoundComplete(game, game.round) /\ Typed(game)
      /\ game \in GameType
  BY DEF ImpostorAnswers, Sound, RoundsInOrder, Typed
<1> DEFINE new == [round |-> game.round, alias |-> a]
<1>3. /\ game'.players = game.players
      /\ game'.messages = game.messages \cup {new}
  BY <1>1, <1>2 DEF SubmitMessage, NextRound, EndRounds, Emit, SetDeadline, GameType
<1>4. Impostors(game') = Impostors(game)
  BY <1>3 DEF Impostors, Players
<1>5. Impostors(game) = {a}
  <2>1. Cardinality(Impostors(game)) = 1
    BY <1>2 DEF Sound, FairRoster
  <2>2. PICK c : Impostors(game) = {c}
    BY <2>1, <1>2, PresenceIsFinite, FS_Singleton
  <2>3. QED  BY <2>2
<1>6. game.round \notin RoundsOf(game)
  <2>1. SUFFICES ASSUME game.round \in RoundsOf(game)  PROVE RoundComplete(game, game.round)
    BY <1>2
  <2>2. a \in Answered(game, game.round)
    BY <1>5, <2>1 DEF RoundsOf, Answered
  <2>3. Humans(game) \subseteq Answered(game, game.round)
    BY DEF ImpostorAnswers, SubmittedHumans, Current, Answered
  <2>4. Answered(game, game.round) \subseteq Players(game)
    BY DEF Answered, Sound, RoundsInOrder
  <2>5. Players(game) = Humans(game) \cup {a}
    BY <1>5 DEF Humans, Impostors
  <2>6. QED  BY <2>2, <2>3, <2>4, <2>5 DEF RoundComplete
<1>7. RoundsOf(game') = RoundsOf(game) \cup {game.round}
  <2>1. new.round = game.round /\ new.alias = a
    OBVIOUS
  <2> HIDE DEF new
  <2>2. {n \in game'.messages : n.alias \in Impostors(game')}
          = {n \in game.messages : n.alias \in Impostors(game)} \cup {new}
    BY <1>3, <1>4, <1>5, <2>1
  <2>3. QED  BY <2>1, <2>2 DEF RoundsOf
<1>8. QED  BY <1>6, <1>7, RoundsAreFinite, FS_AddElement

Accounted ==
  /\ pairs \in Seq(Metadata) /\ lost \in Nat
  /\ Len(pairs) + lost = Cardinality(RoundsOf(game))

LEMMA AccountsStart ==
  ASSUME TrackingInit  PROVE Accounted
<1>1. RoundsOf(game) = {}
  BY DEF TrackingInit, Init, NewGame, RoundsOf
<1>2. pairs \in Seq(Metadata) /\ Len(pairs) = 0 /\ lost = 0
  BY DEF TrackingInit
<1>3. QED  BY <1>1, <1>2, FS_EmptySet DEF Accounted

LEMMA AccountsGoOn ==
  ASSUME Sound(game), Accounted, [TrackingNext]_trackingVars
  PROVE  Accounted'
<1>1. pairs \in Seq(Metadata) /\ Len(pairs) \in Nat /\ lost \in Nat
  BY DEF Accounted
<1>2. CASE PlayersPlay
  BY <1>2, PlayersAnswerNothing DEF PlayersPlay, Accounted
<1>3. ASSUME NEW m \in Metadata, ImpostorAnswers(m)  PROVE Accounted'
  <2>1. Cardinality(RoundsOf(game')) = Len(pairs) + lost + 1
    BY <1>3, AnswersAreOnePerRound DEF Accounted
  <2>2. \/ pairs' = Append(pairs, m) /\ lost' = lost
        \/ pairs' = pairs /\ lost' = lost + 1
    BY <1>3 DEF ImpostorAnswers
  <2>3. /\ pairs' \in Seq(Metadata) /\ lost' \in Nat
        /\ Len(pairs') + lost' = Len(pairs) + lost + 1
    <3>1. CASE pairs' = Append(pairs, m) /\ lost' = lost
      <4>1. Append(pairs, m) \in Seq(Metadata) /\ Len(Append(pairs, m)) = Len(pairs) + 1
        BY <1>1, <1>3
      <4>2. QED  BY <1>1, <3>1, <4>1
    <3>2. CASE pairs' = pairs /\ lost' = lost + 1
      BY <1>1, <3>2
    <3>3. QED  BY <2>2, <3>1, <3>2
  <2>4. QED  BY <2>1, <2>3 DEF Accounted
<1>4. CASE UNCHANGED <<game, pairs, lost>>
  BY <1>4 DEF Accounted
<1>5. QED
  BY <1>2, <1>3, <1>4
     DEF TrackingNext, StartRun, WriteEntry, WriteFails, EndRun, trackingVars

----------------------------------------------------------------------------
(* The sums.  Totals says that t holds the sums of the first i elements of *)
(* f, as far as n; sum[n] of SumOf is what all such functions agree on.    *)

(* A set that holds 0 and with each number its successor holds them all.   *)
LEMMA CountingUp ==
  ASSUME NEW S, 0 \in S, \A n \in Nat : n \in S => n + 1 \in S
  PROVE  Nat \subseteq S
<1> SUFFICES ASSUME Nat \ S # {}  PROVE FALSE
  OBVIOUS
<1> DEFINE R == {ss \in Nat \X Nat : ss[1] < ss[2]}
<1>1. IsWellFoundedOn(R, Nat)
  BY NatLessThanWellFounded DEF OpToRel
<1> HIDE DEF R
<1>2. PICK m \in Nat \ S : \A n \in Nat \ S : ~(<<n, m>> \in R)
  BY <1>1, WFMin
<1>3. \A n \in Nat \ S : ~(n < m)
  BY <1>2 DEF R
<1>4. m # 0 /\ m - 1 \in Nat /\ m - 1 \in S
  BY <1>2, <1>3
<1>5. (m - 1) + 1 \in S
  BY <1>4
<1>6. QED  BY <1>2, <1>5

Totals(t, f, n) == t = [i \in 0..n |-> IF i = 0 THEN 0 ELSE t[i - 1] + f[i]]

LEMMA TotalsExist ==
  ASSUME NEW f, NEW n \in Nat
  PROVE  \E t : Totals(t, f, n)
<1> DEFINE S == {k \in Nat : \E t : Totals(t, f, k)}
<1>1. 0 \in S
  <2> DEFINE t == [i \in 0..0 |-> 0]
  <2>1. t = [i \in 0..0 |-> IF i = 0 THEN 0 ELSE t[i - 1] + f[i]]
    OBVIOUS
  <2>2. QED  BY <2>1 DEF Totals
<1>2. ASSUME NEW k \in Nat, k \in S  PROVE k + 1 \in S
  <2>1. PICK t : Totals(t, f, k)
    BY <1>2
  <2> DEFINE last == t[k] + f[k + 1]
             h == [i \in 0..(k + 1) |-> IF i = k + 1 THEN last ELSE t[i]]
  <2>2. ASSUME NEW i \in 0..(k + 1)
        PROVE  h[i] = IF i = 0 THEN 0 ELSE h[i - 1] + f[i]
    <3>1. CASE i = k + 1
      <4>1. h[i] = last /\ i # 0 /\ i - 1 = k /\ i - 1 \in 0..(k + 1) /\ i - 1 # k + 1
        BY <3>1
      <4>2. h[i - 1] = t[i - 1]
        BY <4>1
      <4>3. QED  BY <3>1, <4>1, <4>2
    <3>2. CASE i # k + 1
      <4>1. i \in 0..k /\ h[i] = t[i]
        BY <3>2
      <4>2. t[i] = IF i = 0 THEN 0 ELSE t[i - 1] + f[i]
        BY <2>1, <4>1, Zenon DEF Totals
      <4>3. i # 0 => i - 1 \in 0..(k + 1) /\ i - 1 # k + 1
        BY <4>1
      <4>4. i # 0 => h[i - 1] = t[i - 1]
        BY <4>3
      <4>5. QED  BY <4>1, <4>2, <4>4, Zenon
    <3>3. QED  BY <3>1, <3>2
  <2>3. h = [i \in 0..(k + 1) |-> h[i]]
    OBVIOUS
  <2> HIDE DEF h
  <2>4. Totals(h, f, k + 1)
    BY <2>2, <2>3 DEF Totals
  <2>5. QED  BY <2>4
<1> HIDE DEF S
<1>3. Nat \subseteq S
  BY <1>1, <1>2, CountingUp
<1>4. n \in S
  BY <1>3
<1>5. QED  BY <1>4 DEF S

LEMMA TotalsAgree ==
  ASSUME NEW f, NEW n \in Nat, NEW m \in Nat, NEW t, NEW w,
         Totals(t, f, n), Totals(w, f, m), NEW k \in 0..n, k \in 0..m
  PROVE  t[k] = w[k]
<1> DEFINE S == {i \in Nat : i \in 0..n /\ i \in 0..m => t[i] = w[i]}
<1>1. 0 \in S
  <2>1. 0 \in 0..n /\ 0 \in 0..m
    OBVIOUS
  <2>2. t[0] = 0 /\ w[0] = 0
    BY <2>1, Zenon DEF Totals
  <2>3. QED  BY <2>2
<1>2. ASSUME NEW i \in Nat, i \in S  PROVE i + 1 \in S
  <2>1. SUFFICES ASSUME i + 1 \in 0..n, i + 1 \in 0..m  PROVE t[i + 1] = w[i + 1]
    OBVIOUS
  <2>2. /\ t[i + 1] = IF i + 1 = 0 THEN 0 ELSE t[(i + 1) - 1] + f[i + 1]
        /\ w[i + 1] = IF i + 1 = 0 THEN 0 ELSE w[(i + 1) - 1] + f[i + 1]
    BY <2>1, Zenon DEF Totals
  <2>3. t[i] = w[i] /\ (i + 1) - 1 = i
    BY <1>2, <2>1
  <2>4. QED  BY <2>2, <2>3, Zenon
<1> HIDE DEF S
<1>3. Nat \subseteq S
  BY <1>1, <1>2, CountingUp
<1>4. k \in S
  BY <1>3
<1>5. QED  BY <1>4 DEF S

TotalsOf(f, n) == CHOOSE t : Totals(t, f, n)

(* What SumOf computes.                                                    *)
LEMMA SumsAddUp ==
  ASSUME NEW f
  PROVE  \E sum : /\ sum[0] = 0
                  /\ \A n \in Nat : sum[n + 1] = sum[n] + f[n + 1]
                  /\ SumOf(f) = sum[Len(f)]
<1> DEFINE w == [n \in Nat |-> TotalsOf(f, n)[n]]
<1>1. \A n \in Nat : Totals(TotalsOf(f, n), f, n)
  BY TotalsExist DEF TotalsOf
<1>2. w = [n \in Nat |-> w[n]] /\ \A n \in Nat : w[n] = TotalsOf(f, n)[n]
  OBVIOUS
<1> HIDE DEF w
<1>3. ASSUME NEW n \in Nat
      PROVE  w[n] = IF n = 0 THEN 0 ELSE w[n - 1] + f[n]
  <2>1. n \in 0..n /\ w[n] = TotalsOf(f, n)[n]
    BY <1>2
  <2>2. TotalsOf(f, n)[n] = IF n = 0 THEN 0 ELSE TotalsOf(f, n)[n - 1] + f[n]
    <3> DEFINE t == TotalsOf(f, n)
    <3>1. Totals(t, f, n)
      BY <1>1
    <3> HIDE DEF t
    <3>2. t[n] = IF n = 0 THEN 0 ELSE t[n - 1] + f[n]
      BY <2>1, <3>1, Zenon DEF Totals
    <3>3. QED  BY <3>2 DEF t
  <2>3. CASE n = 0
    BY <2>1, <2>2, <2>3, Zenon
  <2>4. CASE n # 0
    <3>1. n - 1 \in Nat /\ n - 1 \in 0..n /\ n - 1 \in 0..(n - 1)
      BY <2>4
    <3>2. TotalsOf(f, n)[n - 1] = TotalsOf(f, n - 1)[n - 1]
      BY <1>1, <3>1, TotalsAgree
    <3>3. w[n - 1] = TotalsOf(f, n - 1)[n - 1]
      BY <1>2, <3>1
    <3>4. QED  BY <2>1, <2>2, <2>4, <3>2, <3>3, Zenon
  <2>5. QED  BY <2>3, <2>4
<1>4. w = [n \in Nat |-> IF n = 0 THEN 0 ELSE w[n - 1] + f[n]]
  BY <1>2, <1>3
<1>5. PICK sum : /\ sum = [n \in Nat |-> IF n = 0 THEN 0 ELSE sum[n - 1] + f[n]]
                 /\ SumOf(f) = sum[Len(f)]
  BY <1>4, Zenon DEF SumOf
<1>6. \A n \in Nat : sum[n] = IF n = 0 THEN 0 ELSE sum[n - 1] + f[n]
  BY <1>5, Zenon
<1>7. sum[0] = 0
  BY <1>6, 0 \in Nat, Zenon
<1>8. ASSUME NEW n \in Nat  PROVE sum[n + 1] = sum[n] + f[n + 1]
  <2>1. n + 1 \in Nat /\ n + 1 # 0 /\ (n + 1) - 1 = n
    OBVIOUS
  <2>2. sum[n + 1] = sum[(n + 1) - 1] + f[n + 1]
    BY <1>6, <2>1, Zenon
  <2>3. QED  BY <2>1, <2>2, Zenon
<1>9. QED  BY <1>5, <1>7, <1>8, Zenon

(* A sum of noughts and ones is no more than their number.                 *)
LEMMA SumOfBits ==
  ASSUME NEW f \in Seq({0, 1})
  PROVE  SumOf(f) \in 0..Len(f)
<1>1. PICK sum : /\ sum[0] = 0
                 /\ \A n \in Nat : sum[n + 1] = sum[n] + f[n + 1]
                 /\ SumOf(f) = sum[Len(f)]
  BY SumsAddUp
<1> DEFINE S == {n \in Nat : n <= Len(f) => sum[n] \in 0..n}
<1>2. 0 \in S
  BY <1>1
<1>3. ASSUME NEW n \in Nat, n \in S  PROVE n + 1 \in S
  <2>1. SUFFICES ASSUME n + 1 <= Len(f)  PROVE sum[n + 1] \in 0..(n + 1)
    OBVIOUS
  <2>2. sum[n] \in 0..n
    BY <1>3, <2>1
  <2>3. f[n + 1] \in {0, 1}
    BY <2>1
  <2>4. sum[n + 1] = sum[n] + f[n + 1]
    BY <1>1
  <2>5. QED  BY <2>2, <2>3, <2>4
<1> HIDE DEF S
<1>4. Nat \subseteq S
  BY <1>2, <1>3, CountingUp
<1>5. Len(f) \in S
  BY <1>4
<1>6. QED  BY <1>1, <1>5 DEF S

----------------------------------------------------------------------------
(* The percentile.  Before is what sorting would put before p.             *)
Before(s, p) == {q \in DOMAIN s : Precedes(s, q, p)}

LEMMA IntervalsAreCounted ==
  ASSUME NEW n \in Nat
  PROVE  /\ IsFiniteSet(1..n) /\ Cardinality(1..n) = n
         /\ IsFiniteSet(0..(n - 1)) /\ Cardinality(0..(n - 1)) = n
<1>1. IsFiniteSet(1..n) /\ Cardinality(1..n) = n
  <2>1. Cardinality(1..n) = IF 1 > n THEN 0 ELSE n - 1 + 1
    BY FS_Interval
  <2>2. QED  BY <2>1, FS_Interval
<1>2. IsFiniteSet(0..(n - 1)) /\ Cardinality(0..(n - 1)) = n
  <2>1. n - 1 \in Int
    OBVIOUS
  <2>2. Cardinality(0..(n - 1)) = IF 0 > n - 1 THEN 0 ELSE (n - 1) - 0 + 1
    BY <2>1, FS_Interval
  <2>3. QED  BY <2>1, <2>2, FS_Interval
<1>3. QED  BY <1>1, <1>2

LEMMA BeforeIsCounted ==
  ASSUME NEW s \in Seq(Nat), NEW p \in DOMAIN s
  PROVE  /\ IsFiniteSet(Before(s, p)) /\ p \notin Before(s, p)
         /\ Cardinality(Before(s, p)) \in 0..(Len(s) - 1)
         /\ IsFiniteSet(DOMAIN s) /\ Cardinality(DOMAIN s) = Len(s)
<1>1. /\ DOMAIN s = 1..Len(s) /\ Len(s) \in Nat /\ p \in 1..Len(s)
  OBVIOUS
<1>2. IsFiniteSet(DOMAIN s) /\ Cardinality(DOMAIN s) = Len(s)
  BY <1>1, IntervalsAreCounted, Zenon
<1>3. p \notin Before(s, p) /\ Before(s, p) \subseteq DOMAIN s \ {p}
  BY <1>1 DEF Before, Precedes
<1>4. IsFiniteSet(DOMAIN s \ {p}) /\ Cardinality(DOMAIN s \ {p}) = Len(s) - 1
  BY <1>1, <1>2, FS_RemoveElement
<1>5. /\ IsFiniteSet(Before(s, p)) /\ Cardinality(Before(s, p)) \in Nat
      /\ Cardinality(Before(s, p)) <= Len(s) - 1
  BY <1>3, <1>4, FS_Subset, FS_CardinalityType
<1>6. QED  BY <1>1, <1>2, <1>3, <1>5

(* No two elements have as many before them, so every rank is taken.       *)
LEMMA EveryRankIsTaken ==
  ASSUME NEW s \in Seq(Nat), NEW k \in 0..(Len(s) - 1)
  PROVE  \E p \in DOMAIN s : Cardinality(Before(s, p)) = k
<1> DEFINE D == DOMAIN s
           R == 0..(Len(s) - 1)
           rank == [p \in D |-> Cardinality(Before(s, p))]
<1>1. D = 1..Len(s) /\ Len(s) \in Nat /\ Len(s) >= 1
  OBVIOUS
<1>2. IsFiniteSet(R) /\ Cardinality(R) = Len(s)
  BY <1>1, IntervalsAreCounted, Zenon
<1>3. IsFiniteSet(D) /\ Cardinality(D) = Len(s)
  BY <1>1, IntervalsAreCounted, Zenon
<1>4. rank \in [D -> R] /\ \A p \in D : rank[p] = Cardinality(Before(s, p))
  BY BeforeIsCounted
<1>5. ASSUME NEW p \in D, NEW q \in D, Precedes(s, p, q)
      PROVE  Cardinality(Before(s, p)) # Cardinality(Before(s, q))
  <2>1. \A i \in D : s[i] \in Nat /\ i \in Nat
    BY <1>1
  <2>2. Before(s, p) \cup {p} \subseteq Before(s, q)
    BY <1>5, <2>1 DEF Before, Precedes
  <2>3. Cardinality(Before(s, p) \cup {p}) = Cardinality(Before(s, p)) + 1
    BY BeforeIsCounted, FS_AddElement
  <2>4. Cardinality(Before(s, p) \cup {p}) <= Cardinality(Before(s, q))
    BY <2>2, BeforeIsCounted, FS_Subset
  <2>5. /\ Cardinality(Before(s, p)) \in Nat /\ Cardinality(Before(s, q)) \in Nat
    BY BeforeIsCounted
  <2>6. QED  BY <2>3, <2>4, <2>5
<1>6. ASSUME NEW p \in D, NEW q \in D, p # q
      PROVE  rank[p] # rank[q]
  <2>1. s[p] \in Nat /\ s[q] \in Nat /\ p \in Nat /\ q \in Nat
    BY <1>1
  <2>2. Precedes(s, p, q) \/ Precedes(s, q, p)
    BY <1>6, <2>1 DEF Precedes
  <2>3. QED  BY <1>4, <1>5, <2>2
<1> HIDE DEF rank, D, R
<1>7. rank \in Injection(D, R)
  BY <1>4, <1>6 DEF Injection, IsInjective
<1>8. rank \in Surjection(D, R)
  BY <1>2, <1>3, <1>7, FS_Injection
<1>9. \A i \in R : \E p \in D : rank[p] = i
  BY <1>8 DEF Surjection
<1>10. QED  BY <1>4, <1>9 DEF D, R

(* A latency that was measured: one in twenty is above it at the most, and *)
(* more than one in twenty is not below it (metrics.py:33-41).             *)
THEOREM PercentileDividesTheTurns ==
  ASSUME NEW s \in Seq(Nat), s # << >>
  PROVE  LET p95 == LatencyP95(s)
         IN /\ \E n \in DOMAIN s : s[n] = p95
            /\ 20 * Cardinality({n \in DOMAIN s : s[n] > p95}) <= Len(s)
            /\ 20 * Cardinality({n \in DOMAIN s : s[n] >= p95}) > Len(s)
<1> DEFINE k == Rank95(Len(s))
           n == Len(s)
           D == DOMAIN s
<1>1. /\ n \in Nat \ {0} /\ D = 1..n /\ \A i \in D : s[i] \in Nat /\ i \in Nat
  OBVIOUS
<1>2. k \in 1..n /\ 100 * (k - 1) < 95 * n /\ 20 * (n - k) <= n
  BY <1>1, RankIsTheCeiling
<1>3. PICK p \in D : LatencyP95(s) = s[p] /\ Cardinality(Before(s, p)) = k - 1
  <2>1. \E q \in D : Cardinality(Before(s, q)) = k - 1
    BY <1>1, <1>2, EveryRankIsTaken, k - 1 \in 0..(Len(s) - 1)
  <2>2. QED  BY <2>1 DEF LatencyP95, Nth, Before
<1> DEFINE B == Before(s, p)
           Above == {i \in D : s[i] > s[p]}
           AtLeast == {i \in D : s[i] >= s[p]}
<1>4. /\ IsFiniteSet(B) /\ p \notin B /\ B \subseteq D
      /\ IsFiniteSet(D) /\ Cardinality(D) = n
  BY BeforeIsCounted DEF Before
<1>5. Above \subseteq D \ (B \cup {p}) /\ D \ B \subseteq AtLeast /\ AtLeast \subseteq D
  BY <1>1 DEF Before, Precedes
<1> HIDE DEF B, Above, AtLeast, D, k, n
<1>6. Cardinality(B) = k - 1 /\ Cardinality(B \cup {p}) = k /\ IsFiniteSet(B \cup {p})
  <2>1. Cardinality(B) = k - 1
    BY <1>3 DEF B
  <2>2. Cardinality(B \cup {p}) = Cardinality(B) + 1 /\ IsFiniteSet(B \cup {p})
    BY <1>4, FS_AddElement
  <2>3. n \in Nat /\ k \in Int
    BY <1>1, <1>2
  <2>4. QED  BY <2>1, <2>2, <2>3
<1>7. Cardinality(D \ B) = n - (k - 1) /\ Cardinality(D \ (B \cup {p})) = n - k
  <2>1. D \cap B = B /\ D \cap (B \cup {p}) = B \cup {p}
    BY <1>4
  <2>2. /\ Cardinality(D \ B) = Cardinality(D) - Cardinality(B)
        /\ Cardinality(D \ (B \cup {p})) = Cardinality(D) - Cardinality(B \cup {p})
    BY <1>4, <2>1, FS_Difference, Zenon
  <2>3. QED  BY <1>4, <1>6, <2>2
<1>8. /\ Cardinality(Above) <= n - k /\ Cardinality(Above) \in Nat
      /\ Cardinality(AtLeast) >= n - (k - 1) /\ Cardinality(AtLeast) \in Nat
  <2>1. IsFiniteSet(D \ (B \cup {p})) /\ IsFiniteSet(AtLeast)
    BY <1>4, <1>5, FS_Subset
  <2>2. /\ Cardinality(Above) <= Cardinality(D \ (B \cup {p})) /\ IsFiniteSet(Above)
        /\ Cardinality(D \ B) <= Cardinality(AtLeast)
    BY <1>5, <2>1, FS_Subset
  <2>3. Cardinality(Above) \in Nat /\ Cardinality(AtLeast) \in Nat
    BY <2>1, <2>2, FS_CardinalityType
  <2>4. n \in Nat /\ k \in Nat
    BY <1>1, <1>2
  <2>5. QED  BY <1>7, <2>2, <2>3, <2>4
<1>9. 20 * Cardinality(Above) <= n /\ 20 * Cardinality(AtLeast) > n
  BY <1>1, <1>2, <1>8
<1>10. QED  BY <1>3, <1>9 DEF Above, AtLeast, D, n

----------------------------------------------------------------------------
(* What the run says of the turns.                                         *)

(* A usage with calls is that of the metadata there are.                   *)
LEMMA UsageIsOfThePairs ==
  ASSUME pairs \in Seq(Metadata), Usage(pairs).calls > 0
  PROVE  /\ pairs # << >> /\ Usage(pairs).calls = Len(pairs)
         /\ Usage(pairs).breaks \in 0..Len(pairs)
         /\ LET ls == Usage(pairs).latencies
            IN /\ ls \in Seq(Nat) /\ ls # << >> /\ Len(ls) = Len(pairs)
               /\ DOMAIN ls = DOMAIN pairs
               /\ \A n \in DOMAIN pairs : ls[n] = pairs[n].latency
<1>1. NoUsage.calls = 0
  BY DEF NoUsage
<1>2. Usage(pairs) = UsageOf(pairs) /\ pairs # << >>
  <2>1. Usage(pairs) # NoUsage
    BY <1>1
  <2>2. QED  BY <2>1, Zenon DEF Usage
<1>3. /\ UsageOf(pairs).calls = Len(pairs)
      /\ UsageOf(pairs).breaks = SumOf(Field(pairs, "broken"))
      /\ UsageOf(pairs).latencies = Field(pairs, "latency")
  BY DEF UsageOf
<1>4. \A n \in DOMAIN pairs : pairs[n] \in Reported
  BY DEF Reported
<1>5. \A n \in DOMAIN pairs : pairs[n]["broken"] \in {0, 1} /\ pairs[n]["latency"] \in Nat
  BY <1>4 DEF Reported
<1>6. DOMAIN pairs = 1..Len(pairs) /\ Len(pairs) \in Nat
  OBVIOUS
<1>7. Field(pairs, "broken") \in Seq({0, 1}) /\ Len(Field(pairs, "broken")) = Len(pairs)
  BY <1>5, <1>6 DEF Field
<1> DEFINE ls == Field(pairs, "latency")
<1>8. /\ ls \in Seq(Nat) /\ Len(ls) = Len(pairs) /\ DOMAIN ls = DOMAIN pairs
      /\ \A n \in DOMAIN pairs : ls[n] = pairs[n].latency
  BY <1>5, <1>6 DEF Field
<1>9. ls # << >>
  BY <1>2, <1>8
<1>10. SumOf(Field(pairs, "broken")) \in 0..Len(pairs)
  BY <1>7, SumOfBits
<1>11. QED  BY <1>2, <1>3, <1>8, <1>9, <1>10, Zenon

(* The tokens are written after the latency.                               *)
LEMMA TokensFollowTheLatency ==
  ASSUME Logged, Written("tokens_totales") # {}
  PROVE  Written("latencia_p95") # {}
<1>1. PICK n \in DOMAIN log.entries :
        /\ n \in DOMAIN TheRun /\ TheRun[n].name = "tokens_totales"
        /\ Reports(TheRun[n], game, Usage(pairs))
  BY ValuesAreReported
<1>2. Usage(pairs).calls > 0
  BY <1>1 DEF Reports
<1>3. Ordered(TheRun, 1, 10, game, Usage(pairs))
  BY PlanIsOrdered DEF TheRun
<1>4. PICK p \in DOMAIN TheRun : TheRun[p].name = "latencia_p95"
  BY <1>2, <1>3, 7 \in 1..10 DEF Ordered
<1>5. Number["latencia_p95"] = 7 /\ Number["tokens_totales"] = 8
  BY DEF Number
<1>6. PICK S : TheRun \in Seq(S)
  BY <1>3 DEF Ordered
<1>7. n \in Nat /\ p \in Nat /\ DOMAIN TheRun = 1..Len(TheRun) /\ Len(TheRun) \in Nat
  BY <1>1, <1>4, <1>6
<1>8. p < n
  <2>1. ~(n < p)
    BY <1>1, <1>3, <1>4, <1>5 DEF Ordered
  <2>2. n # p
    BY <1>1, <1>4, <1>5
  <2>3. QED  BY <1>7, <2>1, <2>2
<1>9. p \in DOMAIN log.entries
  <2> DEFINE l == Len(log.entries)
             s == TheRun
             e == log.entries
  <2>1. /\ s \in Seq(S) /\ l \in 0..Len(s) /\ e = SubSeq(s, 1, l)
        /\ n \in DOMAIN e /\ p \in DOMAIN s
    BY <1>1, <1>4, <1>6 DEF Logged
  <2> HIDE DEF s, e, l
  <2>2. p \in DOMAIN e
    BY <1>7, <1>8, <2>1
  <2>3. QED  BY <2>2 DEF e
<1>10. log.entries[p].name = "latencia_p95"
  BY <1>4, <1>9, TheRunIsPlanned
<1>11. QED  BY <1>9, <1>10 DEF Written

(* The metrics of the turns are about the answers the players have read:   *)
(* no more breaks than calls, as many calls as rounds answered but for     *)
(* those the sink lost, and a latency that divides them as the 95th        *)
(* percentile does (tracking.py:192-240, metrics.py:33-41).                *)
THEOREM TurnsAreWellMeasured == TrackingSpec => []TurnsAreMeasured
<1>1. Sound(game) /\ Logged /\ Accounted => TurnsAreMeasured
  <2> SUFFICES ASSUME Sound(game), Logged, Accounted  PROVE TurnsAreMeasured
    OBVIOUS
  <2>1. RoundsAnswered = RoundsOf(game)
    BY DEF RoundsAnswered, RoundsOf
  <2>2. /\ pairs \in Seq(Metadata) /\ Len(pairs) \in Nat /\ lost \in Nat
        /\ Len(pairs) + lost = Cardinality(RoundsAnswered)
    BY <2>1 DEF Accounted
  <2>3. ASSUME Written("tasa_ruptura_personaje") # {}
        PROVE  LET breaks == ValueOf("tasa_ruptura_personaje")
               IN breaks[1] <= breaks[2] /\ breaks[2] + lost = Cardinality(RoundsAnswered)
    <3>1. /\ Usage(pairs).calls > 0
          /\ ValueOf("tasa_ruptura_personaje") = <<Usage(pairs).breaks, Usage(pairs).calls>>
      BY <2>3, ValuesAreReported DEF Reports
    <3>2. Usage(pairs).breaks \in 0..Len(pairs) /\ Usage(pairs).calls = Len(pairs)
      BY <2>2, <3>1, UsageIsOfThePairs
    <3>3. QED  BY <2>2, <3>1, <3>2
  <2>4. ASSUME Written("latencia_p95") # {}
        PROVE  LET p95 == ValueOf("latencia_p95")
                   slower == {n \in DOMAIN pairs : pairs[n].latency > p95}
               IN /\ \E n \in DOMAIN pairs : pairs[n].latency = p95
                  /\ 20 * Cardinality(slower) <= Len(pairs)
                  /\ 20 * Cardinality({n \in DOMAIN pairs : pairs[n].latency >= p95})
                       > Len(pairs)
    <3> DEFINE ls == Usage(pairs).latencies
               p95 == LatencyP95(ls)
    <3>1. Usage(pairs).calls > 0 /\ ValueOf("latencia_p95") = p95
      BY <2>4, ValuesAreReported DEF Reports
    <3>2. /\ ls \in Seq(Nat) /\ ls # << >> /\ Len(ls) = Len(pairs)
          /\ DOMAIN ls = DOMAIN pairs
          /\ \A n \in DOMAIN pairs : ls[n] = pairs[n].latency
      BY <2>2, <3>1, UsageIsOfThePairs
    <3>3. /\ \E n \in DOMAIN ls : ls[n] = p95
          /\ 20 * Cardinality({n \in DOMAIN ls : ls[n] > p95}) <= Len(ls)
          /\ 20 * Cardinality({n \in DOMAIN ls : ls[n] >= p95}) > Len(ls)
      BY <3>2, PercentileDividesTheTurns
    <3> HIDE DEF ls, p95
    <3>4. /\ {n \in DOMAIN ls : ls[n] > p95} = {n \in DOMAIN pairs : pairs[n].latency > p95}
          /\ {n \in DOMAIN ls : ls[n] >= p95} = {n \in DOMAIN pairs : pairs[n].latency >= p95}
      BY <3>2
    <3>5. QED  BY <3>1, <3>2, <3>3, <3>4
  <2>5. Written("tokens_totales") # {} => Written("latencia_p95") # {}
    BY TokensFollowTheLatency
  <2>6. QED  BY <2>2, <2>3, <2>4, <2>5 DEF TurnsAreMeasured
<1>2. TrackingInit => Logged /\ Accounted
  BY NothingIsLogged, AccountsStart
<1>3. Sound(game) /\ Logged /\ Accounted /\ [TrackingNext]_trackingVars
        => Logged' /\ Accounted'
  BY LoggingGoesOn, AccountsGoOn
<1>4. QED
  BY <1>1, <1>2, <1>3, TrackedRoomPlaysTheGame, PTL DEF TrackingSpec

(* Both at once: the metrics of a run tell the game it is of.              *)
THEOREM MetricsAreTheGames == TrackingSpec => []MetricsTellTheGame
<1>1. VotesAreMeasured /\ TurnsAreMeasured => MetricsTellTheGame
  BY DEF MetricsTellTheGame
<1>2. QED  BY <1>1, VotesAreWellMeasured, TurnsAreWellMeasured, PTL

=============================================================================
