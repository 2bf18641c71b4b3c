----------------------------- MODULE FakeProofs -----------------------------
(***************************************************************************)
(* What the room of the fake keeps, for every number of rounds, players    *)
(* and browsers: its records are those of a game that could have been      *)
(* played, and the fake implements the life cycle the screens are written  *)
(* for.                                                                    *)
(***************************************************************************)
EXTENDS Fake, FiniteSetTheorems, TLAPS

USE RoundsAssumption, MaxPlayersAssumption

----------------------------------------------------------------------------
(* The inductive invariant.                                                *)

Phases == {"LOBBY", "ROUND", "DISCUSSION", "VOTING", "REVEAL"}

RoomType ==
  [state : Phases, round : 0..Rounds, players : Seq(BOOLEAN), messages : SUBSET Message,
   votes : Ballots, votingSeen : BOOLEAN, debateSeen : BOOLEAN]

(* The lobby is as it was founded but for its players; a game that goes on *)
(* is in a round.                                                          *)
Begun ==
  /\ Len(room.players) \in 1..MaxPlayers
  /\ room.state = "LOBBY" => room.round = 0 /\ room.messages = {}
  /\ room.state # "LOBBY" => room.round \in 1..Rounds

FakeSound == room \in RoomType /\ Begun /\ RecordsAreWhole

----------------------------------------------------------------------------
(* Ballots, as functions from some of the aliases to aliases.              *)

LEMMA BallotIsAFunction ==
  ASSUME NEW v \in Ballots
  PROVE  /\ DOMAIN v \in SUBSET Aliases /\ v \in [DOMAIN v -> Aliases]
         /\ IsFiniteSet(DOMAIN v)
<1>1. PICK V \in SUBSET Aliases : v \in [V -> Aliases]
  BY DEF Ballots
<1>2. DOMAIN v = V
  BY <1>1
<1>3. IsFiniteSet(Aliases)
  BY FS_Interval DEF Aliases
<1>4. QED
  BY <1>1, <1>2, <1>3, FS_Subset

LEMMA FunctionIsABallot ==
  ASSUME NEW V \in SUBSET Aliases, NEW v \in [V -> Aliases]
  PROVE  v \in Ballots
  BY DEF Ballots

(* The roster: who is a human is no impostor, and they are all.            *)
LEMMA RosterParts ==
  ASSUME NEW r \in RoomType, Len(r.players) \in 1..MaxPlayers
  PROVE  /\ Players(r) = 1..Len(r.players) /\ Players(r) \subseteq Aliases
         /\ Humans(r) \subseteq Players(r) /\ Impostors(r) \subseteq Players(r)
         /\ \A a \in Players(r) : a \in Humans(r) <=> a \notin Impostors(r)
         /\ IsFiniteSet(Humans(r)) /\ IsFiniteSet(Players(r))
         /\ Cardinality(Players(r)) = Len(r.players)
<1>1. Players(r) = 1..Len(r.players) /\ Len(r.players) \in Nat
  BY DEF RoomType, Players
<1>2. /\ Humans(r) \subseteq Players(r) /\ Impostors(r) \subseteq Players(r)
      /\ \A a \in Players(r) : a \in Humans(r) <=> a \notin Impostors(r)
  BY Zenon DEF Humans, Impostors
<1>3. Players(r) \subseteq Aliases
  BY <1>1 DEF Aliases
<1>4. IsFiniteSet(Players(r)) /\ Cardinality(Players(r)) = Len(r.players)
  BY <1>1, FS_Interval
<1>5. QED
  BY <1>1, <1>2, <1>3, <1>4, FS_Subset

(* Somebody sits down at the end of the table.                             *)
LEMMA SitDown ==
  ASSUME NEW r \in RoomType, Len(r.players) \in 1..(MaxPlayers - 1), NEW b \in BOOLEAN,
         NEW h \in RoomType, h.players = Append(r.players, b)
  PROVE  /\ Len(h.players) = Len(r.players) + 1
         /\ Players(h) = Players(r) \cup {Len(r.players) + 1}
         /\ Impostors(h) = IF b THEN Impostors(r) \cup {Len(r.players) + 1}
                                ELSE Impostors(r)
         /\ b => Humans(h) = Humans(r)
<1> DEFINE n == Len(r.players)
<1>1. r.players \in Seq(BOOLEAN) /\ n \in Nat
  BY DEF RoomType
<1>2. Len(h.players) = n + 1 /\ h.players[n + 1] = b
  BY <1>1
<1>3. \A i \in 1..n : h.players[i] = r.players[i]
  BY <1>1
<1>4. Players(r) = 1..n /\ Players(h) = 1..(n + 1)
  BY <1>1, <1>2 DEF RoomType, Players
<1>5. 1..(n + 1) = (1..n) \cup {n + 1} /\ n + 1 \notin 1..n
  BY <1>1
<1> HIDE DEF n
<1>6. \A a \in Players(r) : h.players[a] = r.players[a]
  BY <1>3, <1>4
<1>7. Players(h) = Players(r) \cup {n + 1} /\ n + 1 \notin Players(r)
  BY <1>4, <1>5
<1>8. b => /\ Impostors(h) = Impostors(r) \cup {n + 1}
           /\ Humans(h) = Humans(r)
  BY <1>2, <1>6, <1>7, Zenon DEF Impostors, Humans
<1>9. ~b => Impostors(h) = Impostors(r)
  BY <1>2, <1>6, <1>7, Zenon DEF Impostors
<1>10. QED
  BY <1>2, <1>7, <1>8, <1>9 DEF n

----------------------------------------------------------------------------
(* A round is written by the first message of it.                          *)

Scripted(k, a) == [round |-> k, alias |-> a, own |-> FALSE]
Said(k, a) == [round |-> k, alias |-> a, own |-> TRUE]

(* The messages of the round k, when a has written its own.                *)
Chorus(k, P, a) == {Said(k, a)} \cup {Scripted(k, b) : b \in P \ {a}}

Sung(C, k, n, a) ==
  /\ \A m \in C : m.round = k
  /\ \A b \in 1..n : \E m \in C : m.alias = b
  /\ Cardinality(C) = n
  /\ Cardinality({m \in C : m.own}) = 1
  /\ \A m \in C : m.own => m.alias = a

LEMMA ChorusIsWhole ==
  ASSUME NEW k \in 1..Rounds, NEW n \in 1..MaxPlayers, NEW a \in 1..n
  PROVE  LET C == Chorus(k, 1..n, a)
         IN C \subseteq Message /\ Sung(C, k, n, a)
<1> DEFINE C == Chorus(k, 1..n, a)
           f == [b \in 1..n |-> IF b = a THEN Said(k, a) ELSE Scripted(k, b)]
<1>1. /\ Said(k, a) \in Message /\ Said(k, a).alias = a /\ Said(k, a).round = k
      /\ Said(k, a).own = TRUE
  BY DEF Said, Message, Aliases
<1>2. ASSUME NEW b \in 1..n
      PROVE  /\ Scripted(k, b) \in Message /\ Scripted(k, b).alias = b
             /\ Scripted(k, b).round = k /\ Scripted(k, b).own = FALSE
  BY DEF Scripted, Message, Aliases
<1>3. \A b \in 1..n : f[b] \in C /\ f[b].alias = b
  BY <1>1, <1>2 DEF Chorus
<1>4. \A m \in C : \E b \in 1..n : m = f[b]
  BY DEF Chorus
<1>5. \A m \in C : m \in Message /\ m.round = k
  BY <1>1, <1>2, ZenonT(60) DEF Chorus
<1>6. \A m \in C : m.own => m = Said(k, a)
  BY <1>2 DEF Chorus
<1>7. Said(k, a) \in C
  BY DEF Chorus
<1> HIDE DEF C
<1>8. Cardinality(C) = n
  <2>1. f \in [1..n -> C]
    BY <1>3
  <2> HIDE DEF f
  <2>2. f \in Bijection(1..n, C)
    BY <1>3, <1>4, <2>1 DEF Bijection, Injection, Surjection, IsInjective
  <2>3. ExistsBijection(1..n, C)
    BY <2>2 DEF ExistsBijection
  <2>4. IsFiniteSet(1..n) /\ Cardinality(1..n) = n
    BY FS_Interval
  <2>5. QED
    BY <2>3, <2>4, FS_Bijection
<1>9. {m \in C : m.own} = {Said(k, a)}
  BY <1>1, <1>6, <1>7, Zenon
<1>10. Cardinality({m \in C : m.own}) = 1
  BY <1>9, FS_Singleton
<1>11. \A b \in 1..n : \E m \in C : m.alias = b
  BY <1>3
<1>12. QED
  BY <1>1, <1>5, <1>6, <1>8, <1>10, <1>11 DEF C, Sung

(* What SubmitMessage leaves: the round is written, and the next one, or   *)
(* the discussion, is open.                                                *)
LEMMA RoundIsWritten ==
  ASSUME NEW r \in RoomType, Len(r.players) \in 1..MaxPlayers, r.state = "ROUND",
         r.round \in 1..Rounds, Current(r) = {}, NEW a \in Humans(r)
  PROVE  LET said == [round |-> r.round, alias |-> a, own |-> TRUE]
             h == [r EXCEPT !.messages = @ \cup Chorus(r.round, Players(r), a)]
         IN /\ h \in RoomType
            /\ Current(h) = Chorus(r.round, Players(r), a)
            /\ Advance(Fill([r EXCEPT !.messages = @ \cup {said}])) =
                 IF r.round < Rounds THEN [h EXCEPT !.round = r.round + 1]
                                     ELSE [h EXCEPT !.state = "DISCUSSION"]
<1> DEFINE said == [round |-> r.round, alias |-> a, own |-> TRUE]
           C == Chorus(r.round, Players(r), a)
           s == r.messages \cup {said}
           t == r.messages \cup C
           i == [r EXCEPT !.messages = s]
           h == [r EXCEPT !.messages = t]
<1>1. /\ Players(r) = 1..Len(r.players) /\ a \in Players(r)
  BY RosterParts
<1>2. /\ C \subseteq Message /\ \A m \in C : m.round = r.round
      /\ Cardinality(C) = Len(r.players)
  <2> DEFINE n == Len(r.players)
             D == Chorus(r.round, 1..n, a)
  <2>1. n \in 1..MaxPlayers /\ a \in 1..n
    BY <1>1
  <2> HIDE DEF n
  <2>2. D \subseteq Message /\ (\A m \in D : m.round = r.round) /\ Cardinality(D) = n
    BY <2>1, ChorusIsWhole DEF Sung
  <2>3. C = D
    BY <1>1 DEF n
  <2> HIDE DEF C, D
  <2>4. QED
    BY <2>2, <2>3 DEF n
<1>3. said \in Message /\ said = Said(r.round, a)
  BY <1>1, RosterParts DEF Message, Said
<1>4. s \in SUBSET Message /\ t \in SUBSET Message
  BY <1>2, <1>3 DEF RoomType
<1> HIDE DEF C, s, t
<1>5. /\ i \in RoomType /\ i.messages = s /\ i.round = r.round /\ i.players = r.players
      /\ i.state = "ROUND"
  BY <1>4 DEF RoomType
<1>6. /\ h \in RoomType /\ h.messages = t /\ h.round = r.round /\ h.players = r.players
      /\ h.state = "ROUND"
  BY <1>4 DEF RoomType
<1>7. Current(h) = C
  BY <1>2, <1>6 DEF Current, t
<1>8. Players(i) = Players(r)
  BY <1>5 DEF Players
<1>9. \A b \in Players(i) : Wrote(i, b) <=> b = a
  <2>1. said.alias = a /\ said.round = r.round
    OBVIOUS
  <2>2. \A m \in s : m.round = r.round => m = said
    BY DEF Current, s
  <2>3. said \in s
    BY DEF s
  <2> HIDE DEF said
  <2>4. QED
    BY <1>5, <2>1, <2>2, <2>3 DEF Wrote
<1>10. {b \in Players(i) : ~Wrote(i, b)} = Players(r) \ {a}
  BY <1>8, <1>9
<1>11. Fill(i) = h
  <2> DEFINE u == {[round |-> i.round, alias |-> b, own |-> FALSE] :
                     b \in {c \in Players(i) : ~Wrote(i, c)}}
  <2>1. u = {Scripted(r.round, b) : b \in Players(r) \ {a}}
    BY <1>5, <1>10 DEF Scripted
  <2>2. s \cup u = t
    BY <1>3, <2>1 DEF s, t, C, Chorus
  <2>3. Fill(i) = [i EXCEPT !.messages = s \cup u]
    BY <1>5 DEF Fill
  <2> HIDE DEF u
  <2>4. QED
    BY <1>5, <2>2, <2>3 DEF RoomType
<1>12. Cardinality(Current(h)) = Len(h.players) /\ r.round \in Nat /\ Rounds \in Nat
  BY <1>2, <1>6, <1>7
<1> HIDE DEF h, i
<1>13. CASE r.round < Rounds
  <2>1. Advance(h) = [h EXCEPT !.round = r.round + 1]
    BY <1>6, <1>12, <1>13 DEF Advance
  <2>2. QED
    BY <1>6, <1>7, <1>11, <1>13, <2>1 DEF C, h, i, s, t
<1>14. CASE ~(r.round < Rounds)
  <2>1. Advance(h) = [h EXCEPT !.state = "DISCUSSION"]
    BY <1>6, <1>12, <1>14 DEF Advance
  <2>2. QED
    BY <1>6, <1>7, <1>11, <1>14, <2>1 DEF C, h, i, s, t
<1>15. QED
  BY <1>13, <1>14

----------------------------------------------------------------------------
(* Every call keeps the invariant.                                         *)

LEMMA SoundRoom ==
  ASSUME FakeSound
  PROVE  /\ room \in RoomType /\ Len(room.players) \in 1..MaxPlayers
         /\ room.state \in Phases /\ room.round \in 0..Rounds
         /\ room.votes \in Ballots
         /\ room.state # "LOBBY" => room.round \in 1..Rounds
         /\ room.state = "LOBBY" => room.round = 0 /\ room.messages = {}
  BY DEF FakeSound, Begun, RoomType

(* RoundsAreWritten, said of a room r.                                     *)
InRound(r, k) == {m \in r.messages : m.round = k}
IsOver(r, k) == k < r.round \/ (k = r.round /\ r.state \in {"DISCUSSION", "VOTING", "REVEAL"})

IsWhole(r, S) ==
  /\ \A a \in Players(r) : \E m \in S : m.alias = a
  /\ Cardinality(S) = Len(r.players)
  /\ Cardinality({m \in S : m.own}) = 1
  /\ \A m \in S : m.own => m.alias \in Humans(r)

Written(r) ==
  \A k \in 1..Rounds : IF IsOver(r, k) THEN IsWhole(r, InRound(r, k)) ELSE InRound(r, k) = {}

LEMMA WrittenRounds == RoundsAreWritten <=> Written(room)
  BY DEF RoundsAreWritten, Written, IsWhole, IsOver, InRound, SpokenIn, LastRoundOver

LEMMA WrittenNext == RoundsAreWritten' <=> Written(room')
  BY DEF RoundsAreWritten, Written, IsWhole, IsOver, InRound, SpokenIn, LastRoundOver

(* In the lobby, and when the game starts, nothing has been said.          *)
LEMMA LobbyIsSilent ==
  ASSUME NEW r, r.messages = {}, r.round \in {0, 1}, r.state \in {"LOBBY", "ROUND"}
  PROVE  Written(r)
<1>1. \A k \in 1..Rounds : InRound(r, k) = {}
  BY DEF InRound
<1>2. \A k \in 1..Rounds : ~IsOver(r, k)
  BY DEF IsOver
<1>3. QED
  BY <1>1, <1>2 DEF Written

LEMMA JoinIsSound ==
  ASSUME FakeSound, JoinRoom
  PROVE  FakeSound'
<1> DEFINE p == Append(room.players, FALSE)
<1>1. /\ room \in RoomType /\ room.state = "LOBBY" /\ room.round = 0 /\ room.messages = {}
      /\ Len(room.players) \in 1..(MaxPlayers - 1) /\ room.players \in Seq(BOOLEAN)
  BY SoundRoom DEF JoinRoom, RoomType
<1>2. p \in Seq(BOOLEAN) /\ room' = [room EXCEPT !.players = p]
  BY <1>1 DEF JoinRoom
<1> HIDE DEF p
<1>3. /\ room' \in RoomType /\ room'.players = p /\ room'.state = "LOBBY"
      /\ room'.round = 0 /\ room'.messages = {} /\ room'.votes = room.votes
  BY <1>1, <1>2 DEF RoomType
<1>4. /\ Len(room'.players) = Len(room.players) + 1
      /\ Impostors(room') = Impostors(room)
  BY <1>1, <1>3, SitDown DEF p
<1>5. Begun'
  BY <1>1, <1>3, <1>4 DEF Begun
<1>6. RoundsAreWritten'
  BY <1>3, LobbyIsSilent, WrittenNext
<1>7. VotesAreWhole /\ Impostors(room) = {} /\ DOMAIN room.votes = {}
  BY <1>1 DEF FakeSound, RecordsAreWhole, VotesAreWhole
<1>8. VotesAreWhole'
  BY <1>3, <1>4, <1>7 DEF VotesAreWhole
<1>9. QED
  BY <1>3, <1>5, <1>6, <1>8 DEF FakeSound, RecordsAreWhole

LEMMA StartIsSound ==
  ASSUME FakeSound, Start
  PROVE  FakeSound'
<1> DEFINE p == Append(room.players, TRUE)
<1>1. /\ room \in RoomType /\ room.state = "LOBBY" /\ room.round = 0 /\ room.messages = {}
      /\ Len(room.players) \in 1..(MaxPlayers - 1) /\ room.players \in Seq(BOOLEAN)
      /\ Cardinality(Humans(room)) >= 2
  BY SoundRoom DEF Start, RoomType
<1>2. /\ p \in Seq(BOOLEAN)
      /\ room' = [room EXCEPT !.players = p, !.round = 1, !.state = "ROUND"]
  BY <1>1 DEF Start
<1> HIDE DEF p
<1>3. /\ room' \in RoomType /\ room'.players = p /\ room'.state = "ROUND"
      /\ room'.round = 1 /\ room'.messages = {} /\ room'.votes = room.votes
  <2>1. 1 \in 0..Rounds /\ "ROUND" \in Phases
    BY DEF Phases
  <2>2. QED
    BY <1>1, <1>2, <2>1 DEF RoomType
<1>4. /\ Len(room'.players) = Len(room.players) + 1
      /\ Impostors(room') = Impostors(room) \cup {Len(room.players) + 1}
      /\ Humans(room') = Humans(room)
  BY <1>1, <1>3, SitDown DEF p
<1>5. Begun'
  BY <1>1, <1>3, <1>4 DEF Begun
<1>6. RoundsAreWritten'
  BY <1>3, LobbyIsSilent, WrittenNext
<1>7. VotesAreWhole /\ Impostors(room) = {} /\ DOMAIN room.votes = {}
  BY <1>1 DEF FakeSound, RecordsAreWhole, VotesAreWhole
<1>8. Impostors(room') = {Len(room'.players)} /\ DOMAIN room'.votes = {}
  BY <1>3, <1>4, <1>7
<1>9. VotesAreWhole'
  BY <1>1, <1>3, <1>4, <1>8 DEF VotesAreWhole
<1>10. QED
  BY <1>3, <1>5, <1>6, <1>9 DEF FakeSound, RecordsAreWhole

LEMMA SubmitMessageIsSound ==
  ASSUME FakeSound, NEW a \in Aliases, NEW text \in Texts, SubmitMessage(a, text)
  PROVE  FakeSound' /\ room'.votes = room.votes
<1> DEFINE r == room
           C == Chorus(r.round, Players(r), a)
           t == r.messages \cup C
           h == [r EXCEPT !.messages = t]
<1>1. /\ r \in RoomType /\ r.state = "ROUND" /\ r.round \in 1..Rounds /\ a \in Humans(r)
      /\ Len(r.players) \in 1..MaxPlayers
  BY SoundRoom DEF SubmitMessage
<1>2. Written(r) /\ VotesAreWhole
  BY WrittenRounds DEF FakeSound, RecordsAreWhole
<1>3. \A k \in 1..Rounds : IsOver(r, k) <=> k < r.round
  BY <1>1 DEF IsOver
<1>4. Current(r) = {} /\ InRound(r, r.round) = {}
  <2>1. ~IsOver(r, r.round)
    BY <1>1, <1>3
  <2>2. InRound(r, r.round) = {}
    BY <1>1, <1>2, <2>1 DEF Written
  <2>3. QED
    BY <2>2 DEF InRound, Current
<1>5. /\ h \in RoomType /\ Current(h) = C
      /\ room' = IF r.round < Rounds THEN [h EXCEPT !.round = r.round + 1]
                                     ELSE [h EXCEPT !.state = "DISCUSSION"]
  BY <1>1, <1>4, RoundIsWritten DEF SubmitMessage
<1>6. /\ h.messages = t /\ h.players = r.players /\ h.round = r.round /\ h.votes = r.votes
      /\ h.state = "ROUND"
  BY <1>1 DEF RoomType
<1>7. r.round + 1 \in 0..Rounds \/ ~(r.round < Rounds)
  BY <1>1
<1> HIDE DEF h, C
<1>8. /\ room' \in RoomType /\ room'.messages = t /\ room'.players = r.players
      /\ room'.votes = r.votes
      /\ \/ room'.state = "ROUND" /\ room'.round = r.round + 1 /\ r.round < Rounds
         \/ room'.state = "DISCUSSION" /\ room'.round = r.round
  BY <1>1, <1>5, <1>6, <1>7 DEF RoomType, Phases
<1>9. Begun'
  BY <1>1, <1>8 DEF Begun
<1>10. Players(room') = Players(r) /\ Humans(room') = Humans(r) /\ Impostors(room') = Impostors(r)
  BY <1>8 DEF Players, Humans, Impostors
<1>11. VotesAreWhole'
  BY <1>1, <1>2, <1>8, <1>10 DEF VotesAreWhole
<1>12. RoundsAreWritten'
  <2>1. IsWhole(r, C) /\ \A m \in C : m.round = r.round
    <3> DEFINE n == Len(r.players)
               D == Chorus(r.round, 1..n, a)
    <3>1. Players(r) = 1..n /\ n \in 1..MaxPlayers /\ a \in 1..n
      BY <1>1, RosterParts
    <3> HIDE DEF n
    <3>2. Sung(D, r.round, n, a)
      BY <1>1, <3>1, ChorusIsWhole
    <3>3. C = D
      BY <3>1 DEF C
    <3> HIDE DEF D
    <3>4. \A m \in C : m.own => m.alias \in Humans(r)
      BY <1>1, <3>2, <3>3, Zenon DEF Sung
    <3>5. QED
      BY <3>1, <3>2, <3>3, <3>4, Zenon DEF n, IsWhole, Sung
  <2>2. \A S : IsWhole(room', S) <=> IsWhole(r, S)
    BY <1>8, <1>10, Zenon DEF IsWhole
  <2>3. InRound(room', r.round) = C
    BY <1>4, <1>8, <2>1 DEF InRound
  <2>4. \A k \in 1..Rounds : k # r.round => InRound(room', k) = InRound(r, k)
    BY <1>8, <2>1 DEF InRound
  <2>5. ASSUME NEW k \in 1..Rounds
        PROVE  IF IsOver(room', k) THEN IsWhole(r, InRound(room', k))
               ELSE InRound(room', k) = {}
    <3>1. r.round \in Nat /\ k \in Nat
      BY <1>1
    <3>2. IsOver(room', k) <=> k <= r.round
      BY <1>8, <3>1 DEF IsOver
    <3>3. CASE k = r.round
      BY <2>1, <2>3, <3>1, <3>2, <3>3
    <3>4. CASE k < r.round
      BY <1>2, <1>3, <2>4, <3>1, <3>2, <3>4 DEF Written
    <3>5. CASE k > r.round
      BY <1>2, <1>3, <2>4, <3>1, <3>2, <3>5 DEF Written
    <3>6. QED
      BY <3>1, <3>3, <3>4, <3>5
  <2>6. Written(room')
    BY <2>2, <2>5 DEF Written
  <2>7. QED
    BY <2>6, WrittenNext
<1>13. QED
  BY <1>8, <1>9, <1>11, <1>12 DEF FakeSound, RecordsAreWhole

(* What is said stays as it is when the debate and the voting go on.       *)
LEMMA NothingIsSaid ==
  ASSUME FakeSound, room' \in RoomType, room'.messages = room.messages,
         room'.players = room.players, room'.round = room.round,
         room.state \in {"DISCUSSION", "VOTING", "REVEAL"},
         room'.state \in {"DISCUSSION", "VOTING", "REVEAL"}, VotesAreWhole'
  PROVE  FakeSound'
<1>1. Players(room') = Players(room) /\ Humans(room') = Humans(room)
  BY DEF Players, Humans
<1>2. \A k : IsOver(room', k) <=> IsOver(room, k)
  BY DEF IsOver
<1>3. \A k : InRound(room', k) = InRound(room, k)
  BY DEF InRound
<1>4. RoundsAreWritten'
  <2>1. Written(room)
    BY WrittenRounds DEF FakeSound, RecordsAreWhole
  <2>2. \A S : IsWhole(room', S) <=> IsWhole(room, S)
    BY <1>1, Zenon DEF IsWhole
  <2>3. QED
    BY <1>2, <1>3, <2>1, <2>2, WrittenNext DEF Written
<1>5. Begun'
  BY SoundRoom DEF Begun
<1>6. QED
  BY <1>4, <1>5 DEF FakeSound, RecordsAreWhole

(* The steps that only turn a page: the ballots stay, too.                 *)
LEMMA NobodyVotes ==
  ASSUME FakeSound, room' \in RoomType, room'.messages = room.messages,
         room'.players = room.players, room'.round = room.round,
         room.state \in {"DISCUSSION", "VOTING"}, room'.votes = room.votes,
         room'.state \in {room.state, "VOTING"}
  PROVE  FakeSound'
<1>1. /\ Players(room') = Players(room) /\ Humans(room') = Humans(room)
      /\ Impostors(room') = Impostors(room)
  BY DEF Players, Humans, Impostors
<1>2. VotesAreWhole
  BY DEF FakeSound, RecordsAreWhole
<1>3. VotesAreWhole'
  BY <1>1, <1>2 DEF VotesAreWhole
<1>4. QED
  BY <1>3, NothingIsSaid

LEMMA OpenVotingIsSound ==
  ASSUME FakeSound, OpenVoting
  PROVE  FakeSound' /\ room'.votes = room.votes
<1>1. room \in RoomType /\ room.state = "DISCUSSION"
  BY SoundRoom DEF OpenVoting
<1>2. /\ room' \in RoomType /\ room'.messages = room.messages
      /\ room'.players = room.players /\ room'.round = room.round
      /\ room'.votes = room.votes /\ room'.state = "VOTING"
  BY <1>1 DEF OpenVoting, RoomType, Phases
<1>3. QED
  BY <1>1, <1>2, NobodyVotes

LEMMA SubmitVoteIsSound ==
  ASSUME FakeSound, NEW a \in Aliases, NEW suspect \in Aliases, SubmitVote(a, suspect)
  PROVE  /\ FakeSound'
         /\ \A b \in DOMAIN room.votes :
              b \in DOMAIN room'.votes /\ room'.votes[b] = room.votes[b]
<1> DEFINE V == DOMAIN room.votes \cup {a}
           v == [b \in V |-> IF b = a THEN suspect ELSE room.votes[b]]
<1>1. /\ room \in RoomType /\ room.state = "VOTING" /\ a \in Humans(room)
      /\ suspect \in Players(room) \ {a} /\ a \notin DOMAIN room.votes
      /\ room.votes \in Ballots /\ Len(room.players) \in 1..MaxPlayers
  BY SoundRoom DEF SubmitVote
<1>2. V \in SUBSET Aliases /\ v \in [V -> Aliases]
  BY <1>1, BallotIsAFunction
<1>3. v \in Ballots /\ DOMAIN v = V
  BY <1>2, FunctionIsABallot
<1>4. \A b \in DOMAIN room.votes : b \in V /\ v[b] = room.votes[b]
  BY <1>1
<1>5. v[a] = suspect
  OBVIOUS
<1>6. room' = [room EXCEPT !.votes = v]
  BY DEF SubmitVote
<1> HIDE DEF v
<1>7. /\ room' \in RoomType /\ room'.messages = room.messages
      /\ room'.players = room.players /\ room'.round = room.round
      /\ room'.votes = v /\ room'.state = "VOTING"
  BY <1>1, <1>3, <1>6 DEF RoomType
<1>8. /\ Players(room') = Players(room) /\ Humans(room') = Humans(room)
      /\ Impostors(room') = Impostors(room)
  BY <1>7 DEF Players, Humans, Impostors
<1>9. VotesAreWhole
  BY DEF FakeSound, RecordsAreWhole
<1>10. VotesAreWhole'
  <2>1. DOMAIN v \subseteq Humans(room)
    BY <1>1, <1>3, <1>9 DEF VotesAreWhole
  <2>2. \A b \in DOMAIN v : v[b] \in Players(room) \ {b}
    BY <1>1, <1>3, <1>4, <1>5, <1>9 DEF VotesAreWhole
  <2>3. QED
    BY <1>1, <1>7, <1>8, <1>9, <2>1, <2>2 DEF VotesAreWhole
<1>11. FakeSound'
  BY <1>1, <1>7, <1>10, NothingIsSaid
<1>12. QED
  BY <1>3, <1>4, <1>7, <1>11

(* What one poll may do: nothing, note that it has seen, open the voting   *)
(* or close it.                                                            *)
LEMMA WhatGetStateDoes ==
  ASSUME FakeSound, GetState
  PROVE  \/ room' = room
         \/ room.state = "DISCUSSION" /\ room' = [room EXCEPT !.debateSeen = TRUE]
         \/ /\ room.state = "DISCUSSION"
            /\ room' = [room EXCEPT !.state = "VOTING", !.votingSeen = TRUE]
         \/ room.state = "VOTING" /\ room' = [room EXCEPT !.votingSeen = TRUE]
         \/ room.state = "VOTING" /\ room' = CompleteVotes(room)
<1> DEFINE r == LookAtDebate(room)
<1>1. room \in RoomType /\ room' = LookAtVoting(r)
  BY SoundRoom DEF GetState
<1>2. CASE room.state # "DISCUSSION"
  <2>1. r = room
    BY <1>2 DEF LookAtDebate
  <2> HIDE DEF r
  <2>2. QED
    BY <1>1, <1>2, <2>1 DEF LookAtVoting
<1>3. CASE room.state = "DISCUSSION" /\ ~room.debateSeen
  <2>1. r = [room EXCEPT !.debateSeen = TRUE]
    BY <1>3 DEF LookAtDebate
  <2>2. r.state = "DISCUSSION"
    BY <1>1, <1>3, <2>1 DEF RoomType
  <2> HIDE DEF r
  <2>3. room' = r
    BY <1>1, <2>2 DEF LookAtVoting
  <2>4. QED
    BY <1>3, <2>1, <2>3
<1>4. CASE room.state = "DISCUSSION" /\ room.debateSeen
  <2>1. r = [room EXCEPT !.state = "VOTING", !.votingSeen = FALSE]
    BY <1>4 DEF LookAtDebate
  <2>2. r.state = "VOTING" /\ ~r.votingSeen
    BY <1>1, <2>1 DEF RoomType
  <2>3. [r EXCEPT !.votingSeen = TRUE] = [room EXCEPT !.state = "VOTING", !.votingSeen = TRUE]
    BY <1>1, <2>1 DEF RoomType
  <2> HIDE DEF r
  <2>4. room' = [r EXCEPT !.votingSeen = TRUE]
    BY <1>1, <2>2 DEF LookAtVoting
  <2>5. QED
    BY <1>4, <2>3, <2>4
<1>5. QED
  BY <1>2, <1>3, <1>4

LEMMA CompletingIsSound ==
  ASSUME FakeSound, room.state = "VOTING", room' = CompleteVotes(room)
  PROVE  /\ FakeSound' /\ room'.state = "REVEAL" /\ room'.round = room.round
         /\ \A b \in DOMAIN room.votes :
              b \in DOMAIN room'.votes /\ room'.votes[b] = room.votes[b]
<1> DEFINE V == DOMAIN room.votes \cup Humans(room)
           i == Impostor(room)
           v == [b \in V |-> IF b \in DOMAIN room.votes THEN room.votes[b] ELSE i]
<1>1. /\ room \in RoomType /\ room.votes \in Ballots /\ Len(room.players) \in 1..MaxPlayers
      /\ VotesAreWhole
  BY SoundRoom DEF FakeSound, RecordsAreWhole
<1>2. /\ Impostors(room) = {Len(room.players)} /\ Cardinality(Humans(room)) >= 2
      /\ DOMAIN room.votes \subseteq Humans(room)
      /\ \A a \in DOMAIN room.votes : room.votes[a] \in Players(room) \ {a}
  BY <1>1 DEF VotesAreWhole
<1>3. i = Len(room.players)
  BY <1>2 DEF Impostor
<1>4. i \in Impostors(room)
  BY <1>2, <1>3
<1>5. i \in Players(room) /\ i \notin Humans(room)
  BY <1>1, <1>4, RosterParts
<1> HIDE DEF i
<1>6. V = Humans(room) /\ Humans(room) \subseteq Aliases /\ Players(room) \subseteq Aliases
  BY <1>1, <1>2, RosterParts
<1>7. v \in [V -> Aliases]
  BY <1>2, <1>5, <1>6
<1>8. v \in Ballots /\ DOMAIN v = Humans(room)
  BY <1>6, <1>7, FunctionIsABallot
<1>9. \A a \in Humans(room) : v[a] \in Players(room) \ {a}
  BY <1>2, <1>5, <1>6
<1>10. \A b \in DOMAIN room.votes : b \in DOMAIN v /\ v[b] = room.votes[b]
  OBVIOUS
<1>11. room' = [room EXCEPT !.state = "REVEAL", !.votes = v]
  BY DEF CompleteVotes, i
<1> HIDE DEF v, V
<1>12. /\ room' \in RoomType /\ room'.messages = room.messages
       /\ room'.players = room.players /\ room'.round = room.round
       /\ room'.votes = v /\ room'.state = "REVEAL"
  BY <1>1, <1>8, <1>11 DEF RoomType, Phases
<1>13. /\ Players(room') = Players(room) /\ Humans(room') = Humans(room)
       /\ Impostors(room') = Impostors(room)
  BY <1>12 DEF Players, Humans, Impostors
<1>14. Rate(room')[2] = Cardinality(DOMAIN room'.votes)
  BY DEF Rate
<1>15. VotesAreWhole'
  BY <1>2, <1>8, <1>9, <1>12, <1>13, <1>14 DEF VotesAreWhole
<1>16. FakeSound'
  BY <1>12, <1>15, NothingIsSaid
<1>17. QED
  BY <1>10, <1>12, <1>16

LEMMA GetStateIsSound ==
  ASSUME FakeSound, GetState
  PROVE  /\ FakeSound'
         /\ \A b \in DOMAIN room.votes :
              b \in DOMAIN room'.votes /\ room'.votes[b] = room.votes[b]
<1>1. room \in RoomType
  BY SoundRoom
<1>2. CASE room' = room
  BY <1>2 DEF FakeSound, Begun, RecordsAreWhole, RoundsAreWritten, VotesAreWhole,
              SpokenIn, LastRoundOver
<1>3. CASE room.state = "DISCUSSION" /\ room' = [room EXCEPT !.debateSeen = TRUE]
  <2>1. /\ room' \in RoomType /\ room'.messages = room.messages
        /\ room'.players = room.players /\ room'.round = room.round
        /\ room'.votes = room.votes /\ room'.state = "DISCUSSION"
    BY <1>1, <1>3 DEF RoomType, Phases
  <2>2. QED
    BY <1>3, <2>1, NobodyVotes
<1>4. CASE /\ room.state = "DISCUSSION"
           /\ room' = [room EXCEPT !.state = "VOTING", !.votingSeen = TRUE]
  <2>1. /\ room' \in RoomType /\ room'.messages = room.messages
        /\ room'.players = room.players /\ room'.round = room.round
        /\ room'.votes = room.votes /\ room'.state = "VOTING"
    BY <1>1, <1>4 DEF RoomType, Phases
  <2>2. QED
    BY <1>4, <2>1, NobodyVotes
<1>5. CASE room.state = "VOTING" /\ room' = [room EXCEPT !.votingSeen = TRUE]
  <2>1. /\ room' \in RoomType /\ room'.messages = room.messages
        /\ room'.players = room.players /\ room'.round = room.round
        /\ room'.votes = room.votes /\ room'.state = "VOTING"
    BY <1>1, <1>5 DEF RoomType, Phases
  <2>2. QED
    BY <1>5, <2>1, NobodyVotes
<1>6. CASE room.state = "VOTING" /\ room' = CompleteVotes(room)
  BY <1>6, CompletingIsSound
<1>7. QED
  BY <1>2, <1>3, <1>4, <1>5, <1>6, WhatGetStateDoes

LEMMA InitIsSound == FakeInit => FakeSound
<1> SUFFICES ASSUME FakeInit
             PROVE  FakeSound
  OBVIOUS
<1> DEFINE v == [a \in {} |-> 0]
           p == <<FALSE>>
<1>1. v \in Ballots /\ DOMAIN v = {}
  <2>1. v \in [{} -> Aliases] /\ {} \in SUBSET Aliases
    OBVIOUS
  <2>2. QED
    BY <2>1, FunctionIsABallot
<1>2. p \in Seq(BOOLEAN) /\ Len(p) = 1 /\ p[1] = FALSE
  OBVIOUS
<1>3. room = [state |-> "LOBBY", round |-> 0, players |-> p, messages |-> {}, votes |-> v,
              votingSeen |-> FALSE, debateSeen |-> FALSE]
  BY DEF FakeInit, NewRoom
<1> HIDE DEF v, p
<1>4. /\ room \in RoomType /\ room.state = "LOBBY" /\ room.round = 0 /\ room.messages = {}
      /\ room.players = p /\ room.votes = v
  BY <1>1, <1>2, <1>3 DEF RoomType, Phases
<1>5. Impostors(room) = {}
  <2>1. DOMAIN p = {1}
    BY <1>2
  <2>2. \A a \in {1} : ~p[a]
    BY <1>2
  <2>3. QED
    BY <1>4, <2>1, <2>2, Zenon DEF Impostors, Players
<1>6. Begun
  <2>1. 1 \in 1..MaxPlayers
    OBVIOUS
  <2>2. QED
    BY <1>2, <1>4, <2>1 DEF Begun
<1>7. RoundsAreWritten
  BY <1>4, LobbyIsSilent, WrittenRounds
<1>8. VotesAreWhole
  BY <1>1, <1>4, <1>5 DEF VotesAreWhole
<1>9. QED
  BY <1>4, <1>6, <1>7, <1>8 DEF FakeSound, RecordsAreWhole

(* One call keeps the invariant, and every vote in the box.                *)
LEMMA EveryCall ==
  ASSUME FakeSound, FakeNext
  PROVE  /\ FakeSound'
         /\ \A b \in DOMAIN room.votes :
              b \in DOMAIN room'.votes /\ room'.votes[b] = room.votes[b]
<1>1. CASE JoinRoom
  <2>1. room'.votes = room.votes
    BY <1>1, SoundRoom DEF JoinRoom, RoomType
  <2>2. QED
    BY <1>1, <2>1, JoinIsSound
<1>2. CASE Start
  <2>1. room'.votes = room.votes
    BY <1>2, SoundRoom DEF Start, RoomType
  <2>2. QED
    BY <1>2, <2>1, StartIsSound
<1>3. QED
  BY <1>1, <1>2, SubmitMessageIsSound, OpenVotingIsSound, SubmitVoteIsSound,
     GetStateIsSound DEF FakeNext

----------------------------------------------------------------------------
(* The story that a server would have told is a function of the phase and  *)
(* the round, and each phase continues it.                                 *)

Opening == [type |-> "game.started"]
Ending == [type |-> "game.closed", valid |-> TRUE]

Told == {Opening, Ending} \cup [type : {"round.started", "round.completed"}, round : Nat]

Chapters(s, n) ==
  IF s = "LOBBY" THEN 0 ELSE IF s = "ROUND" THEN 2 * n
  ELSE IF s = "REVEAL" THEN 2 * n + 2 ELSE 2 * n + 1

Chapter(n, i) ==
  IF i = 1 THEN Opening ELSE IF i = 2 * n + 2 THEN Ending
  ELSE IF i % 2 = 0 THEN LC!Started(i \div 2) ELSE LC!Completed(i \div 2)

LEMMA StoryByChapters ==
  ASSUME NEW r \in RoomType
  PROVE  Story(r) = [i \in 1..Chapters(r.state, r.round) |-> Chapter(r.round, i)]
<1> DEFINE n == r.round
           m == Chapters(r.state, n)
           length == CASE r.state = "LOBBY" -> 0
                       [] r.state = "ROUND" -> 2 * n
                       [] r.state \in {"DISCUSSION", "VOTING"} -> 2 * n + 1
                       [] r.state = "REVEAL" -> 2 * n + 2
           entry(i) == CASE i = 1 -> [type |-> "game.started"]
                         [] i > 1 /\ i = 2 * n + 2 -> [type |-> "game.closed", valid |-> TRUE]
                         [] i > 1 /\ i < 2 * n + 2 /\ i % 2 = 0 ->
                              [type |-> "round.started", round |-> i \div 2]
                         [] i > 1 /\ i % 2 = 1 -> [type |-> "round.completed", round |-> i \div 2]
<1>1. r.state \in Phases /\ n \in Nat
  BY DEF RoomType
<1>2. length = m
  BY <1>1 DEF Chapters, Phases
<1>3. m \in Nat /\ m <= 2 * n + 2
  BY <1>1 DEF Chapters, Phases
<1>4. ASSUME NEW i \in 1..m
      PROVE  entry(i) = Chapter(n, i)
  <2>1. i \in Nat /\ i >= 1 /\ i <= 2 * n + 2 /\ (i % 2 = 0 \/ i % 2 = 1)
    <3> HIDE DEF m
    <3>1. i \in Nat /\ i >= 1 /\ i <= 2 * n + 2
      BY <1>1, <1>3
    <3>2. i % 2 = 0 \/ i % 2 = 1
      BY <3>1
    <3>3. QED
      BY <3>1, <3>2
  <2>2. CASE i = 1
    BY <1>1, <2>2 DEF Chapter, Opening
  <2>3. CASE i > 1 /\ i = 2 * n + 2
    BY <1>1, <2>3 DEF Chapter, Ending
  <2>4. CASE i > 1 /\ i < 2 * n + 2 /\ i % 2 = 0
    <3>1. entry(i) = [type |-> "round.started", round |-> i \div 2]
      BY <1>1, <2>1, <2>4
    <3>2. QED
      BY <1>1, <2>4, <3>1 DEF Chapter, LC!Started
  <2>5. CASE i > 1 /\ i < 2 * n + 2 /\ i % 2 = 1
    <3>1. entry(i) = [type |-> "round.completed", round |-> i \div 2]
      BY <1>1, <2>1, <2>5
    <3>2. QED
      BY <1>1, <2>5, <3>1 DEF Chapter, LC!Completed
  <2>6. QED
    BY <1>1, <2>1, <2>2, <2>3, <2>4, <2>5
<1>5. Story(r) = [i \in 1..length |-> entry(i)]
  BY Zenon DEF Story
<1> HIDE DEF m, length, entry
<1>6. Story(r) = [i \in 1..m |-> Chapter(n, i)]
  BY <1>2, <1>4, <1>5, Zenon
<1>7. QED
  BY <1>6 DEF m

LEMMA ChapterIsTold ==
  ASSUME NEW n \in Nat, NEW i \in Nat
  PROVE  Chapter(n, i) \in Told
<1>1. i \div 2 \in Nat
  OBVIOUS
<1> DEFINE h == i \div 2
<1> HIDE DEF h
<1>2. ASSUME NEW k \in Nat
      PROVE  LC!Started(k) \in Told /\ LC!Completed(k) \in Told
  BY DEF Told, LC!Started, LC!Completed
<1>3. Opening \in Told /\ Ending \in Told
  BY DEF Told
<1>4. QED
  BY <1>1, <1>2, <1>3, Zenon DEF Chapter

(* One chapter more.                                                       *)
LEMMA OneChapterMore ==
  ASSUME NEW n \in Nat, NEW q \in Nat, NEW m \in Nat,
         \A i \in 1..m : Chapter(n, i) = Chapter(q, i)
  PROVE  LET s == [i \in 1..m |-> Chapter(n, i)]
             t == [i \in 1..(m + 1) |-> Chapter(q, i)]
         IN s \in Seq(Told) /\ Len(s) = m /\ t = Append(s, Chapter(q, m + 1))
<1> DEFINE s == [i \in 1..m |-> Chapter(n, i)]
           t == [i \in 1..(m + 1) |-> Chapter(q, i)]
           e == Chapter(q, m + 1)
           u == Append(s, e)
<1>1. s \in Seq(Told) /\ Len(s) = m
  BY ChapterIsTold
<1>2. t \in Seq(Told) /\ Len(t) = m + 1
  BY ChapterIsTold
<1>3. \A i \in 1..m : t[i] = s[i]
  OBVIOUS
<1>4. t[m + 1] = e /\ e \in Told
  BY ChapterIsTold
<1> HIDE DEF s, t, e
<1>5. u \in Seq(Told) /\ Len(u) = m + 1 /\ u[m + 1] = e /\ \A i \in 1..m : u[i] = s[i]
  BY <1>1, <1>4
<1> HIDE DEF u
<1>6. \A i \in 1..(m + 1) : t[i] = u[i]
  BY <1>3, <1>4, <1>5
<1>7. t = u
  BY <1>2, <1>5, <1>6
<1>8. QED
  BY <1>1, <1>7 DEF s, t, u, e

LEMMA StoryGoesOn ==
  ASSUME NEW r \in RoomType, NEW h \in RoomType
  PROVE  /\ r.state = "LOBBY" => Story(r) = << >>
         /\ h.state = r.state /\ h.round = r.round => Story(h) = Story(r)
         /\ r.state = "LOBBY" /\ h.state = "ROUND" /\ h.round = 1 =>
              Story(h) = Append(Append(Story(r), Opening), LC!Started(1))
         /\ r.state = "ROUND" /\ h.state = "ROUND" /\ h.round = r.round + 1 /\ r.round >= 1 =>
              Story(h) = Append(Append(Story(r), LC!Completed(r.round)),
                                LC!Started(r.round + 1))
         /\ r.state = "ROUND" /\ h.state = "DISCUSSION" /\ h.round = r.round /\ r.round >= 1 =>
              Story(h) = Append(Story(r), LC!Completed(r.round))
         /\ r.state = "DISCUSSION" /\ h.state = "VOTING" /\ h.round = r.round =>
              Story(h) = Story(r)
         /\ r.state = "VOTING" /\ h.state = "REVEAL" /\ h.round = r.round /\ r.round >= 1 =>
              Story(h) = Append(Story(r), Ending) /\ Story(h)[Len(Story(r)) + 1] = Ending
<1> DEFINE n == r.round
           tell(k, m) == [i \in 1..m |-> Chapter(k, i)]
<1>1. n \in Nat /\ h.round \in Nat
  BY DEF RoomType
<1>2. Story(r) = tell(n, Chapters(r.state, n)) /\ Story(h) = tell(h.round, Chapters(h.state, h.round))
  BY StoryByChapters
<1>3. r.state = "LOBBY" => Story(r) = << >>
  BY <1>2 DEF Chapters
<1>4. h.state = r.state /\ h.round = r.round => Story(h) = Story(r)
  BY <1>2
<1>5. ASSUME r.state = "LOBBY", h.state = "ROUND", h.round = 1
      PROVE  Story(h) = Append(Append(Story(r), Opening), LC!Started(1))
  <2>1. Story(r) = tell(1, 0)
    BY <1>2, <1>5 DEF Chapters
  <2>2. Story(h) = tell(1, 2)
    BY <1>2, <1>5 DEF Chapters
  <2>3. tell(1, 1) = Append(tell(1, 0), Chapter(1, 1))
    BY OneChapterMore, 1 = 0 + 1, 0 \in Nat, 1 \in Nat
  <2>4. tell(1, 2) = Append(tell(1, 1), Chapter(1, 2))
    BY OneChapterMore, 2 = 1 + 1, 1 \in Nat
  <2>5. Chapter(1, 1) = Opening /\ Chapter(1, 2) = LC!Started(1)
    BY DEF Chapter
  <2> HIDE DEF tell
  <2>6. QED
    BY <2>1, <2>2, <2>3, <2>4, <2>5
<1>6. ASSUME r.state = "ROUND", h.state = "ROUND", h.round = n + 1, n >= 1
      PROVE  Story(h) = Append(Append(Story(r), LC!Completed(n)), LC!Started(n + 1))
  <2>1. Story(r) = tell(n, 2 * n)
    BY <1>2, <1>6 DEF Chapters
  <2>2. Story(h) = tell(n + 1, 2 * n + 2)
    BY <1>1, <1>2, <1>6 DEF Chapters
  <2>3. \A i \in 1..(2 * n) : Chapter(n, i) = Chapter(n + 1, i)
    BY <1>1, <1>6 DEF Chapter
  <2>4. 2 * n \in Nat /\ 2 * n + 1 \in Nat /\ n + 1 \in Nat /\ (2 * n + 1) + 1 = 2 * n + 2
    BY <1>1
  <2>5. tell(n + 1, 2 * n + 1) = Append(tell(n, 2 * n), Chapter(n + 1, 2 * n + 1))
    BY <1>1, <2>3, <2>4, OneChapterMore, SMTT(30)
  <2>6. tell(n + 1, (2 * n + 1) + 1) =
          Append(tell(n + 1, 2 * n + 1), Chapter(n + 1, (2 * n + 1) + 1))
    BY <1>1, <2>4, OneChapterMore, SMTT(30)
  <2>7. Chapter(n + 1, 2 * n + 1) = LC!Completed(n) /\ Chapter(n + 1, 2 * n + 2) = LC!Started(n + 1)
    BY <1>1, <1>6 DEF Chapter
  <2> HIDE DEF tell
  <2>8. QED
    BY <2>1, <2>2, <2>4, <2>5, <2>6, <2>7
<1>7. ASSUME r.state = "ROUND", h.state = "DISCUSSION", h.round = n, n >= 1
      PROVE  Story(h) = Append(Story(r), LC!Completed(n))
  <2>1. Story(r) = tell(n, 2 * n) /\ Story(h) = tell(n, 2 * n + 1)
    BY <1>1, <1>2, <1>7 DEF Chapters
  <2>2. 2 * n \in Nat
    BY <1>1
  <2>3. tell(n, 2 * n + 1) = Append(tell(n, 2 * n), Chapter(n, 2 * n + 1))
    BY <1>1, <2>2, OneChapterMore
  <2>4. Chapter(n, 2 * n + 1) = LC!Completed(n)
    BY <1>1, <1>7 DEF Chapter
  <2> HIDE DEF tell
  <2>5. QED
    BY <2>1, <2>3, <2>4
<1>8. ASSUME r.state = "DISCUSSION", h.state = "VOTING", h.round = n
      PROVE  Story(h) = Story(r)
  BY <1>2, <1>8 DEF Chapters
<1>9. ASSUME r.state = "VOTING", h.state = "REVEAL", h.round = n, n >= 1
      PROVE  Story(h) = Append(Story(r), Ending) /\ Story(h)[Len(Story(r)) + 1] = Ending
  <2>1. Story(r) = tell(n, 2 * n + 1) /\ Story(h) = tell(n, 2 * n + 2)
    BY <1>1, <1>2, <1>9 DEF Chapters
  <2>2. 2 * n + 1 \in Nat /\ (2 * n + 1) + 1 = 2 * n + 2
    BY <1>1
  <2>3. /\ tell(n, (2 * n + 1) + 1) = Append(tell(n, 2 * n + 1), Chapter(n, (2 * n + 1) + 1))
        /\ Len(tell(n, 2 * n + 1)) = 2 * n + 1
    BY <1>1, <2>2, OneChapterMore
  <2>4. Chapter(n, 2 * n + 2) = Ending
    BY <1>1, <1>9 DEF Chapter
  <2>5. tell(n, 2 * n + 2)[2 * n + 2] = Ending
    BY <1>1, <2>4
  <2> HIDE DEF tell
  <2>6. QED
    BY <2>1, <2>2, <2>3, <2>4, <2>5
<1>10. QED
  BY <1>3, <1>4, <1>5, <1>6, <1>7, <1>8, <1>9

----------------------------------------------------------------------------
(* What the screens see of a call.                                         *)

Turns(r, h) ==
  \/ h.state = r.state /\ h.round = r.round
  \/ r.state = "LOBBY" /\ h.state = "ROUND" /\ h.round = 1
  \/ r.state = "ROUND" /\ h.state = "ROUND" /\ h.round = r.round + 1 /\ r.round < Rounds
  \/ r.state = "ROUND" /\ h.state = "DISCUSSION" /\ h.round = r.round /\ r.round = Rounds
  \/ r.state = "DISCUSSION" /\ h.state = "VOTING" /\ h.round = r.round
  \/ r.state = "VOTING" /\ h.state = "REVEAL" /\ h.round = r.round

LEMMA SubmitTurns ==
  ASSUME FakeSound, NEW a \in Aliases, NEW text \in Texts, SubmitMessage(a, text)
  PROVE  Turns(room, room')
<1> DEFINE r == room
           t == r.messages \cup Chorus(r.round, Players(r), a)
           h == [r EXCEPT !.messages = t]
<1>1. /\ r \in RoomType /\ r.state = "ROUND" /\ r.round \in 1..Rounds /\ a \in Humans(r)
      /\ Len(r.players) \in 1..MaxPlayers
  BY SoundRoom DEF SubmitMessage
<1>2. Current(r) = {}
  <2>1. Written(r) /\ ~IsOver(r, r.round)
    BY <1>1, WrittenRounds DEF FakeSound, RecordsAreWhole, IsOver
  <2>2. InRound(r, r.round) = {}
    BY <1>1, <2>1 DEF Written
  <2>3. QED
    BY <2>2 DEF InRound, Current
<1>3. /\ h \in RoomType
      /\ room' = IF r.round < Rounds THEN [h EXCEPT !.round = r.round + 1]
                                     ELSE [h EXCEPT !.state = "DISCUSSION"]
  BY <1>1, <1>2, RoundIsWritten DEF SubmitMessage
<1>4. h.round = r.round /\ h.state = "ROUND"
  BY <1>1 DEF RoomType
<1> HIDE DEF h
<1>5. QED
  BY <1>1, <1>3, <1>4 DEF Turns, RoomType

LEMMA EveryCallTurns ==
  ASSUME FakeSound, FakeNext
  PROVE  Turns(room, room')
<1>1. room \in RoomType
  BY SoundRoom
<1>2. CASE JoinRoom
  BY <1>1, <1>2 DEF JoinRoom, RoomType, Turns
<1>3. CASE Start
  BY <1>1, <1>3 DEF Start, RoomType, Turns
<1>4. CASE OpenVoting
  BY <1>1, <1>4 DEF OpenVoting, RoomType, Turns
<1>5. ASSUME NEW a \in Aliases, NEW s \in Aliases, SubmitVote(a, s)
      PROVE  Turns(room, room')
  BY <1>1, <1>5 DEF SubmitVote, RoomType, Turns
<1>6. CASE GetState
  <2>1. CASE room.state = "VOTING" /\ room' = CompleteVotes(room)
    BY <2>1, CompletingIsSound DEF Turns
  <2>2. CASE ~(room.state = "VOTING" /\ room' = CompleteVotes(room))
    <3>1. \/ room' = room
          \/ room.state = "DISCUSSION" /\ room' = [room EXCEPT !.debateSeen = TRUE]
          \/ /\ room.state = "DISCUSSION"
             /\ room' = [room EXCEPT !.state = "VOTING", !.votingSeen = TRUE]
          \/ room.state = "VOTING" /\ room' = [room EXCEPT !.votingSeen = TRUE]
      BY <1>6, <2>2, WhatGetStateDoes
    <3>2. QED
      BY <1>1, <3>1 DEF RoomType, Turns
  <2>3. QED
    BY <2>1, <2>2
<1>7. QED
  BY <1>2, <1>3, <1>4, <1>5, <1>6, SubmitTurns DEF FakeNext

LEMMA StoryStep ==
  ASSUME FakeSound, FakeNext
  PROVE  LC!Next \/ UNCHANGED LC!vars
<1>1. /\ room \in RoomType /\ room' \in RoomType /\ Turns(room, room')
      /\ room.state # "LOBBY" => room.round >= 1
  BY EveryCall, EveryCallTurns, SoundRoom DEF FakeSound
<1>2. Story(room)' = Story(room')
  OBVIOUS
<1>3. CASE room'.state = room.state /\ room'.round = room.round
  <2>1. Story(room') = Story(room)
    BY <1>1, <1>3, StoryGoesOn
  <2>2. QED
    BY <1>3, <2>1 DEF LC!vars
<1>4. CASE room.state = "LOBBY" /\ room'.state = "ROUND" /\ room'.round = 1
  <2>1. Story(room') = Append(Append(Story(room), Opening), LC!Started(1))
    BY <1>1, <1>4, StoryGoesOn
  <2>2. LC!StartGame
    BY <1>4, <2>1 DEF LC!StartGame, Opening
  <2>3. QED
    BY <2>2 DEF LC!Next
<1>5. CASE /\ room.state = "ROUND" /\ room'.state = "ROUND"
           /\ room'.round = room.round + 1 /\ room.round < Rounds
  <2>1. Story(room') = Append(Append(Story(room), LC!Completed(room.round)),
                              LC!Started(room.round + 1))
    BY <1>1, <1>5, StoryGoesOn
  <2>2. LC!AdvanceRound
    BY <1>5, <2>1 DEF LC!AdvanceRound
  <2>3. QED
    BY <2>2 DEF LC!Next
<1>6. CASE /\ room.state = "ROUND" /\ room'.state = "DISCUSSION"
           /\ room'.round = room.round /\ room.round = Rounds
  <2>1. Story(room') = Append(Story(room), LC!Completed(room.round))
    BY <1>1, <1>6, StoryGoesOn
  <2>2. LC!StartDiscussion
    BY <1>6, <2>1 DEF LC!StartDiscussion
  <2>3. QED
    BY <2>2 DEF LC!Next
<1>7. CASE room.state = "DISCUSSION" /\ room'.state = "VOTING" /\ room'.round = room.round
  <2>1. Story(room') = Story(room)
    BY <1>1, <1>7, StoryGoesOn
  <2>2. LC!StartVoting
    BY <1>7, <2>1 DEF LC!StartVoting
  <2>3. QED
    BY <2>2 DEF LC!Next
<1>8. CASE room.state = "VOTING" /\ room'.state = "REVEAL" /\ room'.round = room.round
  <2>1. /\ Story(room') = Append(Story(room), Ending)
        /\ Story(room')[Len(Story(room)) + 1] = Ending
    BY <1>1, <1>8, StoryGoesOn
  <2>2. Ending.type = "game.closed"
    BY DEF Ending
  <2>3. LC!Reveal
    BY <1>8, <2>1, <2>2 DEF LC!Reveal, LC!Active
  <2>4. QED
    BY <2>3 DEF LC!Next
<1>9. QED
  BY <1>1, <1>3, <1>4, <1>5, <1>6, <1>7, <1>8 DEF Turns

(* The strengthening holds of every behaviour of the room, whichever       *)
(* browsers call, in whatever order.                                       *)
THEOREM FakeIsSound == FakeSpec => []FakeSound
<1>1. FakeInit => FakeSound
  BY InitIsSound
<1>2. FakeSound /\ [FakeNext]_room => FakeSound'
  <2>1. ASSUME FakeSound, UNCHANGED room
        PROVE  FakeSound'
    BY <2>1 DEF FakeSound, Begun, RecordsAreWhole, RoundsAreWritten, VotesAreWhole,
                SpokenIn, LastRoundOver
  <2>2. QED
    BY <2>1, EveryCall
<1>3. QED
  BY <1>1, <1>2, PTL DEF FakeSpec

(* Every round that is over has a message of each player and one that a    *)
(* human wrote; everybody has a vote in the result, and the impostor is    *)
(* the last of the players.                                                *)
THEOREM FakeKeepsWholeRecords == FakeSpec => []RecordsAreWhole
<1>1. FakeSound => RecordsAreWhole
  BY DEF FakeSound
<1>2. QED
  BY <1>1, FakeIsSound, PTL

(* The fake goes through the phases of a game, with the events a server    *)
(* would have published, one call one step or none; and keeps the votes.   *)
THEOREM FakeFollowsLifecycle == FakeSpec => FakePlaysTheGame
<1>1. FakeInit => LC!Init
  <2> SUFFICES ASSUME FakeInit
               PROVE  LC!Init
    OBVIOUS
  <2>1. room \in RoomType
    BY InitIsSound, SoundRoom
  <2>2. room.state = "LOBBY" /\ room.round = 0
    BY DEF FakeInit, NewRoom
  <2>3. Story(room) = << >>
    BY <2>1, <2>2, StoryGoesOn
  <2>4. QED
    BY <2>2, <2>3 DEF LC!Init
<1>2. FakeSound /\ [FakeNext]_room => [LC!Next]_(LC!vars)
  <2>1. ASSUME UNCHANGED room
        PROVE  UNCHANGED LC!vars
    BY <2>1 DEF LC!vars
  <2>2. QED
    BY <2>1, StoryStep
<1>3. FakeSound /\ [FakeNext]_room =>
        [\A a \in DOMAIN room.votes :
           a \in DOMAIN room'.votes /\ room'.votes[a] = room.votes[a]]_room
  BY EveryCall
<1>4. QED
  BY <1>1, <1>2, <1>3, FakeIsSound, PTL
     DEF FakeSpec, FakePlaysTheGame, LC!Spec, VotesAreKept

=============================================================================
