---------------------------- MODULE LobbyProofs ----------------------------
(***************************************************************************)
(* Whatever the interleaving of any number of joins with the starts of the *)
(* host: at most one impostor, two humans in a game that begins, and the   *)
(* host in its place; a roster that stays within its bound, although no    *)
(* step checks one; and where requests do not overlap, one human for each  *)
(* token.                                                                  *)
(*                                                                         *)
(* A join may overwrite a player, but only with a human, and never the     *)
(* first: its alias was computed when there was one.  The impostor is      *)
(* written by the host alone, after it found none; so humans are lost only *)
(* while the host is at that write, and it counts them later.              *)
(***************************************************************************)
EXTENDS Lobby, GameProofs

Fields == {"state", "round", "players", "window", "events"}

Seated(g) ==
  /\ Fields \subseteq DOMAIN g
  /\ g.players \in Seq(BOOLEAN) /\ Len(g.players) >= 1 /\ ~g.players[1]
  /\ Cardinality(Impostors(g)) <= 1

(* What a thread relies on between its steps.                              *)
Threads ==
  /\ pc \in [Callers -> Labels] /\ mine \in [Callers -> Nat]
  /\ answer \in [Callers -> Codes]
  /\ \A t \in Callers : pc[t] \in {"store", "token"} =>
       mine[t] >= 2 /\ mine[t] <= Len(game.players) + 1
  /\ pc[Host] \notin {"idle", "done"} => game.state = "LOBBY"
  /\ pc[Host] \in {"name", "store"} => Impostors(game) = {}

EnoughHumans ==
  game.state # "LOBBY" \/ pc[Host] = "begin" => Cardinality(Humans(game)) >= 2

HostHasItsPlace == \A t \in DOMAIN tokens : tokens[t] = 1 <=> t = Host

LobbySound == Seated(game) /\ Threads /\ EnoughHumans /\ HostHasItsPlace

----------------------------------------------------------------------------
LEMMA RosterIsFinite ==
  ASSUME NEW g, Seated(g)
  PROVE  IsFiniteSet(Impostors(g)) /\ IsFiniteSet(Humans(g)) /\ 1 \in Humans(g)
<1>1. DOMAIN g.players = 1..Len(g.players) /\ Len(g.players) \in Nat
  BY DEF Seated
<1>2. IsFiniteSet(1..Len(g.players))
  BY <1>1, FS_Interval
<1>3. Impostors(g) \subseteq 1..Len(g.players) /\ Humans(g) \subseteq 1..Len(g.players)
  BY <1>1 DEF Impostors, Humans, Players
<1>4. 1 \in Humans(g)
  BY <1>1 DEF Seated, Humans, Players
<1>5. QED  BY <1>2, <1>3, <1>4, FS_Subset

(* The write of a player, at the end or over another.                      *)
LEMMA PuttingSeats ==
  ASSUME NEW g, Seated(g), NEW n \in Nat, n >= 2, n <= Len(g.players) + 1, NEW ai \in BOOLEAN,
         ai => Impostors(g) = {}
  PROVE  LET h == PutPlayer(g, n, ai)
         IN /\ Seated(h) /\ h.state = g.state /\ Len(h.players) >= Len(g.players)
            /\ h = [g EXCEPT !.players = h.players]
            /\ Players(h) = Players(g) \cup {n}
            /\ Humans(h) = IF ai THEN Humans(g) \ {n} ELSE Humans(g) \cup {n}
            /\ ~ai => /\ Impostors(h) \subseteq Impostors(g)
                      /\ Cardinality(Humans(g)) <= Cardinality(Humans(h))
<1> DEFINE h == PutPlayer(g, n, ai)
           m == Len(g.players)
<1>1. m \in Nat /\ m >= 1 /\ DOMAIN g.players = 1..m
  BY DEF Seated
<1>2. PICK k \in Nat : k \in {m, m + 1} /\ (1..m) \cup {n} = 1..k
  <2>1. CASE n <= m
    BY <1>1, <2>1
  <2>2. CASE n = m + 1
    BY <1>1, <2>2
  <2>3. QED  BY <1>1, <2>1, <2>2
<1>3. /\ h.players = [a \in 1..k |-> IF a = n THEN ai ELSE g.players[a]]
      /\ h.state = g.state /\ Fields \subseteq DOMAIN h
      /\ h = [g EXCEPT !.players = h.players]
  BY <1>1, <1>2 DEF Seated, Fields, PutPlayer
<1> HIDE DEF h
<1>4. \A a \in 1..k : a # n => a \in 1..m
  BY <1>2
<1>5. /\ h.players \in [1..k -> BOOLEAN] /\ DOMAIN h.players = 1..k
      /\ h.players[n] = ai /\ \A a \in 1..k : a # n => h.players[a] = g.players[a]
  <2>1. \A a \in 1..k : a # n => g.players[a] \in BOOLEAN
    BY <1>1, <1>4 DEF Seated
  <2>2. n \in 1..k
    BY <1>2
  <2>3. QED  BY <1>3, <2>1, <2>2
<1>6. h.players \in Seq(BOOLEAN) /\ Len(h.players) = k /\ k >= m /\ k >= 1
  BY <1>1, <1>2, <1>5
<1>7. ~h.players[1]
  <2>1. 1 \in 1..k /\ n # 1
    BY <1>6
  <2>2. QED  BY <1>5, <2>1 DEF Seated
<1>8. \A a : a \in Impostors(h) <=> (a = n /\ ai) \/ (a # n /\ a \in Impostors(g))
  <2>1. \A a : a \in Impostors(h) <=> a \in 1..k /\ h.players[a]
    BY <1>5 DEF Impostors, Players
  <2>2. \A a : a \in Impostors(g) <=> a \in 1..m /\ g.players[a]
    BY <1>1 DEF Impostors, Players
  <2>3. n \in 1..k /\ \A a : a \in 1..k /\ a # n <=> a \in 1..m /\ a # n
    BY <1>2
  <2>4. ASSUME NEW a, a # n
        PROVE  a \in Impostors(h) <=> a \in Impostors(g)
    BY <1>5, <2>1, <2>2, <2>3, <2>4
  <2>5. n \in Impostors(h) <=> ai
    BY <1>5, <2>1, <2>3
  <2>6. QED  BY <2>4, <2>5
<1>9. IsFiniteSet(Impostors(g)) /\ Cardinality(Impostors(g)) <= 1
  BY RosterIsFinite DEF Seated
<1>10. Cardinality(Impostors(h)) <= 1
  <2>1. CASE ai
    <3>1. Impostors(g) = {}
      BY <2>1
    <3>2. Impostors(h) = {n}
      BY <1>8, <2>1, <3>1
    <3>3. Cardinality({n}) = 1
      BY FS_Singleton
    <3>4. QED  BY <3>2, <3>3
  <2>2. CASE ~ai
    <3>1. Impostors(h) \subseteq Impostors(g)
      BY <1>8, <2>2
    <3>2. /\ Cardinality(Impostors(h)) <= Cardinality(Impostors(g))
          /\ Cardinality(Impostors(h)) \in Nat /\ Cardinality(Impostors(g)) \in Nat
      BY <1>9, <3>1, FS_Subset, FS_CardinalityType
    <3>3. QED  BY <1>9, <3>2
  <2>3. QED  BY <2>1, <2>2
<1>11. Seated(h)
  BY <1>3, <1>6, <1>7, <1>10 DEF Seated
<1>12. ASSUME ~ai  PROVE /\ Impostors(h) \subseteq Impostors(g)
                        /\ Cardinality(Humans(g)) <= Cardinality(Humans(h))
  <2>1. Humans(g) \subseteq Humans(h)
    BY <1>1, <1>2, <1>5, <1>12 DEF Humans, Players
  <2>2. QED  BY <1>8, <1>11, <1>12, <2>1, RosterIsFinite, FS_Subset
<1>13. Players(h) = Players(g) \cup {n}
  BY <1>1, <1>2, <1>5 DEF Players
<1>14. Humans(h) = IF ai THEN Humans(g) \ {n} ELSE Humans(g) \cup {n}
  <2>1. \A a : a \in Humans(h) <=> a \in Players(g) \cup {n} /\ ~h.players[a]
    BY <1>13 DEF Humans
  <2>2. \A a \in Players(g) : a # n => h.players[a] = g.players[a]
    BY <1>1, <1>2, <1>5 DEF Players
  <2>3. h.players[n] = ai
    BY <1>5
  <2>4. ASSUME NEW a, a # n  PROVE a \in Humans(h) <=> a \in Humans(g)
    BY <2>1, <2>2, <2>4 DEF Humans
  <2>5. n \in Humans(h) <=> ~ai
    BY <2>1, <2>3
  <2>6. QED  BY <2>4, <2>5
<1>15. QED  BY <1>3, <1>6, <1>11, <1>12, <1>13, <1>14 DEF h

----------------------------------------------------------------------------
(* A step that writes only where a thread is.                              *)
LEMMA WalkingIsSound ==
  ASSUME LobbySound, NEW t \in Callers, NEW label \in Labels, Goto(t, label),
         UNCHANGED <<game, tokens, mine>>,
         answer' = answer \/ \E c \in Codes : answer' = [answer EXCEPT ![t] = c],
         label \notin {"store", "token"},
         t = Host => /\ label \notin {"idle", "done"} => game.state = "LOBBY"
                     /\ label = "name" => Impostors(game) = {}
                     /\ label = "begin" => Cardinality(Humans(game)) >= 2
  PROVE  LobbySound'
<1>1. /\ pc' \in [Callers -> Labels] /\ answer' \in [Callers -> Codes]
      /\ pc'[t] = label /\ \A u \in Callers : u # t => pc'[u] = pc[u]
  BY DEF LobbySound, Threads, Goto
<1>2. Host \in Callers
  BY DEF Callers
<1>3. Threads'
  BY <1>1, <1>2 DEF LobbySound, Threads
<1>4. EnoughHumans'
  BY <1>1, <1>2 DEF LobbySound, EnoughHumans
<1>5. QED  BY <1>3, <1>4 DEF LobbySound, HostHasItsPlace

LEMMA ArrivingIsSound ==
  ASSUME LobbySound, NEW t \in Callers, NEW label \in {"name", "scan"}, t = Host => label = "scan",
         Arrive(t, label)
  PROVE  LobbySound'
<1>1. CASE game.state = "LOBBY"
  BY <1>1, WalkingIsSound DEF Arrive, Labels
<1>2. CASE game.state # "LOBBY"
  BY <1>2, WalkingIsSound DEF Arrive, Reply, Labels, Codes
<1>3. QED  BY <1>1, <1>2

LEMMA NamingIsSound ==
  ASSUME LobbySound, NEW t \in Callers, NamePlayer(t, "name", "store")
  PROVE  LobbySound'
<1>1. /\ pc[t] = "name" /\ mine' = [mine EXCEPT ![t] = Len(game.players) + 1]
      /\ Goto(t, "store") /\ UNCHANGED <<game, tokens, answer>>
  BY DEF NamePlayer, NextAlias
<1>2. Len(game.players) \in Nat /\ Len(game.players) >= 1
  BY DEF LobbySound, Seated
<1>3. /\ pc' \in [Callers -> Labels] /\ pc'[t] = "store"
      /\ \A u \in Callers : u # t => pc'[u] = pc[u]
  BY <1>1 DEF LobbySound, Threads, Goto, Labels
<1>4. /\ mine' \in [Callers -> Nat] /\ mine'[t] = Len(game.players) + 1
      /\ \A u \in Callers : u # t => mine'[u] = mine[u]
  BY <1>1, <1>2 DEF LobbySound, Threads
<1>5. Host \in Callers
  BY DEF Callers
<1>6. Threads'
  BY <1>1, <1>2, <1>3, <1>4, <1>5 DEF LobbySound, Threads
<1>7. EnoughHumans'
  BY <1>1, <1>3, <1>5 DEF LobbySound, EnoughHumans
<1>8. QED  BY <1>1, <1>6, <1>7 DEF LobbySound, HostHasItsPlace

LEMMA StoringIsSound ==
  ASSUME LobbySound, NEW t \in Callers, NEW ai \in BOOLEAN, ai = (t = Host),
         NEW next \in {"token", "count"}, next = "token" <=> t # Host,
         StorePlayer(t, ai, "store", next)
  PROVE  LobbySound'
<1> DEFINE h == PutPlayer(game, mine[t], ai)
<1>1. /\ pc[t] = "store" /\ game' = h /\ Goto(t, next) /\ UNCHANGED <<tokens, mine, answer>>
      /\ Host \in Callers
  BY DEF StorePlayer, Callers
<1>2. /\ mine[t] \in Nat /\ mine[t] >= 2 /\ mine[t] <= Len(game.players) + 1
      /\ ai => Impostors(game) = {} /\ game.state = "LOBBY"
  BY <1>1 DEF LobbySound, Threads
<1>3. /\ Seated(h) /\ h.state = game.state /\ Len(h.players) >= Len(game.players)
      /\ ~ai => /\ Impostors(h) \subseteq Impostors(game)
                /\ Cardinality(Humans(game)) <= Cardinality(Humans(h))
  BY <1>2, PuttingSeats DEF LobbySound
<1> HIDE DEF h
<1>4. /\ pc' \in [Callers -> Labels] /\ pc'[t] = next
      /\ \A u \in Callers : u # t => pc'[u] = pc[u]
  BY <1>1 DEF LobbySound, Threads, Goto, Labels
<1>5. /\ Len(h.players) \in Nat /\ Len(game.players) \in Nat
      /\ Cardinality(Humans(game)) \in Nat /\ Cardinality(Humans(h)) \in Nat
  BY <1>3, RosterIsFinite, FS_CardinalityType DEF LobbySound, Seated
<1>6. \A u \in Callers : pc'[u] \in {"store", "token"} =>
        mine[u] >= 2 /\ mine[u] <= Len(h.players) + 1
  <2> SUFFICES ASSUME NEW u \in Callers, pc'[u] \in {"store", "token"}
               PROVE  mine[u] >= 2 /\ mine[u] <= Len(h.players) + 1
    OBVIOUS
  <2>1. pc[u] \in {"store", "token"}
    BY <1>1, <1>4
  <2>2. mine[u] \in Nat /\ mine[u] >= 2 /\ mine[u] <= Len(game.players) + 1
    BY <2>1 DEF LobbySound, Threads
  <2>3. QED  BY <1>3, <1>5, <2>2
<1>7. pc'[Host] \notin {"idle", "done"} => h.state = "LOBBY"
  BY <1>1, <1>2, <1>3, <1>4 DEF LobbySound, Threads
<1>8. pc'[Host] \in {"name", "store"} => Impostors(h) = {}
  BY <1>1, <1>3, <1>4 DEF LobbySound, Threads
<1>9. Threads'
  BY <1>1, <1>4, <1>6, <1>7, <1>8 DEF LobbySound, Threads
<1>10. EnoughHumans'
  <2>1. CASE t = Host
    BY <1>1, <1>2, <1>3, <1>4, <2>1 DEF EnoughHumans
  <2>2. CASE t # Host
    <3>1. pc'[Host] = pc[Host] /\ game'.state = game.state
      BY <1>1, <1>3, <1>4, <2>2
    <3>2. Cardinality(Humans(game)) >= 2 => Cardinality(Humans(game')) >= 2
      <4>1. game' = h /\ Cardinality(Humans(game)) <= Cardinality(Humans(h))
        BY <1>1, <1>3, <2>2
      <4> DEFINE x == Cardinality(Humans(game))
                 y == Cardinality(Humans(h))
      <4>2. x \in Nat /\ y \in Nat /\ x <= y
        BY <1>5, <4>1
      <4> HIDE DEF x, y
      <4>3. x >= 2 => y >= 2
        BY <4>2
      <4>4. QED  BY <4>1, <4>3 DEF x, y
    <3>3. QED  BY <3>1, <3>2 DEF LobbySound, EnoughHumans
  <2>3. QED  BY <2>1, <2>2
<1>11. QED  BY <1>1, <1>3, <1>9, <1>10 DEF LobbySound, HostHasItsPlace

LEMMA IssuingIsSound ==
  ASSUME LobbySound, NEW t \in Joiners, IssueToken(t)
  PROVE  LobbySound'
<1>1. /\ pc[t] = "token" /\ Goto(t, "done") /\ UNCHANGED <<game, mine>>
      /\ answer' = [answer EXCEPT ![t] = "created"]
      /\ tokens' = [u \in DOMAIN tokens \cup {t} |-> IF u = t THEN mine[t] ELSE tokens[u]]
  BY DEF IssueToken, Reply
<1>2. t \in Callers /\ t # Host /\ Host \in Callers
  BY LobbyAssumption DEF Callers
<1>3. mine[t] \in Nat /\ mine[t] >= 2
  BY <1>1, <1>2 DEF LobbySound, Threads
<1>4. HostHasItsPlace'
  BY <1>1, <1>2, <1>3 DEF LobbySound, HostHasItsPlace
<1>5. /\ pc' \in [Callers -> Labels] /\ answer' \in [Callers -> Codes]
      /\ pc'[t] = "done" /\ \A u \in Callers : u # t => pc'[u] = pc[u]
  BY <1>1, <1>2 DEF LobbySound, Threads, Goto, Labels, Codes
<1>6. Threads'
  BY <1>1, <1>2, <1>5 DEF LobbySound, Threads
<1>7. EnoughHumans'
  BY <1>1, <1>2, <1>5 DEF LobbySound, EnoughHumans
<1>8. QED  BY <1>1, <1>4, <1>6, <1>7 DEF LobbySound

LEMMA BeginningIsSound ==
  ASSUME LobbySound, BeginGame
  PROVE  LobbySound'
<1> DEFINE h == Start(game)
<1>1. /\ pc[Host] = "begin" /\ game' = h /\ Goto(Host, "idle") /\ Host \in Callers
      /\ answer' = [answer EXCEPT ![Host] = "no_content"] /\ UNCHANGED <<tokens, mine>>
  BY DEF BeginGame, Reply, Callers
<1>2. h.players = game.players /\ Fields \subseteq DOMAIN h
  BY DEF LobbySound, Seated, Fields, Start, Emit, SetDeadline
<1> HIDE DEF h
<1>3. Impostors(h) = Impostors(game) /\ Humans(h) = Humans(game)
  BY <1>2 DEF Impostors, Humans, Players
<1>4. /\ pc' \in [Callers -> Labels] /\ answer' \in [Callers -> Codes]
      /\ pc'[Host] = "idle" /\ \A u \in Callers : u # Host => pc'[u] = pc[u]
  BY <1>1 DEF LobbySound, Threads, Goto, Labels, Codes
<1>5. Seated(h)
  BY <1>2, <1>3 DEF LobbySound, Seated
<1>6. Threads'
  BY <1>1, <1>2, <1>3, <1>4 DEF LobbySound, Threads
<1>7. EnoughHumans'
  BY <1>1, <1>3 DEF LobbySound, EnoughHumans
<1>8. QED  BY <1>1, <1>5, <1>6, <1>7 DEF LobbySound, HostHasItsPlace

(* The other steps of a start: loops over the players.                     *)
LEMMA LoopingIsSound ==
  ASSUME LobbySound, NEW here \in {"scan", "scanning", "count", "counting"},
         NEW next \in {"scanning", "counting"},
         BeginLoop(here, next) \/ LoopBroken(here)
  PROVE  LobbySound'
<1>1. Host \in Callers /\ pc[Host] = here /\ UNCHANGED <<game, tokens, mine>>
  BY DEF BeginLoop, LoopBroken, Callers
<1>2. game.state = "LOBBY"
  BY <1>1 DEF LobbySound, Threads
<1>3. CASE BeginLoop(here, next)
  BY <1>1, <1>2, <1>3, WalkingIsSound DEF BeginLoop, Labels
<1>4. CASE LoopBroken(here)
  <2>1. Goto(Host, "idle") /\ answer' = [answer EXCEPT ![Host] = "internal"]
    BY <1>4 DEF LoopBroken, Reply
  <2>2. "idle" \in Labels /\ "internal" \in Codes
    BY DEF Labels, Codes
  <2>3. QED  BY <1>1, <2>1, <2>2, WalkingIsSound
<1>5. QED  BY <1>3, <1>4

LEMMA FindingIsSound ==
  ASSUME LobbySound, FindImpostor \/ CountRoster
  PROVE  LobbySound'
<1>1. Host \in Callers /\ UNCHANGED <<game, tokens, mine>> /\ game.state = "LOBBY"
  BY DEF FindImpostor, CountRoster, RejectStart, Callers, LobbySound, Threads
<1>2. CASE RejectStart
  <2>1. Goto(Host, "idle") /\ answer' = [answer EXCEPT ![Host] = "invalid_roster"]
    BY <1>2 DEF RejectStart, Reply
  <2>2. "idle" \in Labels /\ "invalid_roster" \in Codes
    BY DEF Labels, Codes
  <2>3. QED  BY <1>1, <2>1, <2>2, WalkingIsSound
<1>3. CASE FindImpostor /\ MayAddImpostor(game)
  <2>1. Goto(Host, "name") /\ answer' = answer /\ "name" \in Labels
        /\ Impostors(game) = {}
    BY <1>3 DEF FindImpostor, MayAddImpostor, Labels
  <2>2. QED  BY <1>1, <2>1, WalkingIsSound
<1>4. CASE CountRoster /\ EnoughPlayers(game)
  <2>1. Goto(Host, "begin") /\ answer' = answer /\ "begin" \in Labels
        /\ Cardinality(Humans(game)) >= 2
    BY <1>4 DEF CountRoster, EnoughPlayers, Labels
  <2>2. QED  BY <1>1, <2>1, WalkingIsSound
<1>5. QED  BY <1>2, <1>3, <1>4 DEF FindImpostor, CountRoster

----------------------------------------------------------------------------
LEMMA LobbyStepIsSound ==
  ASSUME LobbySound, [LobbyNext]_lobbyVars
  PROVE  LobbySound'
<1>1. Host \in Callers /\ Joiners \subseteq Callers /\ Host \notin Joiners
  BY LobbyAssumption DEF Callers
<1>2. CASE StartRequest
  <2>1. CASE StartArrives
    BY <1>1, <2>1, ArrivingIsSound DEF StartArrives
  <2>2. CASE NamePlayer(Host, "name", "store") \/ StorePlayer(Host, TRUE, "store", "count")
    BY <1>1, <2>2, NamingIsSound, StoringIsSound
  <2>3. QED
    BY <1>2, <2>1, <2>2, LoopingIsSound, FindingIsSound, BeginningIsSound DEF StartRequest
<1>3. ASSUME NEW t \in Joiners, JoinRequest(t)  PROVE LobbySound'
  <2>1. t \in Callers /\ t # Host
    BY <1>1
  <2>2. CASE JoinArrives(t)
    BY <2>1, <2>2, ArrivingIsSound DEF JoinArrives
  <2>3. CASE StorePlayer(t, FALSE, "store", "token")
    BY <2>1, <2>3, StoringIsSound
  <2>4. QED  BY <1>3, <2>1, <2>2, <2>3, NamingIsSound, IssuingIsSound DEF JoinRequest
<1>4. CASE UNCHANGED lobbyVars
  BY <1>4 DEF lobbyVars, LobbySound, Threads, EnoughHumans, HostHasItsPlace
<1>5. QED  BY <1>2, <1>3, <1>4 DEF LobbyNext

LEMMA LobbyInitIsSound == LobbyInit => LobbySound
<1> SUFFICES ASSUME LobbyInit  PROVE LobbySound
  OBVIOUS
<1>1. /\ game = [NewGame EXCEPT !.players = <<FALSE>>] /\ NewGame.state = "LOBBY"
      /\ Fields \subseteq DOMAIN NewGame
  BY DEF LobbyInit, AddPlayer, NewGame, Fields
<1> HIDE DEF NewGame
<1>2. game.players = <<FALSE>> /\ game.state = "LOBBY" /\ Fields \subseteq DOMAIN game
  BY <1>1 DEF Fields
<1>3. Impostors(game) = {}
  <2>1. DOMAIN game.players = {1} /\ game.players[1] = FALSE
    BY <1>2
  <2>2. QED  BY <2>1 DEF Impostors, Players
<1>4. Seated(game)
  BY <1>2, <1>3, FS_EmptySet DEF Seated
<1>5. Threads /\ EnoughHumans /\ HostHasItsPlace
  BY <1>2 DEF LobbyInit, Threads, EnoughHumans, HostHasItsPlace, Labels, Codes, None, Callers
<1>6. QED  BY <1>4, <1>5 DEF LobbySound

(* However many joins overlap with a start, and wherever the interpreter   *)
(* switches between them: one impostor at the most, two humans in a game   *)
(* that has begun, and the host among them, under its own token.           *)
THEOREM OverlapIsFair == LobbySpec => []RosterStaysFair
<1>1. LobbySound => RosterStaysFair
  BY RosterIsFinite DEF LobbySound, Seated, EnoughHumans, HostHasItsPlace, RosterStaysFair
<1>2. LobbySound /\ [LobbyNext]_lobbyVars => LobbySound'
  BY LobbyStepIsSound
<1>3. QED  BY <1>1, <1>2, LobbyInitIsSound, PTL DEF LobbySpec

----------------------------------------------------------------------------
(* The types.  Nothing in add_player bounds the players; what does is that *)
(* each join stores one human at the most, and the lobby one impostor.     *)
Stored == {t \in Joiners : pc[t] \in {"token", "done"}}

Counted ==
  /\ Typed(game)
  /\ Cardinality(Humans(game)) <= Cardinality(Stored) + 1
  /\ DOMAIN tokens \subseteq Callers
  /\ \A t \in DOMAIN tokens : tokens[t] \in Players(game)
  /\ \A t \in Callers : pc[t] = "token" => mine[t] \in Players(game)
  /\ mine \in [Callers -> Aliases \cup {None}]
  /\ size \in 0..MaxPlayers /\ overlapped \in BOOLEAN

LEMMA RosterIsCounted ==
  ASSUME NEW g, Seated(g)
  PROVE  Len(g.players) = Cardinality(Humans(g)) + Cardinality(Impostors(g))
<1>1. DOMAIN g.players = 1..Len(g.players) /\ Len(g.players) \in Nat
  BY DEF Seated
<1>2. Humans(g) \cup Impostors(g) = 1..Len(g.players) /\ Humans(g) \cap Impostors(g) = {}
  BY <1>1 DEF Humans, Impostors, Players
<1>3. Cardinality(1..Len(g.players)) = Len(g.players)
  BY <1>1, FS_Interval
<1>4. /\ IsFiniteSet(Humans(g)) /\ IsFiniteSet(Impostors(g))
      /\ Cardinality(Humans(g)) \in Nat /\ Cardinality(Impostors(g)) \in Nat
  BY RosterIsFinite, FS_CardinalityType
<1>5. Cardinality(Humans(g) \cup Impostors(g))
        = Cardinality(Humans(g)) + Cardinality(Impostors(g))
            - Cardinality(Humans(g) \cap Impostors(g))
  BY <1>4, FS_Union
<1>6. /\ Cardinality(Humans(g) \cup Impostors(g)) = Len(g.players)
      /\ Cardinality(Humans(g) \cap Impostors(g)) = 0
  BY <1>2, <1>3, FS_EmptySet
<1>7. QED  BY <1>4, <1>5, <1>6

(* There is room for all, and for one more while a join or the impostor is *)
(* still to be stored.                                                     *)
LEMMA ThereIsRoom ==
  ASSUME NEW g, Seated(g), NEW S \in SUBSET Joiners,
         Cardinality(Humans(g)) <= Cardinality(S) + 1
  PROVE  /\ Len(g.players) \in Nat /\ Len(g.players) <= MaxPlayers
         /\ Impostors(g) = {} \/ S # Joiners => Len(g.players) + 1 <= MaxPlayers
<1>1. /\ IsFiniteSet(Joiners) /\ Cardinality(Joiners) < MaxPlayers - 1
      /\ Cardinality(Joiners) \in Nat
  BY LobbyAssumption, FS_CardinalityType
<1>2. /\ Cardinality(S) \in Nat /\ Cardinality(S) <= Cardinality(Joiners)
      /\ S # Joiners => Cardinality(S) < Cardinality(Joiners)
  BY <1>1, FS_Subset, FS_CardinalityType
<1>3. /\ Cardinality(Humans(g)) \in Nat /\ Cardinality(Impostors(g)) \in Nat
      /\ Cardinality(Impostors(g)) <= 1
      /\ Impostors(g) = {} => Cardinality(Impostors(g)) = 0
  BY RosterIsFinite, FS_CardinalityType, FS_EmptySet DEF Seated
<1>4. QED  BY <1>1, <1>2, <1>3, RosterIsCounted, MaxPlayersAssumption

(* A step that leaves the game alone.                                      *)
LEMMA StayingIsCounted ==
  ASSUME LobbySound, Counted, NEW t \in Callers, NEW label, Goto(t, label), game' = game,
         label # "token", t \in Stored => label = "done",
         DOMAIN tokens' \subseteq Callers,
         \A u \in DOMAIN tokens' : tokens'[u] \in Players(game),
         mine' \in [Callers -> Aliases \cup {None}],
         \A u \in Callers : u # t => mine'[u] = mine[u],
         size' \in 0..MaxPlayers, overlapped' \in BOOLEAN
  PROVE  Counted'
<1>1. pc'[t] = label /\ \A u \in Callers : u # t => pc'[u] = pc[u]
  BY DEF LobbySound, Threads, Goto
<1>2. Joiners \subseteq Callers /\ IsFiniteSet(Joiners)
  BY LobbyAssumption DEF Callers
<1>3. Stored \subseteq Stored' /\ Stored' \subseteq Joiners
  BY <1>1, <1>2 DEF Stored
<1>4. /\ Cardinality(Stored) <= Cardinality(Stored')
      /\ Cardinality(Stored) \in Nat /\ Cardinality(Stored') \in Nat
  BY <1>2, <1>3, FS_Subset, FS_CardinalityType
<1>5. Cardinality(Humans(game)) \in Nat
  BY RosterIsFinite, FS_CardinalityType DEF LobbySound
<1>6. Cardinality(Humans(game)) <= Cardinality(Stored') + 1
  BY <1>4, <1>5 DEF Counted
<1>7. QED  BY <1>1, <1>6 DEF Counted

LEMMA StoringIsCounted ==
  ASSUME LobbySound, Counted, NEW t \in Callers, NEW ai \in BOOLEAN, ai = (t = Host),
         NEW next \in {"token", "count"}, next = "token" <=> t # Host,
         StorePlayer(t, ai, "store", next)
  PROVE  Counted'
<1> DEFINE h == PutPlayer(game, mine[t], ai)
           n == mine[t]
<1>1. /\ pc[t] = "store" /\ game' = h /\ Goto(t, next)
      /\ UNCHANGED <<tokens, mine, size, answer, overlapped>>
  BY DEF StorePlayer
<1>2. /\ n \in Nat /\ n >= 2 /\ n <= Len(game.players) + 1
      /\ ai => Impostors(game) = {}
  BY <1>1 DEF LobbySound, Threads
<1>3. /\ Seated(h) /\ h = [game EXCEPT !.players = h.players]
      /\ Players(h) = Players(game) \cup {n}
      /\ Humans(h) = IF ai THEN Humans(game) \ {n} ELSE Humans(game) \cup {n}
  BY <1>2, PuttingSeats DEF LobbySound
<1> HIDE DEF h, n
<1>4. pc'[t] = next /\ \A u \in Callers : u # t => pc'[u] = pc[u]
  BY <1>1 DEF LobbySound, Threads, Goto, Labels
<1>5. Joiners \subseteq Callers /\ IsFiniteSet(Joiners) /\ Host \notin Joiners
  BY LobbyAssumption DEF Callers
<1>6. Stored' = IF ai THEN Stored ELSE Stored \cup {t}
  <2>1. CASE t = Host
    BY <1>4, <1>5, <2>1 DEF Stored
  <2>2. CASE t # Host
    BY <1>1, <1>4, <1>5, <2>2 DEF Stored, Callers
  <2>3. QED  BY <2>1, <2>2
<1>7. t \notin Stored /\ IsFiniteSet(Stored) /\ Cardinality(Stored) \in Nat
  BY <1>1, <1>5, FS_Subset, FS_CardinalityType DEF Stored
<1>8. IsFiniteSet(Humans(game)) /\ Cardinality(Humans(game)) \in Nat
  BY RosterIsFinite, FS_CardinalityType DEF LobbySound
<1>9. Cardinality(Humans(h)) <= Cardinality(Stored') + 1
  <2>1. CASE ai
    <3>1. Cardinality(Humans(h)) <= Cardinality(Humans(game))
      BY <1>3, <1>8, <2>1, FS_Subset
    <3>2. Cardinality(Humans(h)) \in Nat
      BY <1>3, RosterIsFinite, FS_CardinalityType
    <3>3. Cardinality(Humans(game)) <= Cardinality(Stored) + 1 /\ Stored' = Stored
      BY <1>6, <2>1 DEF Counted
    <3>4. QED  BY <1>7, <1>8, <3>1, <3>2, <3>3
  <2>2. CASE ~ai
    <3>1. Cardinality(Humans(h)) <= Cardinality(Humans(game)) + 1
      BY <1>3, <1>8, <2>2, FS_AddElement
    <3>2. Cardinality(Humans(h)) \in Nat
      BY <1>3, RosterIsFinite, FS_CardinalityType
    <3>3. Cardinality(Stored') = Cardinality(Stored) + 1
      BY <1>6, <1>7, <2>2, FS_AddElement
    <3>4. Cardinality(Humans(game)) <= Cardinality(Stored) + 1
      BY DEF Counted
    <3>5. QED  BY <1>7, <1>8, <3>1, <3>2, <3>3, <3>4
  <2>3. QED  BY <2>1, <2>2
<1>10. Stored' \subseteq Joiners
  BY DEF Stored
<1>11. Typed(h)
  <2>1. Len(h.players) <= MaxPlayers
    BY <1>3, <1>9, <1>10, ThereIsRoom
  <2>2. h.players \in Seq(BOOLEAN)
    BY <1>3 DEF Seated
  <2>3. QED  BY <1>3, <2>1, <2>2 DEF Counted, Typed, GameType
<1>12. \A u \in Callers : pc'[u] = "token" => mine[u] \in Players(h)
  BY <1>3, <1>4 DEF Counted, n
<1>13. Counted'
  BY <1>1, <1>3, <1>9, <1>11, <1>12 DEF Counted
<1>14. QED  BY <1>13

LEMMA BeginningIsCounted ==
  ASSUME LobbySound, Counted, BeginGame
  PROVE  Counted'
<1>1. /\ pc[Host] = "begin" /\ game' = Start(game) /\ Goto(Host, "idle") /\ Host \in Callers
      /\ UNCHANGED <<tokens, mine, size, overlapped>>
  BY DEF BeginGame, Reply, Callers
<1>2. Start(game).players = game.players
  BY DEF LobbySound, Seated, Fields, Start, Emit, SetDeadline
<1>3. Players(Start(game)) = Players(game) /\ Humans(Start(game)) = Humans(game)
  BY <1>2 DEF Humans, Players
<1>4. Typed(Start(game))
  BY StartIsTyped DEF Counted
<1>5. pc'[Host] = "idle" /\ \A u \in Callers : u # Host => pc'[u] = pc[u]
  BY <1>1 DEF LobbySound, Threads, Goto
<1>6. Stored' = Stored
  BY <1>5, LobbyAssumption DEF Stored, Callers
<1>7. QED  BY <1>1, <1>3, <1>4, <1>5, <1>6 DEF Counted

LEMMA LobbyStepIsCounted ==
  ASSUME LobbySound, Counted, [LobbyNext]_lobbyVars
  PROVE  Counted'
<1>1. Host \in Callers /\ Joiners \subseteq Callers /\ Host \notin Joiners
  BY LobbyAssumption DEF Callers
<1>2. \A t \in Stored : pc[t] \in {"token", "done"}
  BY DEF Stored
<1>3. /\ Len(game.players) \in 0..MaxPlayers /\ overlapped \in BOOLEAN
      /\ size \in 0..MaxPlayers /\ mine \in [Callers -> Aliases \cup {None}]
      /\ DOMAIN tokens \subseteq Callers
      /\ \A u \in DOMAIN tokens : tokens[u] \in Players(game)
  BY DEF Counted, Typed, LobbySound, Seated
<1>4. ASSUME NEW t \in Callers, NEW label \in {"name", "scan"}, pc[t] = "idle",
             Arrive(t, label)
      PROVE  Counted'
  <2>1. /\ Goto(t, label) \/ Goto(t, "done")
        /\ UNCHANGED <<game, tokens, mine, size>>
        /\ overlapped' \in BOOLEAN
    BY <1>3, <1>4 DEF Arrive, Reply
  <2>2. t \notin Stored
    BY <1>2, <1>4
  <2>3. QED  BY <1>3, <2>1, <2>2, StayingIsCounted
<1>5. ASSUME NEW t \in Callers, t = Host => Impostors(game) = {},
             NamePlayer(t, "name", "store")
      PROVE  Counted'
  <2>1. /\ pc[t] = "name" /\ mine' = [mine EXCEPT ![t] = Len(game.players) + 1]
        /\ Goto(t, "store") /\ UNCHANGED <<game, tokens, size, overlapped>>
    BY <1>5 DEF NamePlayer, NextAlias
  <2>2. t \notin Stored /\ Stored \subseteq Joiners
    BY <1>2, <2>1 DEF Stored
  <2>3. Impostors(game) = {} \/ Stored # Joiners
    BY <1>5, <2>2 DEF Callers
  <2>4. Len(game.players) + 1 \in Aliases
    <3>1. /\ Len(game.players) \in Nat
          /\ Impostors(game) = {} \/ Stored # Joiners
                => Len(game.players) + 1 <= MaxPlayers
      BY <2>2, ThereIsRoom DEF LobbySound, Counted
    <3>2. QED  BY <2>3, <3>1, MaxPlayersAssumption DEF Aliases
  <2>5. /\ mine' \in [Callers -> Aliases \cup {None}]
        /\ \A u \in Callers : u # t => mine'[u] = mine[u]
    BY <1>3, <2>1, <2>4
  <2>6. QED  BY <1>3, <2>1, <2>2, <2>5, StayingIsCounted
<1>6. ASSUME NEW label, label # "token", Goto(Host, label), UNCHANGED <<game, tokens, mine>>,
             size' \in 0..MaxPlayers, UNCHANGED overlapped
      PROVE  Counted'
  <2>1. Host \notin Stored
    BY <1>1 DEF Stored
  <2>2. QED  BY <1>1, <1>3, <1>6, <2>1, StayingIsCounted
<1>7. CASE StartRequest
  <2>1. CASE StartArrives
    BY <1>1, <1>4, <2>1 DEF StartArrives
  <2>2. CASE NamePlayer(Host, "name", "store")
    <3>1. Impostors(game) = {}
      BY <2>2 DEF NamePlayer, LobbySound, Threads
    <3>2. QED  BY <1>1, <1>5, <2>2, <3>1
  <2>3. CASE StorePlayer(Host, TRUE, "store", "count")
    BY <1>1, <2>3, StoringIsCounted
  <2>4. CASE BeginLoop("scan", "scanning") \/ BeginLoop("count", "counting")
    BY <1>3, <1>6, <2>4 DEF BeginLoop
  <2>5. CASE LoopBroken("scanning") \/ LoopBroken("counting")
    BY <1>3, <1>6, <2>5 DEF LoopBroken, Reply
  <2>6. CASE FindImpostor
    BY <1>3, <1>6, <2>6 DEF FindImpostor, RejectStart, Reply
  <2>7. CASE CountRoster
    BY <1>3, <1>6, <2>7 DEF CountRoster, RejectStart, Reply
  <2>8. QED
    BY <1>7, <2>1, <2>2, <2>3, <2>4, <2>5, <2>6, <2>7, BeginningIsCounted DEF StartRequest
<1>8. ASSUME NEW t \in Joiners, JoinRequest(t)  PROVE Counted'
  <2>1. t \in Callers /\ t # Host
    BY <1>1
  <2>2. CASE JoinArrives(t)
    BY <1>4, <2>1, <2>2 DEF JoinArrives
  <2>3. CASE NamePlayer(t, "name", "store")
    BY <1>5, <2>1, <2>3
  <2>4. CASE StorePlayer(t, FALSE, "store", "token")
    BY <2>1, <2>4, StoringIsCounted
  <2>5. CASE IssueToken(t)
    <3>1. /\ pc[t] = "token" /\ Goto(t, "done") /\ UNCHANGED <<game, mine, size, overlapped>>
          /\ tokens' = [u \in DOMAIN tokens \cup {t} |->
                           IF u = t THEN mine[t] ELSE tokens[u]]
      BY <2>5 DEF IssueToken, Reply
    <3>2. mine[t] \in Players(game)
      BY <2>1, <3>1 DEF Counted
    <3>3. /\ DOMAIN tokens' \subseteq Callers
          /\ \A u \in DOMAIN tokens' : tokens'[u] \in Players(game)
      BY <1>3, <2>1, <3>1, <3>2
    <3>4. QED  BY <1>3, <2>1, <3>1, <3>3, StayingIsCounted
  <2>6. QED  BY <1>8, <2>2, <2>3, <2>4, <2>5 DEF JoinRequest
<1>9. CASE UNCHANGED lobbyVars
  BY <1>9 DEF lobbyVars, Counted, Stored
<1>10. QED  BY <1>7, <1>8, <1>9 DEF LobbyNext

LEMMA LobbyInitIsCounted == LobbyInit => Counted
<1> SUFFICES ASSUME LobbyInit  PROVE Counted
  OBVIOUS
<1>1. LobbySound
  BY LobbyInitIsSound
<1>2. Typed(NewGame) /\ NewGame.players = << >>
  BY NewGameIsSound DEF Sound, NewGame
<1>3. game = [NewGame EXCEPT !.players = <<FALSE>>] /\ 1 <= MaxPlayers
  <2>1. 1 <= MaxPlayers
    BY LobbyAssumption, FS_CardinalityType, MaxPlayersAssumption
  <2>2. QED  BY <1>2, <2>1 DEF LobbyInit, AddPlayer, NewGame
<1> HIDE DEF NewGame
<1>4. game.players = <<FALSE>> /\ Typed(game)
  <2>1. <<FALSE>> \in Seq(BOOLEAN) /\ Len(<<FALSE>>) = 1
    OBVIOUS
  <2>2. game.players = <<FALSE>>
    BY <1>2, <1>3 DEF Typed, GameType
  <2>3. game \in GameType
    BY <1>2, <1>3, <2>1 DEF Typed, GameType
  <2>4. QED  BY <1>3, <2>1, <2>2, <2>3 DEF Typed
<1>5. Players(game) = {1} /\ Humans(game) = {1}
  <2>1. DOMAIN game.players = {1} /\ game.players[1] = FALSE
    BY <1>4
  <2>2. QED  BY <2>1 DEF Players, Humans
<1>6. Stored = {}
  BY DEF LobbyInit, Stored, Callers
<1>7. Cardinality(Humans(game)) <= Cardinality(Stored) + 1
  BY <1>5, <1>6, FS_EmptySet, FS_Singleton
<1>8. /\ DOMAIN tokens = {Host} /\ tokens[Host] = 1
      /\ \A t \in Callers : pc[t] # "token"
      /\ mine \in [Callers -> Aliases \cup {None}]
      /\ size \in 0..MaxPlayers /\ overlapped \in BOOLEAN
  <2>1. DOMAIN tokens = {Host} /\ tokens[Host] = 1 /\ overlapped \in BOOLEAN
    BY DEF LobbyInit
  <2>2. \A t \in Callers : pc[t] # "token"
    BY DEF LobbyInit
  <2>3. mine \in [Callers -> Aliases \cup {None}]
    BY DEF LobbyInit
  <2>4. size \in 0..MaxPlayers
    BY MaxPlayersAssumption DEF LobbyInit
  <2>5. QED  BY <2>1, <2>2, <2>3, <2>4
<1>9. QED  BY <1>4, <1>5, <1>7, <1>8 DEF Counted, Callers

(* Every variable keeps its type, the players of a room are no more than   *)
(* those who asked to join, the host and an impostor, and every token has  *)
(* a player to speak for, whatever overlaps.                               *)
THEOREM LobbyTypeCorrect == LobbySpec => []LobbyTypeOK
<1>1. LobbySound /\ Counted => LobbyTypeOK
  BY DEF LobbySound, Threads, Counted, Typed, TypeOK, LobbyTypeOK
<1>2. LobbySound /\ Counted /\ [LobbyNext]_lobbyVars => LobbySound' /\ Counted'
  BY LobbyStepIsSound, LobbyStepIsCounted
<1>3. QED  BY <1>1, <1>2, LobbyInitIsSound, LobbyInitIsCounted, PTL DEF LobbySpec

----------------------------------------------------------------------------
(* Requests that never overlap.  At most one thread is between two of its  *)
(* steps, so what it has read still holds when it acts on it.              *)
Alone(t) == \A u \in Callers : u # t => ~Busy(u)

Tidy ==
  /\ \A t \in Callers : Busy(t) => Alone(t) /\ game.state = "LOBBY"
  /\ \A t, u \in DOMAIN tokens : tokens[t] = tokens[u] => t = u
  /\ Humans(game) = {tokens[t] : t \in DOMAIN tokens} \cup InTransit
  /\ answer[Host] # "internal"
  /\ game.state # "LOBBY" \/ pc[Host] = "begin" => Cardinality(Impostors(game)) = 1
  /\ \A t \in Callers : pc[t] = "store" => mine[t] = Len(game.players) + 1
  /\ \A t \in Joiners : pc[t] = "token" =>
       \A u \in DOMAIN tokens : tokens[u] # mine[t]
  /\ pc[Host] \in {"scanning", "counting"} => size = Len(game.players)
  /\ \A t \in Joiners \cap DOMAIN tokens : pc[t] = "done"

Orderly == ~overlapped => Tidy

(* The player that t has stored and not yet given a token.                 *)
Owed(t, label, alias) == IF t \in Joiners /\ label = "token" THEN {alias} ELSE {}

LEMMA OnlyOneInTransit ==
  ASSUME NEW t \in Callers, Alone(t)
  PROVE  InTransit = Owed(t, pc[t], mine[t])
<1>1. \A u \in Joiners : u # t => pc[u] # "token"
  BY DEF Alone, Busy, Callers
<1>2. QED  BY <1>1 DEF InTransit, Owed

(* A step of a thread that is alone leaves order behind if it does so in   *)
(* what is its own.                                                        *)
LEMMA AloneIsTidy ==
  ASSUME NEW t \in Callers, Alone(t), pc \in [Callers -> Labels], NEW label, Goto(t, label),
         \A v, u \in DOMAIN tokens' : tokens'[v] = tokens'[u] => v = u,
         Humans(game') = {tokens'[u] : u \in DOMAIN tokens'} \cup Owed(t, label, mine'[t]),
         answer'[Host] # "internal",
         label \notin {"idle", "done"} => game'.state = "LOBBY",
         game'.state # "LOBBY" \/ (t = Host /\ label = "begin")
           => Cardinality(Impostors(game')) = 1,
         label = "store" => mine'[t] = Len(game'.players) + 1,
         label = "token" => \A u \in DOMAIN tokens' : tokens'[u] # mine'[t],
         label \in {"scanning", "counting"} => size' = Len(game'.players),
         \A u \in Joiners \cap DOMAIN tokens' : IF u = t THEN label = "done" ELSE pc[u] = "done"
  PROVE  Tidy'
<1>1. pc'[t] = label /\ \A u \in Callers : u # t => pc'[u] = pc[u]
  BY DEF Goto
<1>2. \A u \in Callers : u # t => pc'[u] \in {"idle", "done"}
  BY <1>1 DEF Alone, Busy
<1>3. Host \in Callers /\ Joiners \subseteq Callers
  BY DEF Callers
<1>4. \A v \in Callers : Busy(v)' => v = t
  BY <1>2 DEF Busy
<1>5. \A v \in Callers : Busy(v)' => Alone(v)' /\ game'.state = "LOBBY"
  <2>1. \A v \in Callers : Busy(v)' => Alone(v)'
    BY <1>4 DEF Alone
  <2>2. Busy(t)' => game'.state = "LOBBY"
    BY <1>1 DEF Busy
  <2>3. QED  BY <1>4, <2>1, <2>2
<1>6. InTransit' = Owed(t, label, mine'[t])
  BY <1>1, <1>2, <1>3 DEF InTransit, Owed
<1>7. game'.state # "LOBBY" \/ pc'[Host] = "begin" => Cardinality(Impostors(game')) = 1
  BY <1>1, <1>2, <1>3
<1>8. \A u \in Callers : pc'[u] = "store" => mine'[u] = Len(game'.players) + 1
  BY <1>1, <1>2
<1>9. \A v \in Joiners : pc'[v] = "token" =>
        \A u \in DOMAIN tokens' : tokens'[u] # mine'[v]
  BY <1>1, <1>2, <1>3
<1>10. pc'[Host] \in {"scanning", "counting"} => size' = Len(game'.players)
  BY <1>1, <1>2, <1>3
<1>11. \A u \in Joiners \cap DOMAIN tokens' : pc'[u] = "done"
  BY <1>1, <1>3
<1>12. QED  BY <1>5, <1>6, <1>7, <1>8, <1>9, <1>10, <1>11 DEF Tidy

(* A step that reads, names or answers: the players, the tokens and what   *)
(* is owed stay as they are.                                               *)
LEMMA WalkingIsTidy ==
  ASSUME LobbySound, Tidy, NEW t \in Callers, Alone(t), NEW label, Goto(t, label),
         UNCHANGED <<game, tokens>>, pc[t] # "token", label # "token",
         pc[t] # "done", answer'[Host] # "internal",
         label \notin {"idle", "done"} => game.state = "LOBBY",
         t = Host /\ label = "begin" => Cardinality(Impostors(game)) = 1,
         label = "store" => mine'[t] = Len(game.players) + 1,
         label \in {"scanning", "counting"} => size' = Len(game.players)
  PROVE  Tidy'
<1>1. Humans(game) = {tokens[u] : u \in DOMAIN tokens} \cup Owed(t, label, mine'[t])
  BY OnlyOneInTransit DEF Tidy, Owed
<1>2. \A u \in Joiners \cap DOMAIN tokens : u # t /\ pc[u] = "done"
  BY DEF Tidy
<1>3. pc \in [Callers -> Labels]
  BY DEF LobbySound, Threads
<1>4. QED  BY <1>1, <1>2, <1>3, AloneIsTidy DEF Tidy

(* The write of a player whose alias is still the next one.                *)
LEMMA StoringIsTidy ==
  ASSUME LobbySound, Counted, Tidy, NEW t \in Callers, NEW ai \in BOOLEAN, ai = (t = Host),
         NEW next \in {"token", "count"}, next = "token" <=> t # Host,
         StorePlayer(t, ai, "store", next)
  PROVE  Tidy'
<1> DEFINE h == PutPlayer(game, mine[t], ai)
           n == mine[t]
<1>1. /\ pc[t] = "store" /\ game' = h /\ Goto(t, next)
      /\ UNCHANGED <<tokens, mine, size, answer>>
  BY DEF StorePlayer
<1>2. /\ n \in Nat /\ n >= 2 /\ n = Len(game.players) + 1 /\ n <= Len(game.players) + 1
      /\ ai => Impostors(game) = {}
      /\ pc \in [Callers -> Labels]
      /\ game.state = "LOBBY" /\ Len(game.players) \in Nat
  BY <1>1 DEF LobbySound, Threads, Seated, Tidy, Busy
<1>3. /\ h.state = game.state
      /\ Humans(h) = IF ai THEN Humans(game) \ {n} ELSE Humans(game) \cup {n}
  BY <1>2, PuttingSeats DEF LobbySound
<1> HIDE DEF h, n
<1>4. n \notin Players(game)
  BY <1>2 DEF LobbySound, Seated, Players
<1>5. Alone(t) /\ Owed(t, pc[t], n) = {}
  BY <1>1 DEF Tidy, Busy, Owed
<1>6. Humans(game) = {tokens[u] : u \in DOMAIN tokens}
  BY <1>5, OnlyOneInTransit DEF Tidy, n
<1>7. n \notin Humans(game)
  BY <1>4 DEF Humans
<1>8. t \in Joiners <=> t # Host
  BY LobbyAssumption DEF Callers
<1>9. Humans(h) = {tokens[u] : u \in DOMAIN tokens} \cup Owed(t, next, n)
  BY <1>3, <1>6, <1>7, <1>8 DEF Owed
<1>10. \A u \in DOMAIN tokens : tokens[u] # n
  BY <1>6, <1>7
<1>11. \A u \in Joiners \cap DOMAIN tokens : u # t /\ pc[u] = "done"
  BY <1>1 DEF Tidy
<1>12. /\ game'.state = "LOBBY" /\ next \notin {"store", "scanning", "counting", "begin"}
       /\ Humans(game') = {tokens'[u] : u \in DOMAIN tokens'} \cup Owed(t, next, mine'[t])
       /\ \A u \in DOMAIN tokens' : tokens'[u] # mine'[t]
       /\ answer'[Host] # "internal"
  BY <1>1, <1>2, <1>3, <1>9, <1>10 DEF Tidy, n
<1>13. \A v, u \in DOMAIN tokens' : tokens'[v] = tokens'[u] => v = u
  BY <1>1 DEF Tidy
<1>14. \A u \in Joiners \cap DOMAIN tokens' :
         IF u = t THEN next = "done" ELSE pc[u] = "done"
  BY <1>1, <1>11
<1>15. Alone(t) /\ pc \in [Callers -> Labels] /\ Goto(t, next)
  BY <1>1, <1>2, <1>5
<1>16. QED  BY <1>12, <1>13, <1>14, <1>15, AloneIsTidy

LEMMA IssuingIsTidy ==
  ASSUME LobbySound, Tidy, NEW t \in Joiners, IssueToken(t)
  PROVE  Tidy'
<1>1. /\ pc[t] = "token" /\ Goto(t, "done") /\ UNCHANGED <<game, mine, size>>
      /\ answer' = [answer EXCEPT ![t] = "created"]
      /\ tokens' = [u \in DOMAIN tokens \cup {t} |-> IF u = t THEN mine[t] ELSE tokens[u]]
  BY DEF IssueToken, Reply
<1>2. t \in Callers /\ t # Host /\ Host \in Callers
  BY LobbyAssumption DEF Callers
<1>3. Alone(t) /\ game.state = "LOBBY" /\ pc \in [Callers -> Labels]
  BY <1>1, <1>2 DEF Tidy, Busy, LobbySound, Threads
<1>4. t \notin DOMAIN tokens /\ \A u \in DOMAIN tokens : tokens[u] # mine[t]
  BY <1>1 DEF Tidy
<1>5. /\ DOMAIN tokens' = DOMAIN tokens \cup {t} /\ tokens'[t] = mine[t]
      /\ \A u \in DOMAIN tokens : tokens'[u] = tokens[u]
  BY <1>1, <1>4
<1>6. Humans(game) = {tokens[u] : u \in DOMAIN tokens} \cup {mine[t]}
  BY <1>1, <1>3, <1>2, OnlyOneInTransit DEF Tidy, Owed
<1>7. {tokens'[u] : u \in DOMAIN tokens'} = {tokens[u] : u \in DOMAIN tokens} \cup {mine[t]}
  BY <1>4, <1>5
<1>8. Humans(game') = {tokens'[u] : u \in DOMAIN tokens'} \cup Owed(t, "done", mine'[t])
  BY <1>1, <1>6, <1>7 DEF Owed
<1>9. \A v, u \in DOMAIN tokens' : tokens'[v] = tokens'[u] => v = u
  BY <1>4, <1>5 DEF Tidy
<1>10. \A u \in Joiners \cap DOMAIN tokens' : u = t \/ pc[u] = "done"
  BY <1>5 DEF Tidy
<1>11. answer'[Host] # "internal"
  BY <1>1, <1>2 DEF LobbySound, Threads, Tidy
<1>12. QED  BY <1>1, <1>2, <1>3, <1>8, <1>9, <1>10, <1>11, AloneIsTidy, ZenonT(60) DEF Tidy

LEMMA BeginningIsTidy ==
  ASSUME LobbySound, Tidy, BeginGame
  PROVE  Tidy'
<1>1. /\ pc[Host] = "begin" /\ game' = Start(game) /\ Goto(Host, "idle") /\ Host \in Callers
      /\ answer' = [answer EXCEPT ![Host] = "no_content"]
      /\ UNCHANGED <<tokens, mine, size>>
  BY DEF BeginGame, Reply, Callers
<1>2. Start(game).players = game.players
  BY DEF LobbySound, Seated, Fields, Start, Emit, SetDeadline
<1>3. Impostors(game') = Impostors(game) /\ Humans(game') = Humans(game)
  BY <1>1, <1>2 DEF Humans, Impostors, Players
<1>4. /\ Alone(Host) /\ pc \in [Callers -> Labels] /\ answer \in [Callers -> Codes]
      /\ Cardinality(Impostors(game)) = 1
  BY <1>1 DEF Tidy, Busy, LobbySound, Threads
<1>5. Humans(game') = {tokens'[u] : u \in DOMAIN tokens'} \cup Owed(Host, "idle", mine'[Host])
  BY <1>1, <1>3, <1>4, OnlyOneInTransit DEF Tidy, Owed
<1>6. answer'[Host] # "internal"
  BY <1>1, <1>4
<1>7. \A u \in Joiners \cap DOMAIN tokens' : u # Host /\ pc[u] = "done"
  BY <1>1, LobbyAssumption DEF Tidy
<1>8. QED  BY <1>1, <1>3, <1>4, <1>5, <1>6, <1>7, AloneIsTidy DEF Tidy

(* A request that arrives without overlapping finds nobody busy.           *)
LEMMA ArrivingIsTidy ==
  ASSUME LobbySound, Orderly, ~overlapped', NEW t \in Callers, pc[t] = "idle",
         NEW label \in {"name", "scan"}, Arrive(t, label)
  PROVE  Tidy'
<1>1. ~overlapped /\ Alone(t) /\ UNCHANGED <<game, tokens, mine, size>>
  BY DEF Arrive, Alone
<1>2. Tidy
  BY <1>1 DEF Orderly
<1>3. answer \in [Callers -> Codes] /\ Host \in Callers
  BY DEF LobbySound, Threads, Callers
<1>4. CASE game.state = "LOBBY"
  <2>1. Goto(t, label) /\ answer' = answer
    BY <1>4 DEF Arrive
  <2>2. label \notin {"token", "begin", "store", "scanning", "counting"}
    OBVIOUS
  <2>3. answer'[Host] # "internal"
    BY <1>2, <2>1 DEF Tidy
  <2>4. QED  BY <1>1, <1>2, <1>4, <2>1, <2>2, <2>3, WalkingIsTidy
<1>5. CASE game.state # "LOBBY"
  <2>1. Goto(t, "done") /\ answer' = [answer EXCEPT ![t] = "wrong_state"]
    BY <1>5 DEF Arrive, Reply
  <2>2. answer'[Host] # "internal"
    BY <1>2, <1>3, <2>1 DEF Tidy
  <2>3. QED  BY <1>1, <1>2, <2>1, <2>2, WalkingIsTidy
<1>6. QED  BY <1>4, <1>5

LEMMA NamingIsTidy ==
  ASSUME LobbySound, Tidy, NEW t \in Callers, NamePlayer(t, "name", "store")
  PROVE  Tidy'
<1>1. /\ pc[t] = "name" /\ mine' = [mine EXCEPT ![t] = Len(game.players) + 1]
      /\ Goto(t, "store") /\ UNCHANGED <<game, tokens, answer>>
  BY DEF NamePlayer, NextAlias
<1>2. Alone(t) /\ game.state = "LOBBY"
  BY <1>1 DEF Tidy, Busy
<1>3. mine'[t] = Len(game.players) + 1
  BY <1>1 DEF LobbySound, Threads
<1>4. answer'[Host] # "internal"
  BY <1>1 DEF Tidy
<1>5. QED  BY <1>1, <1>2, <1>3, <1>4, WalkingIsTidy

LEMMA LoopingIsTidy ==
  ASSUME LobbySound, Tidy,
         \/ BeginLoop("scan", "scanning") \/ BeginLoop("count", "counting")
         \/ LoopBroken("scanning") \/ LoopBroken("counting")
         \/ FindImpostor \/ CountRoster
  PROVE  Tidy'
<1>1. /\ Host \in Callers /\ UNCHANGED <<game, tokens, mine>>
      /\ pc[Host] \in {"scan", "scanning", "count", "counting"}
  BY DEF BeginLoop, LoopBroken, FindImpostor, CountRoster, RejectStart, Callers
<1>2. /\ Alone(Host) /\ game.state = "LOBBY" /\ answer[Host] # "internal"
      /\ answer \in [Callers -> Codes]
  BY <1>1 DEF Tidy, Busy, LobbySound, Threads
<1>3. pc[Host] \in {"scanning", "counting"} => ~Grown
  BY DEF Tidy, Grown
<1>4. ASSUME NEW label \in {"scanning", "counting"}, Goto(Host, label),
             size' = Len(game.players), answer' = answer
      PROVE  Tidy'
  BY <1>1, <1>2, <1>4, WalkingIsTidy
<1>5. CASE BeginLoop("scan", "scanning") \/ BeginLoop("count", "counting")
  BY <1>4, <1>5 DEF BeginLoop
<1>6. CASE LoopBroken("scanning") \/ LoopBroken("counting")
  BY <1>3, <1>6 DEF LoopBroken
<1>7. CASE RejectStart
  <2>1. Goto(Host, "idle") /\ answer'[Host] # "internal"
    BY <1>1, <1>2, <1>7 DEF RejectStart, Reply
  <2>2. QED  BY <1>1, <1>2, <2>1, WalkingIsTidy
<1>8. CASE FindImpostor /\ MayAddImpostor(game)
  <2>1. Goto(Host, "name") /\ answer' = answer
    BY <1>8 DEF FindImpostor
  <2>2. QED  BY <1>1, <1>2, <2>1, WalkingIsTidy
<1>9. CASE CountRoster /\ EnoughPlayers(game)
  <2>1. /\ Goto(Host, "begin") /\ answer' = answer
        /\ Cardinality(Impostors(game)) = 1
    BY <1>9 DEF CountRoster, EnoughPlayers
  <2>2. QED  BY <1>1, <1>2, <2>1, WalkingIsTidy
<1>10. QED  BY <1>5, <1>6, <1>7, <1>8, <1>9 DEF FindImpostor, CountRoster

LEMMA LobbyStepIsOrderly ==
  ASSUME LobbySound, Counted, Orderly, [LobbyNext]_lobbyVars
  PROVE  Orderly'
<1> SUFFICES ASSUME ~overlapped'  PROVE Tidy'
  BY DEF Orderly
<1>1. Host \in Callers /\ Joiners \subseteq Callers /\ Host \notin Joiners
  BY LobbyAssumption DEF Callers
<1>2. ASSUME overlapped' = overlapped  PROVE Tidy
  BY <1>2 DEF Orderly
<1>3. CASE StartRequest
  <2>1. CASE StartArrives
    BY <1>1, <2>1, ArrivingIsTidy DEF StartArrives
  <2>2. CASE NamePlayer(Host, "name", "store")
    BY <1>1, <1>2, <2>2, NamingIsTidy DEF NamePlayer
  <2>3. CASE StorePlayer(Host, TRUE, "store", "count")
    <3>1. Tidy
      BY <1>2, <2>3 DEF StorePlayer
    <3>2. QED  BY <1>1, <2>3, <3>1, StoringIsTidy
  <2>4. CASE BeginGame
    BY <1>2, <2>4, BeginningIsTidy DEF BeginGame
  <2>5. CASE \/ BeginLoop("scan", "scanning") \/ BeginLoop("count", "counting")
             \/ LoopBroken("scanning") \/ LoopBroken("counting")
             \/ FindImpostor \/ CountRoster
    <3>1. overlapped' = overlapped
      BY <2>5 DEF BeginLoop, LoopBroken, FindImpostor, CountRoster, RejectStart
    <3>2. QED  BY <1>2, <2>5, <3>1, LoopingIsTidy
  <2>6. QED  BY <1>3, <2>1, <2>2, <2>3, <2>4, <2>5 DEF StartRequest
<1>4. ASSUME NEW t \in Joiners, JoinRequest(t)  PROVE Tidy'
  <2>1. t \in Callers /\ t # Host
    BY <1>1
  <2>2. CASE JoinArrives(t)
    BY <2>1, <2>2, ArrivingIsTidy DEF JoinArrives
  <2>3. CASE NamePlayer(t, "name", "store")
    BY <1>2, <2>1, <2>3, NamingIsTidy DEF NamePlayer
  <2>4. CASE StorePlayer(t, FALSE, "store", "token")
    <3>1. Tidy
      BY <1>2, <2>4 DEF StorePlayer
    <3>2. QED  BY <2>1, <2>4, <3>1, StoringIsTidy
  <2>5. CASE IssueToken(t)
    BY <1>2, <2>5, IssuingIsTidy DEF IssueToken
  <2>6. QED  BY <1>4, <2>2, <2>3, <2>4, <2>5 DEF JoinRequest
<1>5. CASE UNCHANGED lobbyVars
  <2>1. Tidy
    BY <1>2, <1>5 DEF lobbyVars
  <2>2. QED  BY <1>5, <2>1 DEF lobbyVars, Tidy, Alone, Busy, InTransit
<1>6. QED  BY <1>3, <1>4, <1>5 DEF LobbyNext

LEMMA LobbyInitIsOrderly == LobbyInit => Orderly
<1> SUFFICES ASSUME LobbyInit  PROVE Tidy
  BY DEF Orderly
<1>1. /\ game = [NewGame EXCEPT !.players = <<FALSE>>] /\ NewGame.state = "LOBBY"
      /\ Fields \subseteq DOMAIN NewGame
  BY DEF LobbyInit, AddPlayer, NewGame, Fields
<1> HIDE DEF NewGame
<1>2. game.players = <<FALSE>> /\ game.state = "LOBBY"
  BY <1>1 DEF Fields
<1>3. Humans(game) = {1}
  <2>1. DOMAIN game.players = {1} /\ game.players[1] = FALSE
    BY <1>2
  <2>2. QED  BY <2>1 DEF Humans, Players
<1>4. \A t \in Callers : pc[t] = "idle"
  BY DEF LobbyInit
<1>5. InTransit = {} /\ \A t \in Callers : ~Busy(t)
  BY <1>4 DEF InTransit, Busy, Callers
<1>6. DOMAIN tokens = {Host} /\ tokens[Host] = 1
  BY DEF LobbyInit
<1>7. answer[Host] # "internal" /\ Host \in Callers /\ Host \notin Joiners
  BY LobbyAssumption DEF LobbyInit, Callers
<1>8. Humans(game) = {tokens[t] : t \in DOMAIN tokens} \cup InTransit
  BY <1>3, <1>5, <1>6
<1>9. QED  BY <1>2, <1>4, <1>5, <1>6, <1>7, <1>8 DEF Tidy, Callers

(* Overlap is all that can go wrong: where no two requests were ever in    *)
(* progress at once, tokens and humans are one to one, no loop has broken  *)
(* and a game that has begun has its impostor.                             *)
THEOREM OneByOneIsOrderly == LobbySpec => []OneByOneIsSound
<1>1. Orderly => OneByOneIsSound
  BY DEF Orderly, Tidy, OneByOneIsSound
<1>2. LobbySound /\ Counted /\ Orderly /\ [LobbyNext]_lobbyVars
        => LobbySound' /\ Counted' /\ Orderly'
  BY LobbyStepIsSound, LobbyStepIsCounted, LobbyStepIsOrderly
<1>3. QED
  BY <1>1, <1>2, LobbyInitIsSound, LobbyInitIsCounted, LobbyInitIsOrderly, PTL
     DEF LobbySpec

=============================================================================
