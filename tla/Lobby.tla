------------------------------- MODULE Lobby -------------------------------
(***************************************************************************)
(* A room before its game: the join requests of session.py and the start   *)
(* requests of the host, at the grain at which the interpreter may switch  *)
(* between their threads.                                                  *)
(*                                                                         *)
(* ThreadingHTTPServer gives each request a thread.  _handle_start holds   *)
(* room.lock; _handle_join does not take it.  So add_player, written for a *)
(* single caller, runs in several threads at once, and each of its reads   *)
(* and writes of _players is a step of its own here.  The requests of the  *)
(* host come one after the other, as the lock would order them.            *)
(***************************************************************************)
EXTENDS Game

CONSTANTS
  Host,     \* the token of who founded the room; its thread sends the starts
  Joiners   \* the tokens issued to joins; each join has a thread

ASSUME LobbyAssumption ==
  /\ Host \notin Joiners
  /\ IsFiniteSet(Joiners) /\ Cardinality(Joiners) < MaxPlayers - 1

Callers == Joiners \cup {Host}

VARIABLES
  tokens,    \* room.players: a function from the tokens issued to aliases
  pc,        \* where each thread is
  mine,      \* the alias its add_player has computed
  size,      \* how many players its loop over _players began with
  answer,    \* the code of the last response to each caller
  overlapped \* auxiliary: have two requests ever been in progress at once?

lobbyVars == <<game, tokens, pc, mine, size, answer, overlapped>>

(* store.create: the room and its host, before anybody knows its code.     *)
LobbyInit ==
  /\ game = AddPlayer(NewGame, FALSE)
  /\ tokens = [t \in {Host} |-> 1]
  /\ pc = [t \in Callers |-> "idle"]
  /\ mine = [t \in Callers |-> None]
  /\ size = 0
  /\ answer = [t \in Callers |-> "none"]
  /\ overlapped = FALSE

Busy(t) == pc[t] \notin {"idle", "done"}

Goto(t, label) == pc' = [pc EXCEPT ![t] = label]

Reply(t, label, code) ==
  /\ Goto(t, label)
  /\ answer' = [answer EXCEPT ![t] = code]

(* self._players[alias] = Player(alias, is_ai): a dict keeps the position  *)
(* of a key it already has.                                                *)
PutPlayerFaulty(g, alias, ai) ==
  [g EXCEPT !.players = [a \in 1..alias |-> IF a = alias THEN ai ELSE @[a]]]

PutPlayer(g, alias, ai) ==
  [g EXCEPT !.players = [a \in DOMAIN @ \cup {alias} |-> IF a = alias THEN ai ELSE @[a]]]

NextAliasFaulty(g) == Len(g.players)

(* f"Jugador {len(self._players) + 1}"                                     *)
NextAlias(g) == Len(g.players) + 1

----------------------------------------------------------------------------
(* POST /rooms/{code}/join, and add_player() inside it.                    *)

Arrive(t, label) ==
  /\ overlapped' = (overlapped \/ \E u \in Callers \ {t} : Busy(u))
  /\ IF game.state = "LOBBY"
       THEN Goto(t, label) /\ UNCHANGED answer
       ELSE Reply(t, "done", "wrong_state")
  /\ UNCHANGED <<game, tokens, mine, size>>

JoinArrives(t) == pc[t] = "idle" /\ Arrive(t, "name")

NamePlayer(t, here, next) ==
  /\ pc[t] = here
  /\ mine' = [mine EXCEPT ![t] = NextAlias(game)]
  /\ Goto(t, next)
  /\ UNCHANGED <<game, tokens, size, answer, overlapped>>

StorePlayer(t, ai, here, next) ==
  /\ pc[t] = here
  /\ game' = PutPlayer(game, mine[t], ai)
  /\ Goto(t, next)
  /\ UNCHANGED <<tokens, mine, size, answer, overlapped>>

(* room.players[token] = alias, and the identity is sent to the client.    *)
IssueToken(t) ==
  /\ pc[t] = "token"
  /\ tokens' = [u \in DOMAIN tokens \cup {t} |-> IF u = t THEN mine[t] ELSE tokens[u]]
  /\ Reply(t, "done", "created")
  /\ UNCHANGED <<game, mine, size, overlapped>>

JoinRequest(t) ==
  \/ JoinArrives(t)
  \/ NamePlayer(t, "name", "store")
  \/ StorePlayer(t, FALSE, "store", "token")
  \/ IssueToken(t)

----------------------------------------------------------------------------
(* POST /rooms/{code}/start, under room.lock: add_player(is_ai=True), then *)
(* start().  Each loops over _players, and Python ends a loop over a dict  *)
(* that has grown meanwhile with a RuntimeError, which nobody catches      *)
(* before _dispatch answers internal.                                      *)

StartArrives == pc[Host] = "idle" /\ Arrive(Host, "scan")

BeginLoop(here, next) ==
  /\ pc[Host] = here
  /\ size' = Len(game.players)
  /\ Goto(Host, next)
  /\ UNCHANGED <<game, tokens, mine, answer, overlapped>>

Grown == Len(game.players) # size

LoopBroken(here) ==
  /\ pc[Host] = here
  /\ Grown
  /\ Reply(Host, "idle", "internal")
  /\ UNCHANGED <<game, tokens, mine, size, overlapped>>

(* A RuleViolation in the lobby is answered invalid_roster.                *)
RejectStart ==
  /\ Reply(Host, "idle", "invalid_roster")
  /\ UNCHANGED <<game, tokens, mine, size, overlapped>>

MayAddImpostorFaulty(g) == TRUE

MayAddImpostor(g) == Impostors(g) = {}

FindImpostor ==
  /\ pc[Host] = "scanning"
  /\ IF MayAddImpostor(game)
       THEN /\ ~Grown
            /\ Goto(Host, "name")
            /\ UNCHANGED <<game, tokens, mine, size, answer, overlapped>>
       ELSE RejectStart

EnoughPlayersFaulty(g) == Cardinality(Impostors(g)) = 1

EnoughPlayers(g) == Cardinality(Impostors(g)) = 1 /\ Cardinality(Humans(g)) >= 2

CountRoster ==
  /\ pc[Host] = "counting"
  /\ ~Grown
  /\ IF EnoughPlayers(game)
       THEN /\ Goto(Host, "begin")
            /\ UNCHANGED <<game, tokens, mine, size, answer, overlapped>>
       ELSE RejectStart

BeginGame ==
  /\ pc[Host] = "begin"
  /\ game' = Start(game)
  /\ Reply(Host, "idle", "no_content")
  /\ UNCHANGED <<tokens, mine, size, overlapped>>

StartRequest ==
  \/ StartArrives
  \/ BeginLoop("scan", "scanning")
  \/ LoopBroken("scanning")
  \/ FindImpostor
  \/ NamePlayer(Host, "name", "store")
  \/ StorePlayer(Host, TRUE, "store", "count")
  \/ BeginLoop("count", "counting")
  \/ LoopBroken("counting")
  \/ CountRoster
  \/ BeginGame

LobbyNext == StartRequest \/ \E t \in Joiners : JoinRequest(t)

LobbySpec == LobbyInit /\ [][LobbyNext]_lobbyVars

----------------------------------------------------------------------------
Codes == {"none", "created", "no_content", "wrong_state", "invalid_roster", "internal"}

Labels == {"idle", "scan", "scanning", "name", "store", "count", "counting",
           "begin", "token", "done"}

(* Type invariant: the domain's, and that of the threads; a client that    *)
(* has a token has a player to speak for, whichever writes came between.   *)
LobbyTypeOK ==
  /\ TypeOK
  /\ DOMAIN tokens \subseteq Callers
  /\ \A t \in DOMAIN tokens : tokens[t] \in Players(game)
  /\ pc \in [Callers -> Labels] /\ answer \in [Callers -> Codes]
  /\ mine \in [Callers -> Aliases \cup {None}]
  /\ size \in 0..MaxPlayers /\ overlapped \in BOOLEAN

(* However the requests overlap: start() never lets two impostors in (the  *)
(* lock orders the starts, and a failed one leaves its impostor for the    *)
(* next to find), a game begins with two humans, and the host is one of    *)
(* them, whose place and alias nobody takes.                               *)
RosterStaysFair ==
  /\ Cardinality(Impostors(game)) <= 1
  /\ game.state # "LOBBY" => Cardinality(Humans(game)) >= 2
  /\ 1 \in Humans(game)
  /\ \A t \in DOMAIN tokens : tokens[t] = 1 <=> t = Host

InTransit == {mine[t] : t \in {u \in Joiners : pc[u] = "token"}}

(* Overlap is all that can go wrong: as long as no two requests have been  *)
(* in progress at once, tokens and humans are one to one, no request has   *)
(* failed inside, and a game that has begun has its impostor.              *)
OneByOneIsSound ==
  ~overlapped =>
    /\ \A t, u \in DOMAIN tokens : tokens[t] = tokens[u] => t = u
    /\ Humans(game) = {tokens[t] : t \in DOMAIN tokens} \cup InTransit
    /\ answer[Host] # "internal"
    /\ game.state # "LOBBY" => Cardinality(Impostors(game)) = 1

(* What the specification of the server says: with two humans in the lobby *)
(* a start begins the game; it is refused for want of humans.  Stated only *)
(* of requests that never overlap.                                         *)
RefusedOnlyForWantOfHumans ==
  [][/\ ~overlapped
     /\ pc[Host] \in {"scanning", "counting"} /\ pc'[Host] = "idle"
     /\ answer'[Host] = "invalid_roster"
     => Cardinality(Humans(game)) < 2]_lobbyVars

============================================================================
