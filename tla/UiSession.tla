----------------------------- MODULE UiSession -----------------------------
(***************************************************************************)
(* The browsers of one room: the sessions of src/ui/app.py, its screens,   *)
(* and the HTTP source (src/ui/sources/http.py), over a network that may   *)
(* lose a request or its reply, or bring a request after the source has    *)
(* given it up.  The room at the other end is module Game, whose methods   *)
(* the handlers of server.py call under the room's lock; but the handler   *)
(* of a join takes none.                                                   *)
(*                                                                         *)
(* Streamlit runs the script of a session in one thread at a time, so that *)
(* a session makes one call after the other.  A call is one step here, and *)
(* the two calls of a mutation are two: the room may go on between them.   *)
(* A join is two steps as well, the reading of the roster and the writing  *)
(* (add_player), so that joins overlap.  A start here waits for the joins  *)
(* that are under way: what becomes of a game whose start overlaps a join  *)
(* is the matter of module Lobby.                                          *)
(***************************************************************************)
EXTENDS Game

CONSTANTS
  Browsers,
  MaxLate  \* bound: so many requests at once are on their way, given up

ASSUME UiAssumption ==
  IsFiniteSet(Browsers) /\ MaxLate \in Nat /\ MaxPlayers >= 2

VARIABLES
  page,  \* st.session_state of each browser
  late   \* the requests that are on their way, given up

uiVars == <<game, page, late>>

(* public_state(), as far as _snapshot_sig looks at it.                    *)
View(g) ==
  [state |-> g.state, round |-> g.round, players |-> Len(g.players),
   messages |-> g.messages, votes |-> VotesReceived(g)]

NoSnapshot ==
  [state |-> "none", round |-> 0, players |-> 0, messages |-> {}, votes |-> 0]

NewPage ==
  [consent |-> FALSE,        \* consent_accepted
   alias |-> None,           \* room_identity
   snapshot |-> NoSnapshot,
   notice |-> FALSE,         \* is there one?
   voted |-> FALSE,          \* vote_accepted
   at |-> "ready",           \* "joining": add_player has read the roster;
                             \* "refresh", "vote": a mutation was accepted and
                             \* get_state comes next
   found |-> 0,              \* the players that reading found
   crowded |-> FALSE,        \* history: whether a join was written in between
   lost |-> FALSE]           \* history: whether a call of it was lost

UiInit == Init /\ page = [b \in Browsers |-> NewPage] /\ late = {}

(* resolve_screen                                                          *)
Screen(p) ==
  CASE ~p.consent -> "consent"
    [] p.consent /\ p.snapshot.state \in {"none", "LOBBY"} -> "lobby"
    [] p.consent /\ p.snapshot.state \in {"ROUND", "DISCUSSION"} -> "chat"
    [] p.consent /\ p.snapshot.state = "VOTING" -> "voting"
    [] p.consent /\ p.snapshot.state = "REVEAL" -> "revelation"

----------------------------------------------------------------------------
(* What the room makes of a call of the player alias: whether it answers   *)
(* 2xx, and the game it leaves.                                            *)

Accepted(g) == [ok |-> TRUE, game |-> g]
Refused(g) == [ok |-> FALSE, game |-> g]

(* The impostor's turn, in the handler of the last human's message.        *)
AfterMessage(g) ==
  LET ai == CHOOSE a \in Impostors(g) : TRUE
  IN IF g.state = "ROUND" /\ SubmittedHumans(g) = Humans(g)
       THEN {SubmitMessage(g, ai)} \cup {Interrupt(g, r) : r \in TurnFailures}
       ELSE {g}

(* join: a human, in the lobby, while there is a place left for the        *)
(* impostor (bound).                                                       *)
CanJoin(g) == CanAddPlayer(g, FALSE) /\ Len(g.players) + 1 < MaxPlayers

SeatFaulty(found) == found

(* The alias of a join that has found so many players.                     *)
Seat(found) == found + 1

(* It is written into the dict, also over a player of that alias.          *)
Sit(g, alias) ==
  IF alias \in DOMAIN g.players THEN [g EXCEPT !.players[alias] = FALSE]
  ELSE AddPlayer(g, FALSE)

(* start: the impostor is seated, and stays if the start is refused.       *)
HandleStart(g) ==
  LET seated == AddPlayer(g, TRUE)
  IN IF ~CanAddPlayer(g, TRUE) THEN {Refused(g)}
     ELSE IF CanStart(seated) THEN {Accepted(Start(seated))}
     ELSE {Refused(seated)}

HandleMessage(g, alias, text) ==
  LET h == CheckExpiration(g)
  IN IF CanSubmit(h, alias, text, h.round)
       THEN {Accepted(k) : k \in AfterMessage(SubmitMessage(h, alias))}
       ELSE {Refused(h)}

HandleOpenVoting(g) ==
  LET h == CheckExpiration(g)
  IN {IF CanOpenVoting(h) THEN Accepted(OpenBallot(h)) ELSE Refused(h)}

HandleVote(g, alias, suspect) ==
  LET h == CheckExpiration(g)
  IN {IF CanVote(h, alias, suspect) THEN Accepted(CastVote(h, alias, suspect))
                                    ELSE Refused(h)}

Handle(g, q) == CASE q.kind = "start" -> HandleStart(g)
                  [] q.kind = "message" -> HandleMessage(g, q.alias, q.text)
                  [] q.kind = "voting/open" -> HandleOpenVoting(g)
                  [] q.kind = "vote" -> HandleVote(g, q.alias, q.suspect)

----------------------------------------------------------------------------
(* The session.                                                            *)

FailFaulty(p) == [p EXCEPT !.notice = TRUE, !.snapshot = NoSnapshot]

(* An ApiError of the source: the session keeps what it has.               *)
Fail(p) == [p EXCEPT !.notice = TRUE]
Lose(p) == [Fail(p) EXCEPT !.lost = TRUE]

AnswerFaulty(p, ok, then) == [p EXCEPT !.notice = FALSE, !.at = then]

(* _run_api and the first half of _mutate: refreshed only if accepted.     *)
Answer(p, ok, then) ==
  IF ok THEN [p EXCEPT !.notice = FALSE, !.at = then] ELSE Fail(p)

MutateFaulty(b, q) ==
  LET own == [round |-> page[b].snapshot.round, alias |-> page[b].alias]
  IN /\ page[b].at = "ready"
     /\ \E o \in Handle(game, q) :
          /\ game' = o.game /\ UNCHANGED late
          /\ page' = [page EXCEPT ![b] =
               [Answer(@, o.ok, "refresh") EXCEPT !.snapshot.messages = @ \cup {own}]]

(* The source gives the request up before the room has got it: it comes    *)
(* later, or never.                                                        *)
GiveUp(b, q) ==
  /\ page' = [page EXCEPT ![b] = Lose(@)] /\ UNCHANGED game
  /\ \/ UNCHANGED late
     \/ Cardinality(late) < MaxLate /\ late' = late \cup {q}

(* A mutation: it is answered, or its reply is lost, or it is given up.    *)
Mutate(b, q) ==
  /\ page[b].at = "ready"
  /\ \/ /\ UNCHANGED late
        /\ \E o \in Handle(game, q) :
             /\ game' = o.game
             /\ \/ page' = [page EXCEPT ![b] =
                        Answer(@, o.ok, IF q.kind = "vote" THEN "vote" ELSE "refresh")]
                \/ page' = [page EXCEPT ![b] = Lose(@)]
     \/ GiveUp(b, q)

(* A join is between its reading and its writing.                          *)
Entering ==
  \/ \E b \in Browsers : page[b].at = "joining"
  \/ \E q \in late : q.kind = "joining"

(* A late request comes; a join first reads,                               *)
Arrive ==
  \E q \in late :
    /\ q.kind \notin {"join", "joining"} /\ (q.kind = "start" => ~Entering)
    /\ \E o \in Handle(game, q) : game' = o.game
    /\ late' = late \ {q} /\ UNCHANGED page

LateJoinReads ==
  \E q \in late :
    /\ q.kind = "join"
    /\ \/ ~CanAddPlayer(game, FALSE) /\ late' = late \ {q}
       \/ /\ CanJoin(game)
          /\ late' = (late \ {q}) \cup
                        {[kind |-> "joining", found |-> Len(game.players)]}
    /\ UNCHANGED <<game, page>>

(* and then leaves a player that nobody plays.                             *)
LateJoinWrites ==
  \E q \in late :
    /\ q.kind = "joining" /\ game' = Sit(game, Seat(q.found))
    /\ late' = late \ {q} /\ UNCHANGED page

AcceptConsent(b) ==
  /\ ~page[b].consent
  /\ page' = [page EXCEPT ![b].consent = TRUE, ![b].notice = FALSE]
  /\ UNCHANGED <<game, late>>

(* The reply of a lost creation names a room that nobody ever enters: this *)
(* one begins with the first reply that comes.                             *)
CreateRoom(b) ==
  /\ Screen(page[b]) = "lobby" /\ page[b].alias = None /\ page[b].at = "ready"
  /\ \/ /\ game.players = << >>
        /\ game' = AddPlayer(game, FALSE)
        /\ page' = [page EXCEPT ![b] = [Answer(@, TRUE, "refresh") EXCEPT !.alias = 1]]
     \/ page' = [page EXCEPT ![b] = Lose(@)] /\ UNCHANGED game
  /\ UNCHANGED late

(* A join, first refused or its reading;                                   *)
JoinRoom(b) ==
  LET p == page[b]
  IN /\ Screen(p) = "lobby" /\ p.alias = None /\ p.at = "ready" /\ game.players # << >>
     /\ \/ /\ ~CanAddPlayer(game, FALSE) /\ UNCHANGED <<game, late>>
           /\ page' \in {[page EXCEPT ![b] = Answer(p, FALSE, "refresh")],
                         [page EXCEPT ![b] = Lose(p)]}
        \/ /\ CanJoin(game) /\ UNCHANGED <<game, late>>
           /\ page' = [page EXCEPT ![b].at = "joining", ![b].found = Len(game.players)]
        \/ GiveUp(b, [kind |-> "join"])

(* then its writing.  One whose reply is lost leaves a player that nobody  *)
(* plays.                                                                  *)
TakeSeat(b) ==
  LET p == page[b]
  IN /\ p.at = "joining" /\ game' = Sit(game, Seat(p.found)) /\ UNCHANGED late
     /\ \/ page' = [page EXCEPT ![b] =
               [Answer(p, TRUE, "refresh") EXCEPT
                  !.alias = Seat(p.found), !.found = 0,
                  !.crowded = p.found # Len(game.players)]]
        \/ page' = [page EXCEPT ![b] = [Lose(p) EXCEPT !.at = "ready", !.found = 0]]

(* The widgets are those of the screen, and the screen is the snapshot's.  *)
StartRoom(b) ==
  /\ Screen(page[b]) = "lobby" /\ page[b].alias = 1 /\ ~Entering
  /\ Mutate(b, [kind |-> "start"])

(* The counter stops a text that is too long before it is sent.            *)
SendMessage(b) ==
  /\ Screen(page[b]) = "chat"
  /\ \E t \in Texts \ {"long"} :
       Mutate(b, [kind |-> "message", alias |-> page[b].alias, text |-> t])

OpenVotingRoom(b) ==
  /\ page[b].snapshot.state = "DISCUSSION" /\ page[b].alias = 1
  /\ Mutate(b, [kind |-> "voting/open"])

SubmitVote(b) ==
  /\ Screen(page[b]) = "voting" /\ ~page[b].voted
  /\ \E suspect \in (1..page[b].snapshot.players) \ {page[b].alias} :
       Mutate(b, [kind |-> "vote", alias |-> page[b].alias, suspect |-> suspect])

(* get_state after a mutation: without an answer the snapshot is gone.     *)
(* _vote looks at the notice only after it.                                *)
Refresh(b) ==
  LET p == page[b]
  IN /\ p.at \in {"refresh", "vote"}
     /\ \/ /\ game' = CheckExpiration(game)
           /\ page' = [page EXCEPT ![b].snapshot = View(game'), ![b].at = "ready",
                       ![b].notice = FALSE, ![b].voted = @ \/ p.at = "vote"]
        \/ /\ page' = [page EXCEPT ![b] = [Lose(p) EXCEPT !.snapshot = NoSnapshot,
                                                         !.at = "ready"]]
           /\ UNCHANGED game
     /\ UNCHANGED late

CanPoll(b) == page[b].alias # None /\ page[b].at = "ready"

(* poll_snapshot: an answer replaces the snapshot and clears the notice.   *)
PollSnapshot(b) ==
  /\ CanPoll(b)
  /\ game' = CheckExpiration(game)
  /\ page' = [page EXCEPT ![b].snapshot = View(game'), ![b].notice = FALSE]
  /\ UNCHANGED late

PollFailsFaulty(b) ==
  /\ CanPoll(b)
  /\ page' = [page EXCEPT ![b].notice = TRUE, ![b].snapshot = NoSnapshot]
  /\ UNCHANGED <<game, late>>

PollFails(b) ==
  /\ CanPoll(b)
  /\ page' = [page EXCEPT ![b] = Fail(@)]
  /\ UNCHANGED <<game, late>>

(* The room's timer and its clock.                                         *)
RoomTimer == Poll /\ UNCHANGED <<page, late>>
RoomClock == Elapse /\ UNCHANGED <<page, late>>

Use(b) == \/ AcceptConsent(b) \/ CreateRoom(b) \/ JoinRoom(b) \/ TakeSeat(b)
          \/ StartRoom(b) \/ SendMessage(b) \/ OpenVotingRoom(b) \/ SubmitVote(b)

UiNext ==
  \/ RoomTimer \/ RoomClock \/ Arrive \/ LateJoinReads \/ LateJoinWrites
  \/ \E b \in Browsers : Use(b) \/ Refresh(b) \/ PollSnapshot(b) \/ PollFails(b)

UiSpec == UiInit /\ [][UiNext]_uiVars

(* The room's clock and timer run; a session that made a call goes on to   *)
(* the next, and the fragment polls for ever, sometimes with an answer.    *)
UiFairness ==
  /\ WF_uiVars(RoomClock) /\ WF_uiVars(RoomTimer)
  /\ \A b \in Browsers : WF_uiVars(Refresh(b)) /\ SF_uiVars(PollSnapshot(b))

----------------------------------------------------------------------------
(* Types; and who has an identity has a seat of its own, a human's: two    *)
(* sessions have one alias only if a join was written while that of one of *)
(* them was between its reading and its writing.                           *)
UiTypeOK ==
  /\ \A b \in Browsers :
       /\ page[b].at \in {"ready", "joining", "refresh", "vote"}
       /\ page[b].snapshot.state \in States \cup {"none"}
       /\ page[b].alias \in Humans(game) \cup {None}
       /\ page[b].found \in 0..Len(game.players)
  /\ \A b, c \in Browsers :
       page[b].alias = page[c].alias =>
         b = c \/ page[b].alias = None \/ page[b].crowded \/ page[c].crowded

(* Nobody else plays under the alias of b.                                 *)
Alone(b) == \A c \in Browsers : page[c].alias = page[b].alias => c = b

(* "Voto registrado" is shown only to who has cast a vote, also when calls *)
(* were lost, refused or overtaken by the clock (UIF-14, 15); and if no    *)
(* call of the session was lost, and its alias is its own, to everyone who *)
(* has.                                                                    *)
VotesShownAreCast ==
  \A b \in Browsers :
    LET cast == page[b].alias \in Scorable(game)
    IN /\ page[b].voted => cast
       /\ cast /\ Alone(b) /\ ~page[b].lost /\ page[b].at = "ready" => page[b].voted

(* A screen shows what the room has been: no message, vote or player it    *)
(* does not have, no phase it has not reached; and a revelation is final.  *)
ScreensTellThePast ==
  \A b \in Browsers :
    LET s == page[b].snapshot
    IN s # NoSnapshot =>
         /\ s.messages \subseteq game.messages /\ s.votes <= VotesReceived(game)
         /\ s.players <= Len(game.players)
         /\ PhaseNumber(s) <= PhaseNumber(game)
         /\ s.state = "REVEAL" => s = View(game)

(* A screen goes back only when the session lost a call, and then to none. *)
ScreensOnlyAdvance ==
  [][\A b \in Browsers :
       LET s == page[b].snapshot
           t == page'[b].snapshot
       IN s # t /\ s # NoSnapshot =>
            \/ t = NoSnapshot /\ page'[b].lost
            \/ t # NoSnapshot /\ PhaseNumber(s) <= PhaseNumber(t)
               /\ s.messages \subseteq t.messages]_uiVars

(* Every session in a game that ends comes to the revelation and stays     *)
(* there, whatever it has lost on the way (UIF-16).                        *)
EveryoneSeesTheEnd ==
  \A b \in Browsers :
    game.state = "REVEAL" /\ page[b].alias # None
      ~> [](Screen(page[b]) = "revelation")

=============================================================================
