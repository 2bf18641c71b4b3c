-------------------------------- MODULE Fake --------------------------------
(***************************************************************************)
(* The source the user interface plays with when no server is configured:  *)
(* FakeSospechAI in src/ui/sources/fake.py, one room of it and the browsers *)
(* that share it.  It is a second implementation of the game, written anew *)
(* so that src/ui imports nothing of the orchestrator: nobody's clock runs, *)
(* the first message of a round writes those of everybody else, and polls, *)
(* of whichever browser, lead from the discussion to the reveal.           *)
(*                                                                         *)
(* A call is one step.  A refused call changes nothing and is no step.     *)
(***************************************************************************)
EXTENDS Sizes, Integers, Sequences, FiniteSets

VARIABLE room   \* the attributes of _Room

Aliases == 1..MaxPlayers

Texts == {"ok", "blank", "long"}

(* own: its player wrote it; otherwise it is of the script.                *)
Message == [round : 1..Rounds, alias : Aliases, own : BOOLEAN]

Players(r) == DOMAIN r.players
Impostors(r) == {a \in Players(r) : r.players[a]}
Humans(r) == {a \in Players(r) : ~r.players[a]}

(* create_room: the first player is the host, and alone may start the game *)
(* and open the voting.                                                    *)
NewRoom ==
  [state |-> "LOBBY", round |-> 0, players |-> <<FALSE>>, messages |-> {},
   votes |-> [a \in {} |-> 0], votingSeen |-> FALSE, debateSeen |-> FALSE]

FakeInit == room = NewRoom

JoinRoom ==
  /\ room.state = "LOBBY" /\ Len(room.players) < MaxPlayers
  /\ room' = [room EXCEPT !.players = Append(@, FALSE)]

(* The impostor comes last.                                                *)
Start ==
  /\ room.state = "LOBBY" /\ Len(room.players) < MaxPlayers
  /\ Cardinality(Humans(room)) >= 2
  /\ room' = [room EXCEPT !.players = Append(@, TRUE), !.round = 1, !.state = "ROUND"]

----------------------------------------------------------------------------
Wrote(r, a) == \E m \in r.messages : m.alias = a /\ m.round = r.round

FillFaulty(r) ==
  [r EXCEPT !.messages =
     @ \cup {[round |-> r.round, alias |-> a, own |-> FALSE] :
               a \in {b \in Players(r) : \A m \in r.messages : m.alias # b}}]

Fill(r) ==
  [r EXCEPT !.messages =
     @ \cup {[round |-> r.round, alias |-> a, own |-> FALSE] :
               a \in {b \in Players(r) : ~Wrote(r, b)}}]

Current(r) == {m \in r.messages : m.round = r.round}

Advance(r) ==
  CASE Cardinality(Current(r)) # Len(r.players) -> r
    [] Cardinality(Current(r)) = Len(r.players) /\ r.round < Rounds ->
         [r EXCEPT !.round = @ + 1]
    [] OTHER -> [r EXCEPT !.state = "DISCUSSION"]

(* Whatever the browser showed when the text was written, it enters the    *)
(* round the room is in now.                                               *)
SubmitMessage(a, text) ==
  LET said == [round |-> room.round, alias |-> a, own |-> TRUE]
  IN /\ a \in Humans(room)
     /\ room.state = "ROUND"
     /\ text = "ok"
     /\ ~Wrote(room, a)
     /\ room' = Advance(Fill([room EXCEPT !.messages = @ \cup {said}]))

----------------------------------------------------------------------------
OpenVoting ==
  /\ room.state = "DISCUSSION"
  /\ room' = [room EXCEPT !.state = "VOTING", !.votingSeen = FALSE]

SubmitVote(a, suspect) ==
  /\ a \in Humans(room)
  /\ room.state = "VOTING"
  /\ suspect \in Players(room) \ {a}
  /\ a \notin DOMAIN room.votes
  /\ room' = [room EXCEPT !.votes = [b \in DOMAIN @ \cup {a} |->
                                       IF b = a THEN suspect ELSE @[b]]]

Impostor(r) == CHOOSE a \in Impostors(r) : TRUE

(* Who has not voted has voted for the impostor.                           *)
CompleteVotes(r) ==
  [r EXCEPT
     !.state = "REVEAL",
     !.votes = [b \in DOMAIN @ \cup Humans(r) |->
                  IF b \in DOMAIN @ THEN @[b] ELSE Impostor(r)]]

(* get_state looks twice: what its first look has opened, its second sees. *)
LookAtDebate(r) ==
  CASE r.state # "DISCUSSION" -> r
    [] r.state = "DISCUSSION" /\ r.debateSeen ->
         [r EXCEPT !.state = "VOTING", !.votingSeen = FALSE]
    [] OTHER -> [r EXCEPT !.debateSeen = TRUE]

LookAtVotingFaulty(r) == IF r.state = "VOTING" THEN CompleteVotes(r) ELSE r

LookAtVoting(r) ==
  CASE r.state # "VOTING" -> r
    [] r.state = "VOTING" /\ r.votingSeen -> CompleteVotes(r)
    [] OTHER -> [r EXCEPT !.votingSeen = TRUE]

GetState == room' = LookAtVoting(LookAtDebate(room))

FakeNext ==
  \/ JoinRoom \/ Start \/ OpenVoting \/ GetState
  \/ \E a \in Aliases, t \in Texts : SubmitMessage(a, t)
  \/ \E a, s \in Aliases : SubmitVote(a, s)

FakeSpec == FakeInit /\ [][FakeNext]_room

----------------------------------------------------------------------------
(* The result: scores holds a 1 for each vote that found the impostor.     *)
Rate(r) ==
  <<Cardinality({a \in DOMAIN r.votes : r.votes[a] = Impostor(r)}),
    Cardinality(DOMAIN r.votes)>>

Ballots == UNION {[V -> Aliases] : V \in SUBSET Aliases}

FakeTypeOK ==
  room \in [state : {"LOBBY", "ROUND", "DISCUSSION", "VOTING", "REVEAL"},
            round : 0..Rounds, players : Seq(BOOLEAN), messages : SUBSET Message,
            votes : Ballots, votingSeen : BOOLEAN, debateSeen : BOOLEAN]

SpokenIn(k) == {m \in room.messages : m.round = k}

LastRoundOver == room.state \in {"DISCUSSION", "VOTING", "REVEAL"}

(* The first message of a round ends it: a round that is over has one      *)
(* message of each player, one human at least has written its own, and the *)
(* round that is open has none.  No human is overheard as the impostor.    *)
RoundsAreWritten ==
  \A k \in 1..Rounds :
    IF k < room.round \/ (k = room.round /\ LastRoundOver)
      THEN /\ \A a \in Players(room) : \E m \in SpokenIn(k) : m.alias = a
           /\ Cardinality(SpokenIn(k)) = Len(room.players)
           /\ Cardinality({m \in SpokenIn(k) : m.own}) = 1
           /\ \A m \in SpokenIn(k) : m.own => m.alias \in Humans(room)
      ELSE SpokenIn(k) = {}

(* The impostor is the last player; every human has a vote in the result,  *)
(* none for itself, and no vote is in the box before the voting.           *)
VotesAreWhole ==
  /\ room.state = "LOBBY" <=> Impostors(room) = {}
  /\ room.state # "LOBBY" => Impostors(room) = {Len(room.players)}
                             /\ Cardinality(Humans(room)) >= 2
  /\ room.state \notin {"VOTING", "REVEAL"} => DOMAIN room.votes = {}
  /\ DOMAIN room.votes \subseteq Humans(room)
  /\ \A a \in DOMAIN room.votes : room.votes[a] \in Players(room) \ {a}
  /\ room.state = "REVEAL" => Rate(room)[2] = Cardinality(Humans(room))

(* What the browsers are shown is one game that could have been played:    *)
(* see the two parts above.                                                *)
RecordsAreWhole == RoundsAreWritten /\ VotesAreWhole

(* The story a server would have told: the fake has no events of its own.  *)
Story(r) ==
  LET length == CASE r.state = "LOBBY" -> 0
                  [] r.state = "ROUND" -> 2 * r.round
                  [] r.state \in {"DISCUSSION", "VOTING"} -> 2 * r.round + 1
                  [] r.state = "REVEAL" -> 2 * r.round + 2
  IN [i \in 1..length |->
        CASE i = 1 -> [type |-> "game.started"]
          [] i > 1 /\ i = 2 * r.round + 2 -> [type |-> "game.closed", valid |-> TRUE]
          [] i > 1 /\ i < 2 * r.round + 2 /\ i % 2 = 0 ->
               [type |-> "round.started", round |-> i \div 2]
          [] i > 1 /\ i % 2 = 1 -> [type |-> "round.completed", round |-> i \div 2]]

LC == INSTANCE Lifecycle
        WITH state <- room.state, round <- room.round, log <- Story(room)

VotesAreKept ==
  [][\A a \in DOMAIN room.votes :
       a \in DOMAIN room'.votes /\ room'.votes[a] = room.votes[a]]_room

(* The screens may take the fake for a server: it goes through the phases  *)
(* a game does, one call one step, whichever browsers call; and no vote in *)
(* the box is changed, not even by the poll that ends the voting.          *)
FakePlaysTheGame == LC!Spec /\ VotesAreKept

============================================================================
