----------------------------- MODULE MCReplies -----------------------------
(* Small instances of Replies.  A place for a fourth player makes an alias *)
(* that nobody may have: a suspect who is not a player.                    *)
EXTENDS Replies

ASSUME Interesting == MaxPlayers >= 4 /\ MaxFailures >= 1

============================================================================
