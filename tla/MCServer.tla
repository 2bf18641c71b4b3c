------------------------------ MODULE MCServer ------------------------------
(* Small instances of Server.  One room is enough for what happens under   *)
(* one lock; what the rooms share is the timer and the failing sink, and   *)
(* that needs two.                                                         *)
EXTENDS Server

(* A host alone, two humans and the impostor.                              *)
ASSUME Interesting == MaxPlayers >= 3

============================================================================
