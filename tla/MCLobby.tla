------------------------------ MODULE MCLobby ------------------------------
(* Small instances of Lobby: the host and a few joins, all in flight at    *)
(* once.  The joins are interchangeable.                                   *)
EXTENDS Lobby, TLC

Symmetry == Permutations(Joiners)

(* Two joins can share an alias; a third finds the roster they leave.      *)
ASSUME Interesting == Cardinality(Joiners) >= 2

============================================================================
