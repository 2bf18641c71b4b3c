----------------------------- MODULE MCTracking -----------------------------
(* Small instances of Tracking.                                            *)
EXTENDS Tracking

Turn(prompt, latency, broken) ==
  [wellFormed |-> TRUE, prompt |-> prompt, completion |-> 1, latency |-> latency,
   broken |-> broken]

(* A quick answer, a slow one out of character, one whose usage the        *)
(* provider did not tell, and one that cannot be read.                     *)
Turns ==
  {Turn(3, 1, 0), Turn(2, 2, 1), [Turn(0, 1, 0) EXCEPT !.completion = 0],
   [Turn(0, 0, 0) EXCEPT !.wellFormed = FALSE]}

(* Quorums need three humans beside the impostor; two answers have an      *)
(* order and an average.                                                   *)
ASSUME Interesting == MaxPlayers >= 4 /\ Rounds >= 2

============================================================================
