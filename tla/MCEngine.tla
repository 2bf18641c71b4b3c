------------------------------ MODULE MCEngine ------------------------------
(* Small instances of Engine.  Two calls overlap; what one of them can do  *)
(* alone shows the rest.                                                   *)
EXTENDS Engine, TLC

(* No text; a delta that brings the answer over the limit, with a break    *)
(* of character beyond it in one or in two deltas; a break at once; an     *)
(* answer that fits; one that is longer than generate allows.              *)
Streams == { << >>, << <<"plain">>, <<"break">> >>, << <<"plain", "break">> >>,
             << <<"break">> >>, << <<"plain">> >>, << <<"huge">> >> }

CallSymmetry == Permutations(Calls)

=============================================================================
