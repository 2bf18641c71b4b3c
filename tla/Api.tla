-------------------------------- MODULE Api --------------------------------
(***************************************************************************)
(* The screens call src/ui/api.py, and it calls the source the environment *)
(* of the process names: the server of module UiSession over HTTP, or the  *)
(* room of module Fake in this process.  The name does not change while    *)
(* the process runs, so that a run is of the one or of the other.          *)
(***************************************************************************)
EXTENDS UiSession

VARIABLES
  source,  \* SOSPECHAI_UI_SOURCE
  room     \* of Fake: the attributes of _Room

F == INSTANCE Fake

apiVars == <<uiVars, source, room>>

ApiInit == source \in {"fake", "http"} /\ UiInit /\ F!FakeInit

(* _source()                                                               *)
ApiNext ==
  \/ source = "http" /\ UiNext /\ UNCHANGED <<source, room>>
  \/ source = "fake" /\ F!FakeNext /\ UNCHANGED <<source, uiVars>>

(* What is fair of the server's room and its browsers is fair here; of the *)
(* fake nothing is.                                                        *)
ApiSpec == ApiInit /\ [][ApiNext]_apiVars /\ UiFairness

(* The fake's records are whole: see module Fake.                          *)
RecordsAreWhole == F!RecordsAreWhole

(* The fake plays the game a server would: see module Fake.                *)
FakePlaysTheGame == F!FakePlaysTheGame

=============================================================================
