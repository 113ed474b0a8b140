---------------------------- MODULE MCDcMigration ----------------------------
(* Small instances of DcMigration for TLC. *)
EXTENDS DcMigration, TLC

CONSTANTS u, f          \* a request of the application, a download
VARIABLE  scene         \* chosen at the beginning

Three == 1..3
AtTwo == f :> 2

\* What was saved: two datacenters, one with a key; or all of them, with keys.
Login == [known |-> {1, 2}, keys |-> {1}, authorized |-> {}, loggedIn |-> FALSE]
One   == [Login EXCEPT !.authorized = {1}, !.loggedIn = TRUE]
All   == [known |-> Three, keys |-> Three, authorized |-> Three, loggedIn |-> TRUE]
SavedBefore == {Login, One, All}

\* The scenes: one in which all that can happen does, and two that are asked to
\* come to an end, of a user who is logged in and of one who is not yet.
Scenes == {"any", "ends", "login ends"}

SomeInit ==
  /\ scene \in Scenes
  /\ Init
  /\ scene = "ends" => cm.activated /\ cm.keys = {1}
  /\ scene = "login ends" => ~cm.activated

\* Bounds: four troubles in the first scene; in the others two, neither logouts
\* nor lists that nobody needs, and the download, if any, comes second.
Troubles(w) ==
  (MaxRedirects - w.redirects) + (MaxFaults - w.faults) + (MaxUpdates - w.updates)
  + (MaxLogouts - w.logouts)
Few ==
  IF scene = "any" THEN Troubles(world') <= 4
  ELSE /\ Troubles(world') <= 2
       /\ world'.logouts = MaxLogouts /\ world'.updates = MaxUpdates
       /\ f \in cm'.asked => u \in cm'.asked /\ scene = "ends"

SomeNext == Next /\ Few /\ UNCHANGED scene

SomeSpec == SomeInit /\ [][SomeNext]_<<scene, vars>> /\ WF_vars(scene # "any" /\ Work /\ UNCHANGED scene)

\* What is asked to come to an end.
MovesEnd == scene # "any" => MoveEnds
=============================================================================
