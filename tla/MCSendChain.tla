----------------------------- MODULE MCSendChain -----------------------------
(* Small instances of SendChain for TLC. *)
EXTENDS SendChain

VARIABLE scene   \* chosen at the beginning

\* The scenes: two messages and two channels, with all that can happen; three
\* messages over two channels, one of them due at a time; three over one channel,
\* answered for another attempt.
Scenes == {"two", "three", "again"}

\* Bounds.
Few ==
  /\ scene = "two" => asked' <= 2
  /\ scene # "two" => losses' = 0
  /\ scene = "again" => opened' <= 1 /\ (opened = 1 => channel' = 1)
  /\ scene = "three" =>
       Cardinality(due') <= 1 /\ \A i \in DOMAIN outcome' : outcome'[i] # "retry"

SomeNext == Next /\ Few /\ UNCHANGED scene

SomeInit ==
  /\ scene \in Scenes
  /\ Init

SomeSpec == SomeInit /\ [][SomeNext]_<<scene, vars>> /\ WF_vars(Works /\ UNCHANGED scene)
=============================================================================
