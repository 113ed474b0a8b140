---------------------------- MODULE MCRpcEngine ----------------------------
(* Small instances of RpcEngine for TLC. *)
EXTENDS RpcEngine

CONSTANTS g1, g2, d1   \* two generic requests and a download
VARIABLE  scene        \* chosen at the beginning

OneDownload == [r \in Requests |-> IF r = d1 THEN "download" ELSE "generic"]
OneSlotEach == [c \in Classes |-> 1]

\* The scenes: two requests compete for one slot over two connections; a request
\* and a download of connections of their own, while the server loses its
\* session or refuses a message, or the user logs out; and a download with three
\* connections.
Scenes == {"slots", "reset", "download"}

\* Bounds.  The first request performed is g1, of two that are alike.
Few ==
  /\ scene # "download" => asked' = {} \/ g1 \in asked'
  /\ scene = "slots" =>
       /\ d1 \notin asked' /\ channel'["download"] = 0 /\ lastChannel' <= 2
       /\ session' = 0 /\ announced' = {}
       /\ \A i \in DOMAIN stage' : stage'[i].op # "cleanUp"
  /\ scene = "reset" =>
       /\ g2 \notin asked' /\ lastChannel' <= 2 /\ revoked' = {} /\ Len(stage') <= 1
  /\ scene = "download" => asked' \subseteq {d1} /\ channel'["generic"] = 0

SomeNext == Next /\ Few /\ UNCHANGED scene

SomeInit ==
  /\ scene \in Scenes
  /\ Init

SomeSpec == SomeInit /\ [][SomeNext]_<<scene, vars>>

\* All that can happen within the bounds of the constants, to its end.
LiveNext == Next /\ UNCHANGED scene
LiveInit == scene = "live" /\ Init
LiveSpec == LiveInit /\ [][LiveNext]_<<scene, vars>> /\ Fairness
=============================================================================
