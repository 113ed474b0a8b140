----------------------------- MODULE RpcService -----------------------------
(***************************************************************************)
(* What ConnectionsManager promises the code that performs requests, with  *)
(* no connection, message id, queue or session in sight: an accepted       *)
(* request is pending until its completion block has run or its caller has *)
(* withdrawn it; no block runs for a request that is not pending; nothing  *)
(* that left comes back.                                                   *)
(*                                                                         *)
(* It does not promise that a block runs only once: RpcEngine shows when   *)
(* the code runs one again (CompletesOnce).                                *)
(***************************************************************************)
EXTENDS Integers

CONSTANT Requests

VARIABLES
  revoked,  \* requests whose caller has called cancelRpc
  accepted, \* requests ever accepted
  pending,  \* requests the engine still holds
  calls     \* times each completion block has run

vars == <<revoked, accepted, pending, calls>>

Init ==
  /\ revoked = {} /\ accepted = {} /\ pending = {}
  /\ calls = [r \in Requests |-> 0]

\* One step of the engine accepts new requests, runs blocks of pending requests
\* only, and lets go only of requests whose block has run.
Serve ==
  /\ accepted \subseteq accepted' /\ accepted' \subseteq Requests
  /\ accepted' \ accepted \subseteq pending'
  /\ pending' \subseteq pending \cup (accepted' \ accepted)
  /\ calls' \in [Requests -> Nat]
  /\ \A r \in Requests : r \notin pending => calls'[r] = calls[r]
  /\ \A r \in pending : calls'[r] >= calls[r]
  /\ \A r \in pending \ pending' : calls'[r] > 0
  /\ UNCHANGED revoked

\* A caller asks for a request to be cancelled.
Revoke(r) ==
  /\ revoked' = revoked \cup {r}
  /\ UNCHANGED <<accepted, pending, calls>>

\* The engine lets go of a request whose caller cancelled it.
Withdraw(r) ==
  /\ r \in pending \cap revoked
  /\ pending' = pending \ {r}
  /\ UNCHANGED <<revoked, accepted, calls>>

Next ==
  \/ Serve
  \/ \E r \in Requests : Revoke(r) \/ Withdraw(r)

Spec == Init /\ [][Next]_vars
=============================================================================
