------------------------------- MODULE Channels -------------------------------
(***************************************************************************)
(* What TcpConnection promises the request engine of its channel token: it *)
(* is 0 while there is no channel, and every channel has one of its own,   *)
(* above all before.  The engine tells by it whether a message it sent can *)
(* still be answered.                                                      *)
(***************************************************************************)
EXTENDS Naturals

CONSTANT Ends                 \* the connections
VARIABLES channel, last       \* the token of each; the last one given

Init == channel = [c \in Ends |-> 0] /\ last = 0

Open(c) ==
  /\ channel[c] = 0
  /\ last' = last + 1
  /\ channel' = [channel EXCEPT ![c] = last + 1]

Close(c) ==
  /\ channel[c] # 0
  /\ channel' = [channel EXCEPT ![c] = 0]
  /\ last' = last

Next == \E c \in Ends : Open(c) \/ Close(c)

Spec == Init /\ [][Next]_<<channel, last>>
=============================================================================
