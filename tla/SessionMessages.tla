--------------------------- MODULE SessionMessages ---------------------------
(***************************************************************************)
(* MessageSession beside another component, with constants and variables   *)
(* of its own: the runs take it together with SessionClock, the proofs     *)
(* with TcpConnection, whose connections have the sessions.                *)
(***************************************************************************)
EXTENDS Naturals

CONSTANTS MaxMessages, Answers, Unreadable, Kept, Forgotten, MaxPackets, MaxId, MaxLosses,
          MaxSessions
VARIABLES session, processed, toConfirm, running, resent, open, packets, letters, theirs, sentIn,
          confirmed, lastId, losses, times, forgot, excused, mixed

Session == INSTANCE MessageSession WITH
  MaxDrops <- MaxLosses, wanted <- running, down <- packets, up <- letters, drops <- losses

ASSUME SessionAssumption ==
  Session!MessagesAssumption /\ Session!WindowAssumption /\ Session!BoundAssumption

\* What a session keeps in every state: types, each message processed once, and
\* confirmed when it was, in its own session (MessageSession; ConnectionContext).
SessionIsSafe == Session!SessionSafe
=============================================================================
