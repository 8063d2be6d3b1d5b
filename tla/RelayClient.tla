---------------------------- MODULE RelayClient ----------------------------
(***************************************************************************)
(* The persona's websocket client in the gateway                           *)
(* (framework/engine/gateway/relay-client.ts): connecting, the handshake   *)
(* with the relay, the handshake timer, and reconnection.                  *)
(*                                                                         *)
(* Callbacks of one process, one step each.  A text message is normalised  *)
(* behind an await that no event can overtake, so its handling is one step.*)
(* The delay before a reconnect, and the counter it grows with, are left   *)
(* out: only the timer they arm matters here.                              *)
(***************************************************************************)
EXTENDS Naturals

CONSTANT MaxFaults   \* bound: connections that fail, stall, go silent or are refused

ASSUME FaultBound == MaxFaults \in Nat

VARIABLES
  phase,          \* readyState of the current socket, "closed" once its close event ran
  peer,           \* the other end: alive, gone, or gone without a word
  exchange,       \* the handshake message that is due on this socket
  authenticated,
  heartbeat,      \* whether heartbeatTimeout is armed
  reconnect,      \* whether reconnectTimeout is armed
  stopped,
  faults          \* faults so far

clientVars == <<phase, peer, exchange, authenticated, heartbeat, reconnect, stopped, faults>>

Events == phase \in {"open", "closing"} /\ ~stopped

\* The connection still carries what is written to it.
Carries == phase = "open" /\ peer = "alive"

ClientInit ==
  /\ phase = "connecting" /\ peer = "alive" /\ exchange = "none"
  /\ authenticated = FALSE
  /\ heartbeat = FALSE /\ reconnect = FALSE
  /\ stopped = FALSE
  /\ faults = 0

\* onopen: request a challenge and arm the handshake timer.
Opened ==
  /\ phase = "connecting" /\ peer = "alive" /\ ~stopped
  /\ phase' = "open"
  /\ exchange' = "challenge"
  /\ authenticated' = FALSE
  /\ heartbeat' = TRUE
  /\ UNCHANGED <<peer, reconnect, stopped, faults>>

\* auth_challenge: sign and answer; every message before auth_ok re-arms the
\* timer.  The answer is dropped when the socket is closing.
Challenged ==
  /\ Events /\ peer = "alive" /\ exchange = "challenge"
  /\ heartbeat' = TRUE
  /\ exchange' = IF phase = "open" THEN "verdict" ELSE "none"
  /\ UNCHANGED <<phase, peer, authenticated, reconnect, stopped, faults>>

\* auth_ok.
Granted ==
  /\ Events /\ peer = "alive" /\ exchange = "verdict"
  /\ exchange' = "none"
  /\ authenticated' = TRUE
  /\ heartbeat' = FALSE
  /\ UNCHANGED <<phase, peer, reconnect, stopped, faults>>

\* auth_error, after which the relay closes the socket.
Refused ==
  /\ Events /\ peer = "alive" /\ exchange \in {"challenge", "verdict"}
  /\ faults < MaxFaults /\ faults' = faults + 1
  /\ exchange' = "none"
  /\ peer' = "gone"
  /\ heartbeat' = TRUE
  /\ UNCHANGED <<phase, authenticated, reconnect, stopped>>

\* The relay closes the socket (it was replaced, or the relay stops), the
\* connection breaks, or it goes silent without a close.  A socket that never
\* connects fails with an error.
Fault ==
  /\ phase \in {"connecting", "open"} /\ peer = "alive"
  /\ faults < MaxFaults /\ faults' = faults + 1
  /\ peer' \in IF phase = "open" THEN {"gone", "silent"} ELSE {"gone"}
  /\ UNCHANGED <<phase, exchange, authenticated, heartbeat, reconnect, stopped>>

\* The handshake timer: it is not armed once the relay said auth_ok.  With a
\* relay that is alive, its firing means that the handshake was too slow.
HeartbeatFires ==
  /\ heartbeat
  /\ IF peer = "alive"
     THEN faults < MaxFaults /\ faults' = faults + 1
     ELSE faults' = faults
  /\ heartbeat' = FALSE
  /\ phase' = IF phase = "open" THEN "closing" ELSE phase
  /\ UNCHANGED <<peer, exchange, authenticated, reconnect, stopped>>

\* Wrong variant: only a socket that had been authenticated is replaced.
ClosedQuietly ==
  /\ \/ phase = "closing"
     \/ phase \in {"connecting", "open"} /\ peer = "gone"
  /\ phase' = "closed"
  /\ exchange' = "none"
  /\ authenticated' = FALSE /\ heartbeat' = FALSE
  /\ reconnect' = (authenticated /\ ~stopped)
  /\ UNCHANGED <<peer, stopped, faults>>

\* onerror and onclose of the current socket: forget the session and arm the
\* reconnect timer, unless the client was stopped.
Closed ==
  /\ \/ phase = "closing"
     \/ phase \in {"connecting", "open"} /\ peer = "gone"
  /\ phase' = "closed"
  /\ exchange' = "none"
  /\ IF stopped
     THEN UNCHANGED <<authenticated, heartbeat, reconnect>>
     ELSE authenticated' = FALSE /\ heartbeat' = FALSE /\ reconnect' = TRUE
  /\ UNCHANGED <<peer, stopped, faults>>

\* The reconnect timer: connect with a new socket.
ReconnectFires ==
  /\ reconnect
  /\ reconnect' = FALSE
  /\ phase' = "connecting" /\ peer' = "alive" /\ exchange' = "none"
  /\ UNCHANGED <<authenticated, heartbeat, stopped, faults>>

\* stop(): no timer is left, and the socket is asked to close.
Stop ==
  /\ ~stopped /\ stopped' = TRUE
  /\ heartbeat' = FALSE /\ reconnect' = FALSE
  /\ phase' = IF phase \in {"connecting", "open"} THEN "closing" ELSE phase
  /\ UNCHANGED <<peer, exchange, authenticated, faults>>

ClientNext ==
  \/ Opened \/ Challenged \/ Granted \/ Refused \/ Fault
  \/ HeartbeatFires \/ Closed \/ ReconnectFires \/ Stop

\* The steps that happen by themselves: the network answers or fails, timers
\* that are due fire, and a close completes.
ClientProgress == Opened \/ Challenged \/ Granted \/ HeartbeatFires \/ Closed \/ ReconnectFires

-----------------------------------------------------------------------------
ClientTypeOK ==
  /\ phase \in {"connecting", "open", "closing", "closed"}
  /\ peer \in {"alive", "gone", "silent"}
  /\ exchange \in {"none", "challenge", "verdict"}
  /\ authenticated \in BOOLEAN /\ heartbeat \in BOOLEAN
  /\ reconnect \in BOOLEAN /\ stopped \in BOOLEAN
  /\ faults \in 0 .. MaxFaults

\* A client that was not stopped always has something that will bring it back:
\* a socket whose close event is still to come, or an armed timer, and never
\* two of them (scheduleReconnect, connect).
NeverStranded == ~stopped => (reconnect <=> phase = "closed")
=============================================================================
