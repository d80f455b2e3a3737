----------------------------- MODULE MCGateway -----------------------------
(* Instances of Gateway for TLC.                                           *)
EXTENDS Gateway

\* A drop, a refused token, a session reset; 4007 is a bad seq in a RESUME.
MCCloseCodes == {1006, 4004, 4007}
MCDrops == {1006, 4004}
MCAllCalls == {"destroy", "disconnect", "reconnect"}
MCNoCalls == {}

\* The behaviours in which no heartbeat times out, up to the step where one does.
BeforeTimeout == ~TimedOut

\* The server answers a heartbeat before it gets the next one.
OneHeartbeatDue == \A c \in Conn : due[c] <= 1
=============================================================================
