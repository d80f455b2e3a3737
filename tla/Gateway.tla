------------------------------ MODULE Gateway ------------------------------
(***************************************************************************)
(* gateway::Connection of src/gateway.cc: the client of the Discord        *)
(* gateway, the hubs it creates, the heartbeat thread it spawns, and as    *)
(* much of uWebSockets and of the server as its handlers depend on.        *)
(*                                                                         *)
(* Every connect() creates a hub of its own, with one socket, and blocks   *)
(* in hub.run().  reconnect() calls connect() from inside a handler, so    *)
(* hubs nest: a thread is a stack of calls that have not returned.  The    *)
(* frames, top first, are                                                  *)
(*   Dial        reconnect() sleeps and will then call connect()           *)
(*   Run(c)      connect() number c is in hub.run()                        *)
(*   Closing(c)  uWS, in close() of socket c, is inside onDisconnection    *)
(*   Disconnected(c)  onDisconnection, called by the heartbeat thread, has *)
(*               written open and will do the rest                         *)
(*   Handing(c)  onMessage of socket c, back from the reconnect() of an    *)
(*               opcode, calls the messageHandler                          *)
(*   Destroying  destroy() is inside disconnect()                          *)
(***************************************************************************)
EXTENDS Integers, Sequences

CONSTANTS
  MaxConns,         \* bound on the calls of connect()
  MaxSeq,           \* bound on the dispatches of one session
  MaxDue,           \* bound on the heartbeats the server asks for with op 1
  CloseCodes,       \* the codes a connection is ended with from outside
  HasErrorHandler,  \* whether onError() was given a handler
  HandlerCalls      \* the methods the application calls from its handlers

FatalCodes == {4004, 4010, 4011}
ResetCodes == {4003, 4007, 4009}

ASSUME BoundsAssumption == MaxConns \in Nat /\ MaxSeq \in Nat /\ MaxDue \in Nat
ASSUME CodesAssumption == CloseCodes \subseteq Nat
ASSUME HandlersAssumption ==
  /\ HasErrorHandler \in BOOLEAN
  /\ HandlerCalls \subseteq {"destroy", "disconnect", "reconnect"}

VARIABLES
  stack,      \* the calls in progress on each thread
  hb,         \* where the heartbeat thread is in its loop
  alive,      \* FALSE once the process has ended
  ws,         \* the socket the object sends on, NoConn until one is assigned
  open, acked, session, seq, tries, heartbeatStarted, heartbeatOpen,
  nconn,      \* how many times connect() was called
  sock,       \* each hub's socket, as uWS sees it
  phase,      \* the server: how far each connection's handshake is
  sess,       \* the server: the session each connection is attached to
  pos,        \* the server: the last dispatch sent on each connection
  due,        \* the server: heartbeats received and not acknowledged yet
  ended,      \* the server: sessions it ended with a close code
  refused,    \* the server: sessions it refused with an op 9 that says so
  handed      \* the dispatches of each session given to the messageHandler

threadVars == <<stack, hb, alive>>
connVars == <<ws, open, acked, session, seq, tries, heartbeatStarted, heartbeatOpen>>
hubVars == <<nconn, sock>>
serverVars == <<phase, sess, pos, due, ended, refused>>
vars == <<threadVars, connVars, hubVars, serverVars, handed>>

Thread == {"main", "beat"}
Conn == 1..MaxConns
NoConn == 0
NoSession == 0          \* session = ""; a session is named by its connection

Dial == [at |-> "dial", c |-> NoConn]
Run(c) == [at |-> "run", c |-> c]
Closing(c) == [at |-> "closing", c |-> c]
Disconnected(c) == [at |-> "disconnected", c |-> c]
Handing(c) == [at |-> "handing", c |-> c]
Destroying == [at |-> "destroying", c |-> NoConn]
Frame ==
  [at : {"dial", "run", "closing", "disconnected", "handing", "destroying"},
   c : Conn \cup {NoConn}]

HeartbeatStates ==
  {"none", "loop", "sleep", "check", "mark", "send", "done", "timeout", "closing",
   "reconnecting"}
SocketStates == {"unused", "connecting", "open", "closed", "failed"}
Phases == {"new", "greeted", "identify", "resume", "ready", "invalid"}

TypeOK ==
  /\ stack \in [Thread -> Seq(Frame)]
  /\ hb \in HeartbeatStates
  /\ alive \in BOOLEAN
  /\ ws \in Conn \cup {NoConn}
  /\ open \in BOOLEAN /\ acked \in BOOLEAN
  /\ heartbeatStarted \in BOOLEAN /\ heartbeatOpen \in BOOLEAN
  /\ session \in Conn \cup {NoSession}
  /\ seq \in Int /\ tries \in Nat
  /\ nconn \in 0..MaxConns
  /\ sock \in [Conn -> SocketStates]
  /\ phase \in [Conn -> Phases]
  /\ sess \in [Conn -> Conn \cup {NoSession}]
  /\ pos \in [Conn -> Int]
  /\ due \in [Conn -> Nat]
  /\ ended \subseteq Conn /\ refused \subseteq Conn
  /\ handed \in [Conn -> Seq(Int)]

\* The application constructs a Connection and calls connect() on its thread.
Init ==
  /\ stack = [t \in Thread |-> IF t = "main" THEN <<Dial>> ELSE <<>>]
  /\ hb = "none"
  /\ alive = TRUE
  /\ ws = NoConn
  /\ open = FALSE
  /\ acked = TRUE
  /\ session = NoSession
  /\ seq = -1
  /\ tries = 0
  /\ heartbeatStarted = FALSE
  /\ heartbeatOpen = TRUE
  /\ nconn = 0
  /\ sock = [c \in Conn |-> "unused"]
  /\ phase = [c \in Conn |-> "new"]
  /\ sess = [c \in Conn |-> NoSession]
  /\ pos = [c \in Conn |-> 0]
  /\ due = [c \in Conn |-> 0]
  /\ ended = {}
  /\ refused = {}
  /\ handed = [c \in Conn |-> <<>>]

----------------------------------------------------------------------------
(* The stack of a thread.                                                  *)

AtTop(t, f) == stack[t] # <<>> /\ Head(stack[t]) = f
Calls(t, s) == stack' = [stack EXCEPT ![t] = s]
Returns(t) == Calls(t, Tail(stack[t]))
Receiving(t, c) == AtTop(t, Run(c)) /\ sock[c] = "open"
----------------------------------------------------------------------------
(* What the methods send.  All of them send on ws, whichever socket's      *)
(* handler called them.                                                    *)

\* The server takes an IDENTIFY or a RESUME after its HELLO and after an op 9.
Listens(ph) == sock[ws] = "open" /\ ph[ws] \in {"greeted", "invalid"}

\* Mutation: the two assignments of identify() swapped.
IdentifySwapped(ph) ==
  /\ seq' = NoSession
  /\ session' = -1
  /\ phase' = IF Listens(ph) THEN [ph EXCEPT ![ws] = "identify"] ELSE ph
  /\ UNCHANGED <<sess, pos>>

\* identify(), when ph are the phases the message finds the server in.
Identify(ph) ==
  /\ seq' = -1
  /\ session' = NoSession
  /\ phase' = IF Listens(ph) THEN [ph EXCEPT ![ws] = "identify"] ELSE ph
  /\ UNCHANGED <<sess, pos>>

\* resume(): the message carries session and seq.
Resume(ph) ==
  /\ \/ /\ Listens(ph)
        /\ phase' = [ph EXCEPT ![ws] = "resume"]
        /\ sess' = [sess EXCEPT ![ws] = session]
        /\ pos' = [pos EXCEPT ![ws] = seq]
     \/ /\ ~Listens(ph)
        /\ phase' = ph
        /\ UNCHANGED <<sess, pos>>
  /\ UNCHANGED <<seq, session>>

\* heartbeat(): lost when the socket is not open any more.
Heartbeat ==
  due' = IF sock[ws] = "open" THEN [due EXCEPT ![ws] = @ + 1] ELSE due

----------------------------------------------------------------------------
(* Closing and reconnecting.                                               *)

\* The codes after which the handler destroys the connection for good.
Destroys(code) == tries = 5 \/ code \in FatalCodes

\* Mutation: the case label 4007 is missing.
ForgetsNot4007(code) == code \in ResetCodes \ {4007}

\* The codes whose case labels forget the session before reconnecting.
Forgets(code) == code \in ResetCodes

\* What onDisconnection does once it has written open.  destroy() finds open = FALSE
\* here and only stops the heartbeat thread.
GoesDown(t, c, code, below) ==
  \/ /\ Destroys(code)
     /\ heartbeatOpen' = FALSE
     /\ Calls(t, <<Closing(c)>> \o below)
     /\ UNCHANGED <<session, seq>>
  \/ /\ ~Destroys(code)
     /\ session' = IF Forgets(code) THEN NoSession ELSE session
     /\ seq' = IF Forgets(code) THEN -1 ELSE seq
     /\ Calls(t, <<Dial, Closing(c)>> \o below)
     /\ UNCHANGED heartbeatOpen

\* The lambda given to hub.onDisconnection, called on thread t for socket c;
\* below is what t returns to when uWS has finished closing c.
OnDisconnection(t, c, code, below) == open' = FALSE /\ GoesDown(t, c, code, below)

\* disconnect(code): uWS v0.14.5 calls the onDisconnection handler from inside
\* ws->close(code), before it marks the socket as shutting down.
Disconnect(t, code, below) ==
  \/ open /\ OnDisconnection(t, ws, code, below)
  \/ ~open /\ Calls(t, below) /\ UNCHANGED <<open, heartbeatOpen, session, seq>>

\* reconnect(code): disconnect(code), then sleep, then connect().
Reconnect(t, code, below) == Disconnect(t, code, <<Dial>> \o below)

\* connect() after reconnect()'s sleep: a new hub, and hub.run().
Connect(t) ==
  /\ AtTop(t, Dial)
  /\ nconn < MaxConns
  /\ nconn' = nconn + 1
  /\ sock' = [sock EXCEPT ![nconn'] = "connecting"]
  /\ Calls(t, <<Run(nconn')>> \o Tail(stack[t]))
  /\ UNCHANGED <<hb, alive, connVars, serverVars, handed>>

\* Mutation: the socket of the first connection is kept.
OpensFirst(c) == ws' = (IF ws = NoConn THEN c ELSE ws) /\ open' = TRUE

Opens(c) == ws' = c /\ open' = TRUE

\* The lambda given to hub.onConnection: the upgrade succeeded.
OnConnection(t, c) ==
  /\ AtTop(t, Run(c)) /\ sock[c] = "connecting"
  /\ sock' = [sock EXCEPT ![c] = "open"]
  /\ Opens(c)
  /\ UNCHANGED <<threadVars, acked, session, seq, tries, heartbeatStarted,
                 heartbeatOpen, nconn, serverVars, handed>>

\* Mutation: a failed attempt is not followed by another one.
GivesUp(t) == UNCHANGED stack

\* reconnect() finds open = FALSE, so nothing is closed.
Retries(t) == IF HasErrorHandler THEN Calls(t, <<Dial>> \o stack[t]) ELSE UNCHANGED stack

\* The lambda given to hub.onError: the connection or its upgrade failed.
OnError(t, c) ==
  /\ AtTop(t, Run(c)) /\ sock[c] = "connecting"
  /\ sock' = [sock EXCEPT ![c] = "failed"]
  /\ open' = FALSE
  /\ Retries(t)
  /\ UNCHANGED <<hb, alive, ws, acked, session, seq, tries, heartbeatStarted,
                 heartbeatOpen, nconn, serverVars, handed>>

\* uWS: the server closes socket c with a code, or it drops (1006).  The
\* codes of a session it does not know any more end that session.
ServerCloses(t, c, code) ==
  /\ Receiving(t, c)
  /\ ended' = IF code \in ResetCodes
              THEN ended \cup ({sess[c]} \cap Conn) ELSE ended
  /\ OnDisconnection(t, c, code, stack[t])
  /\ UNCHANGED <<hb, alive, ws, acked, tries, heartbeatStarted, hubVars,
                 phase, sess, pos, due, refused, handed>>

\* uWS: the handler has returned into close() of socket c.
CloseReturns(t) ==
  \E c \in Conn :
    /\ AtTop(t, Closing(c))
    /\ sock' = [sock EXCEPT ![c] = "closed"]
    /\ Returns(t)
    /\ UNCHANGED <<hb, alive, connVars, nconn, serverVars, handed>>

\* hub.run() returns when its socket is gone, and connect() with it.
RunReturns(t) ==
  \E c \in Conn :
    /\ AtTop(t, Run(c)) /\ sock[c] \in {"closed", "failed"}
    /\ Returns(t)
    /\ UNCHANGED <<hb, alive, connVars, hubVars, serverVars, handed>>

\* disconnect() has returned into destroy().
DestroyReturns(t) ==
  /\ AtTop(t, Destroying)
  /\ heartbeatOpen' = FALSE
  /\ Returns(t)
  /\ UNCHANGED <<hb, alive, ws, open, acked, session, seq, tries,
                 heartbeatStarted, hubVars, serverVars, handed>>

\* The messageHandler, called after the reconnect() of an opcode, has returned.
HandingReturns(t) ==
  \E c \in Conn :
    /\ AtTop(t, Handing(c))
    /\ Returns(t)
    /\ UNCHANGED <<hb, alive, connVars, hubVars, serverVars, handed>>
----------------------------------------------------------------------------
(* The lambda given to hub.onMessage: one action per opcode, for a message  *)
(* the server may send at that point, and the messageHandler's own calls.   *)

\* The application's handler is called, or may be: while the socket receives, whose first
\* message is the HELLO, or after the reconnect() of an opcode, when it is gone.
Handles(t, c) == (Receiving(t, c) /\ phase[c] # "new") \/ AtTop(t, Handing(c))

\* It calls a method of the connection.
HandlerDestroy(t, c) ==
  /\ "destroy" \in HandlerCalls /\ Handles(t, c)
  /\ Disconnect(t, 1000, <<Destroying>> \o stack[t])
  /\ UNCHANGED <<hb, alive, ws, acked, tries, heartbeatStarted, hubVars,
                 serverVars, handed>>

HandlerDisconnect(t, c) ==
  /\ "disconnect" \in HandlerCalls /\ Handles(t, c)
  /\ Disconnect(t, 1000, stack[t])
  /\ UNCHANGED <<hb, alive, ws, acked, tries, heartbeatStarted, hubVars,
                 serverVars, handed>>

HandlerReconnect(t, c) ==
  /\ "reconnect" \in HandlerCalls /\ Handles(t, c)
  /\ Reconnect(t, 1000, stack[t])
  /\ UNCHANGED <<hb, alive, ws, acked, tries, heartbeatStarted, hubVars,
                 serverVars, handed>>

\* op 10, HELLO.  The first one starts the heartbeat thread, which sleeps
\* before its first heartbeat; every later one sends a heartbeat at once.
OnHello(t, c) ==
  /\ Receiving(t, c) /\ phase[c] = "new"
  /\ LET ph == [phase EXCEPT ![c] = "greeted"]
     IN  \/ session # NoSession /\ Resume(ph)
         \/ session = NoSession /\ Identify(ph)
  /\ acked' = TRUE
  /\ heartbeatStarted' = TRUE
  /\ \/ ~heartbeatStarted /\ hb' = "loop" /\ UNCHANGED due
     \/ heartbeatStarted /\ Heartbeat /\ UNCHANGED hb
  /\ UNCHANGED <<stack, alive, ws, open, tries, heartbeatOpen, hubVars, ended, refused, handed>>

\* Mutation: seq is stored for the READY only.
DispatchesReady(s, n) ==
  /\ seq' = IF n = 1 THEN n ELSE seq
  /\ handed' = [handed EXCEPT ![s] = Append(@, n)]

\* op 0: seq is stored, and dispatch n of session s reaches the messageHandler.
Dispatches(s, n) ==
  /\ seq' = n
  /\ handed' = [handed EXCEPT ![s] = Append(@, n)]

\* op 0, READY: the first dispatch of a new session.
OnReady(t, c) ==
  /\ Receiving(t, c) /\ phase[c] = "identify"
  /\ phase' = [phase EXCEPT ![c] = "ready"]
  /\ sess' = [sess EXCEPT ![c] = c]
  /\ pos' = [pos EXCEPT ![c] = 1]
  /\ Dispatches(c, 1)
  /\ session' = c
  /\ tries' = 0
  /\ UNCHANGED <<threadVars, ws, open, acked, heartbeatStarted, heartbeatOpen,
                 hubVars, due, ended, refused>>

\* op 0, any other dispatch; after a RESUME, those after the seq it carried.
OnDispatch(t, c) ==
  /\ Receiving(t, c) /\ phase[c] \in {"ready", "resume"}
  /\ sess[c] \in Conn \ (ended \cup refused)
  /\ pos[c] \in 1..(MaxSeq - 1)
  /\ phase' = [phase EXCEPT ![c] = "ready"]
  /\ pos' = [pos EXCEPT ![c] = @ + 1]
  /\ Dispatches(sess[c], pos[c] + 1)
  /\ UNCHANGED <<threadVars, ws, open, acked, session, tries, heartbeatStarted,
                 heartbeatOpen, hubVars, sess, due, ended, refused>>

\* op 11: the server acknowledges a heartbeat it received.
OnAck(t, c) ==
  /\ Receiving(t, c) /\ due[c] > 0
  /\ due' = [due EXCEPT ![c] = @ - 1]
  /\ acked' = TRUE
  /\ UNCHANGED <<threadVars, ws, open, session, seq, tries, heartbeatStarted,
                 heartbeatOpen, hubVars, phase, sess, pos, ended, refused, handed>>

\* op 7: the server asks the client to reconnect.
OnReconnectOp(t, c) ==
  /\ Receiving(t, c) /\ phase[c] # "new"
  /\ Reconnect(t, 1000, <<Handing(c)>> \o stack[t])
  /\ UNCHANGED <<hb, alive, ws, acked, tries, heartbeatStarted, hubVars,
                 serverVars, handed>>

\* op 9: the session of the connection is resumable, or refused.  The handler's local d
\* shadows the message and is read uninitialised in its own initialiser: either branch,
\* whatever the message says.
OnInvalidSession(t, c) ==
  /\ Receiving(t, c) /\ phase[c] \in {"identify", "resume", "ready"}
  /\ \E resumable \in BOOLEAN :
       refused' = IF resumable THEN refused ELSE refused \cup ({sess[c]} \cap Conn)
  /\ LET ph == [phase EXCEPT ![c] = "invalid"]
     IN  \/ Resume(ph) /\ UNCHANGED <<stack, open, heartbeatOpen>>
         \/ /\ Reconnect(t, 1000, <<Handing(c)>> \o stack[t])
            /\ phase' = ph
            /\ UNCHANGED <<sess, pos>>
  /\ UNCHANGED <<hb, alive, ws, acked, tries, heartbeatStarted, hubVars,
                 due, ended, handed>>

\* op 1: the server asks for a heartbeat.
OnHeartbeatOp(t, c) ==
  /\ Receiving(t, c) /\ due[ws] < MaxDue
  /\ Heartbeat
  /\ UNCHANGED <<threadVars, connVars, hubVars, phase, sess, pos, ended, refused, handed>>

----------------------------------------------------------------------------
(* The heartbeat thread.  Its reads and writes of the connection are not    *)
(* synchronised with the handlers: each one is a step.                      *)

\* Mutation: while (true)
HbLoopForever ==
  /\ hb = "loop"
  /\ hb' = "sleep"
  /\ UNCHANGED <<stack, alive, connVars, hubVars, serverVars, handed>>

\* while (heartbeatOpen)
HbLoop ==
  /\ hb = "loop"
  /\ hb' = IF heartbeatOpen THEN "sleep" ELSE "done"
  /\ UNCHANGED <<stack, alive, connVars, hubVars, serverVars, handed>>

\* After the interval: if (!acked)
HbWake ==
  /\ hb = "sleep"
  /\ hb' = IF acked THEN "check" ELSE "timeout"
  /\ UNCHANGED <<stack, alive, connVars, hubVars, serverVars, handed>>

\* reconnect(4009) on this thread: the if (open) of disconnect().
HbTimesOut ==
  /\ hb = "timeout"
  /\ \/ open /\ hb' = "closing" /\ UNCHANGED stack
     \/ ~open /\ hb' = "reconnecting" /\ Calls("beat", <<Dial>>)
  /\ UNCHANGED <<alive, connVars, hubVars, serverVars, handed>>

\* ws->close(4009), on whatever socket ws is by then, and open = false in the handler.
\* A socket that uWS has closed may be freed: the call does it, or nothing, or crashes.
HbCloses ==
  /\ hb = "closing"
  /\ hb' = "reconnecting"
  /\ \/ /\ Calls("beat", <<Disconnected(ws), Dial>>)
        /\ open' = FALSE
        /\ UNCHANGED alive
     \/ /\ sock[ws] # "open"
        /\ Calls("beat", <<Dial>>)
        /\ alive' \in BOOLEAN
        /\ UNCHANGED open
  /\ UNCHANGED <<ws, acked, session, seq, tries, heartbeatStarted, heartbeatOpen,
                 hubVars, serverVars, handed>>

\* The rest of that handler: it forgets the session and reconnects.
HbForgets ==
  /\ hb = "reconnecting"
  /\ \E c \in Conn :
       AtTop("beat", Disconnected(c)) /\ GoesDown("beat", c, 4009, Tail(stack["beat"]))
  /\ UNCHANGED <<hb, alive, ws, open, acked, tries, heartbeatStarted, hubVars,
                 serverVars, handed>>

\* Mutation: if (!open)
HbCheckNegated ==
  /\ hb = "check"
  /\ hb' = IF open THEN "loop" ELSE "mark"
  /\ UNCHANGED <<stack, alive, connVars, hubVars, serverVars, handed>>

\* if (open)
HbCheck ==
  /\ hb = "check"
  /\ hb' = IF open THEN "mark" ELSE "loop"
  /\ UNCHANGED <<stack, alive, connVars, hubVars, serverVars, handed>>

\* Mutation: the heartbeat goes out first.
HbBeatSwapped ==
  /\ \/ hb = "mark" /\ hb' = "send" /\ Heartbeat /\ UNCHANGED acked
     \/ hb = "send" /\ hb' = "loop" /\ acked' = FALSE /\ UNCHANGED due
  /\ UNCHANGED <<stack, alive, ws, open, session, seq, tries, heartbeatStarted,
                 heartbeatOpen, hubVars, phase, sess, pos, ended, refused, handed>>

\* acked = false, and then the heartbeat goes out.
HbBeat ==
  /\ \/ hb = "mark" /\ hb' = "send" /\ acked' = FALSE /\ UNCHANGED due
     \/ hb = "send" /\ hb' = "loop" /\ Heartbeat /\ UNCHANGED acked
  /\ UNCHANGED <<stack, alive, ws, open, session, seq, tries, heartbeatStarted,
                 heartbeatOpen, hubVars, phase, sess, pos, ended, refused, handed>>

\* std::terminate(), once reconnect(4009) has returned.
HbTerminate ==
  /\ hb = "reconnecting" /\ stack["beat"] = <<>>
  /\ alive' = FALSE
  /\ UNCHANGED <<stack, hb, connVars, hubVars, serverVars, handed>>

----------------------------------------------------------------------------
Upgrades(t) == \E c \in Conn : OnConnection(t, c) \/ OnError(t, c)

Messages(t, c) ==
  \/ OnHello(t, c)
  \/ OnReady(t, c)
  \/ OnDispatch(t, c)
  \/ OnAck(t, c)
  \/ OnReconnectOp(t, c)
  \/ OnInvalidSession(t, c)
  \/ OnHeartbeatOp(t, c)
  \/ HandlerDestroy(t, c)
  \/ HandlerDisconnect(t, c)
  \/ HandlerReconnect(t, c)

\* What the thread does by itself, whatever the server does.
Unwinds(t) ==
  \/ Connect(t)
  \/ CloseReturns(t)
  \/ RunReturns(t)
  \/ DestroyReturns(t)
  \/ HandingReturns(t)

TimesOut == HbTimesOut \/ HbCloses \/ HbForgets

HeartbeatThread == HbLoop \/ HbWake \/ HbCheck \/ HbBeat \/ TimesOut \/ HbTerminate

Next ==
  /\ alive
  /\ \/ \E t \in Thread :
          \/ Unwinds(t)
          \/ Upgrades(t)
          \/ \E c \in Conn : Messages(t, c)
          \/ \E c \in Conn, code \in CloseCodes : ServerCloses(t, c, code)
     \/ HeartbeatThread

Spec == Init /\ [][Next]_vars

\* Threads are scheduled, sleeps end and a connection attempt succeeds or fails.
\* The server owes nothing: it may be silent or keep a connection for ever.
Fairness ==
  /\ WF_vars(alive /\ HeartbeatThread)
  /\ \A t \in Thread : WF_vars(alive /\ Unwinds(t)) /\ WF_vars(alive /\ Upgrades(t))

FairSpec == Spec /\ Fairness
----------------------------------------------------------------------------
(* Properties.                                                             *)

\* The heartbeat thread has found its heartbeat unacknowledged and closed the connection,
\* or found it closed.  From then on two threads run the handlers of two hubs on one
\* object, and what the other properties say of it is lost; hence their hypothesis.
TimedOut == hb = "reconnecting"

\* The flag that disconnect() tests before it closes, and the heartbeat thread before it
\* beats (send() tests nothing), is TRUE exactly while the innermost hub.run() receives on
\* the socket ws points to: never during a reconnect(), never on account of a socket an
\* outer hub has still to unwind.
OpenFlagHonest ==
  ~TimedOut => (open <=> ws # NoConn /\ Receiving("main", ws))

\* The messageHandler gets the dispatches of a session in order, each once,
\* over any number of disconnections, failed attempts and resumes.
ExactlyOnce ==
  ~TimedOut => \A s \in Conn : \A i \in DOMAIN handed[s] : handed[s][i] = i

\* seq is the last dispatch handled of the very session the object would resume: the seq
\* of one session is never paired with the id of another, and a session that the server
\* ended with a close code is not kept.  One it refused with op 9 may be kept, and
\* resumed: what the message said is not what the handler tests.
ResumePointExact ==
  ~TimedOut /\ session # NoSession =>
    /\ session \notin ended
    /\ seq \in Nat \ {0} /\ seq = Len(handed[session])

\* When the thread wakes with acked = FALSE on a connection past its HELLO,
\* the server really holds a heartbeat of that connection it has not
\* acknowledged, so a server that answers in time is never timed out.
UnackedIsOutstanding ==
  ~TimedOut /\ ~acked /\ open /\ phase[ws] # "new" => due[ws] > 0 \/ hb = "send"

\* Until something stops the heartbeat thread, no connect() has ever returned:
\* each reconnection nests a hub in the one before, so the stack grows with
\* their number.
NoConnectReturned ==
  HasErrorHandler /\ heartbeatOpen =>
    \A c \in 1..nconn : \E t \in Thread : \E i \in DOMAIN stack[t] : stack[t][i] = Run(c)

\* Once heartbeatOpen is FALSE the heartbeat thread leaves its loop, unless it
\* finds a heartbeat unacknowledged first.
HeartbeatStops ==
  ~heartbeatOpen /\ hb # "none" ~> hb \in {"done", "reconnecting"} \/ ~alive

\* Once the thread runs, an open connection gets a heartbeat or goes down:
\* it never stays up without heartbeats while heartbeatOpen is TRUE.
KeepsBeating ==
  open /\ hb \in {"loop", "sleep"} ~>
    hb \in {"send", "reconnecting"} \/ ~open \/ ~heartbeatOpen

----------------------------------------------------------------------------
(* What include/gateway.h says, and the code does not do.                  *)

\* The exploration of a reconnection ends here because of MaxConns.
BoundReached == nconn = MaxConns /\ \E t \in Thread : AtTop(t, Dial)

\* "Destroys the connection.  This method will also stop the heartbeat
\* thread." (destroy, lines 173-175): once it is called, the thread ends.
DestroyStopsHeartbeat ==
  (\E i \in DOMAIN stack["main"] : stack["main"][i] = Destroying) ~>
    hb \in {"done", "reconnecting"} \/ ~alive \/ BoundReached
=============================================================================
