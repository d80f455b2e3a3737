--------------------------- MODULE GatewayProofs ---------------------------
(* What is proved of Gateway for every value of its constants.             *)
EXTENDS Gateway, SequenceTheorems, TLAPS

----------------------------------------------------------------------------
(* Frames and stacks.                                                      *)

\* Every kind of frame the actions push is a frame.
LEMMA FrameTypes ==
  /\ Dial \in Frame /\ Destroying \in Frame
  /\ \A c \in Conn \cup {NoConn} :
       {Run(c), Closing(c), Disconnected(c), Handing(c)} \subseteq Frame
BY DEF Frame, Dial, Destroying, Run, Closing, Disconnected, Handing

\* Pushing a frame on a stack, and returning from one, give a stack.
LEMMA StackTypes ==
  ASSUME NEW s \in Seq(Frame), NEW f \in Frame, NEW g \in Frame
  PROVE  /\ <<f>> \o s \in Seq(Frame)
         /\ <<f, g>> \o s \in Seq(Frame)
         /\ s # <<>> => Tail(s) \in Seq(Frame)
OBVIOUS

\* The lambda of onDisconnection keeps the types.
LEMMA GoesDownTypes ==
  ASSUME TypeOK, NEW t \in Thread, NEW c \in Conn \cup {NoConn}, NEW code,
         NEW below \in Seq(Frame), GoesDown(t, c, code, below)
  PROVE  /\ stack' \in [Thread -> Seq(Frame)]
         /\ heartbeatOpen' \in BOOLEAN
         /\ session' \in Conn \cup {NoSession} /\ seq' \in Int
<1>1. /\ <<Closing(c)>> \o below \in Seq(Frame)
      /\ <<Dial, Closing(c)>> \o below \in Seq(Frame)
  BY FrameTypes, StackTypes
<1>2. CASE Destroys(code)
  BY <1>1, <1>2 DEF GoesDown, Calls, TypeOK
<1>3. CASE ~Destroys(code)
  <2>1. session' \in Conn \cup {NoSession} /\ seq' \in Int
    BY <1>3 DEF GoesDown, TypeOK
  <2>2. heartbeatOpen' \in BOOLEAN
    BY <1>3 DEF GoesDown, TypeOK
  <2>3. stack' \in [Thread -> Seq(Frame)]
    BY <1>1, <1>3 DEF GoesDown, Calls, TypeOK
  <2> QED BY <2>1, <2>2, <2>3
<1> QED BY <1>2, <1>3

LEMMA OnDisconnectionTypes ==
  ASSUME TypeOK, NEW t \in Thread, NEW c \in Conn \cup {NoConn}, NEW code,
         NEW below \in Seq(Frame), OnDisconnection(t, c, code, below)
  PROVE  /\ stack' \in [Thread -> Seq(Frame)]
         /\ open' \in BOOLEAN /\ heartbeatOpen' \in BOOLEAN
         /\ session' \in Conn \cup {NoSession} /\ seq' \in Int
BY GoesDownTypes DEF OnDisconnection

\* So do disconnect() and reconnect().
LEMMA DisconnectTypes ==
  ASSUME TypeOK, NEW t \in Thread, NEW code, NEW below \in Seq(Frame),
         Disconnect(t, code, below)
  PROVE  /\ stack' \in [Thread -> Seq(Frame)]
         /\ open' \in BOOLEAN /\ heartbeatOpen' \in BOOLEAN
         /\ session' \in Conn \cup {NoSession} /\ seq' \in Int
<1>1. CASE open
  BY <1>1, OnDisconnectionTypes DEF Disconnect, TypeOK
<1>2. CASE ~open
  BY <1>2 DEF Disconnect, Calls, TypeOK
<1> QED BY <1>1, <1>2

LEMMA ReconnectTypes ==
  ASSUME TypeOK, NEW t \in Thread, NEW code, NEW below \in Seq(Frame),
         Reconnect(t, code, below)
  PROVE  /\ stack' \in [Thread -> Seq(Frame)]
         /\ open' \in BOOLEAN /\ heartbeatOpen' \in BOOLEAN
         /\ session' \in Conn \cup {NoSession} /\ seq' \in Int
<1>1. <<Dial>> \o below \in Seq(Frame)
  BY FrameTypes, StackTypes
<1> QED BY <1>1, DisconnectTypes DEF Reconnect

\* The calls below the reconnect() of an opcode.
LEMMA HandingTypes ==
  ASSUME TypeOK, NEW t \in Thread, NEW c \in Conn
  PROVE  <<Handing(c)>> \o stack[t] \in Seq(Frame)
BY FrameTypes, StackTypes DEF TypeOK

\* The phases after identify() are phases, the new seq and session are typed.
LEMMA IdentifyTypes ==
  ASSUME TypeOK, NEW ph \in [Conn -> Phases], Identify(ph)
  PROVE  /\ phase' \in [Conn -> Phases]
         /\ sess' \in [Conn -> Conn \cup {NoSession}]
         /\ pos' \in [Conn -> Int]
         /\ session' \in Conn \cup {NoSession} /\ seq' \in Int
<1>1. [ph EXCEPT ![ws] = "identify"] \in [Conn -> Phases]
  BY DEF Phases
<1>2. phase' \in [Conn -> Phases]
  BY <1>1 DEF Identify
<1>3. session' \in Conn \cup {NoSession} /\ seq' \in Int
  BY DEF Identify
<1>4. sess' \in [Conn -> Conn \cup {NoSession}] /\ pos' \in [Conn -> Int]
  BY DEF Identify, TypeOK
<1> QED BY <1>2, <1>3, <1>4

\* The server's view after resume() is typed too.
LEMMA ResumeTypes ==
  ASSUME TypeOK, NEW ph \in [Conn -> Phases], Resume(ph)
  PROVE  /\ phase' \in [Conn -> Phases]
         /\ sess' \in [Conn -> Conn \cup {NoSession}]
         /\ pos' \in [Conn -> Int]
         /\ session' \in Conn \cup {NoSession} /\ seq' \in Int
<1>1. /\ [ph EXCEPT ![ws] = "resume"] \in [Conn -> Phases]
      /\ [sess EXCEPT ![ws] = session] \in [Conn -> Conn \cup {NoSession}]
      /\ [pos EXCEPT ![ws] = seq] \in [Conn -> Int]
  BY DEF Phases, TypeOK
<1>2. phase' \in [Conn -> Phases]
  BY <1>1 DEF Resume
<1>3. sess' \in [Conn -> Conn \cup {NoSession}] /\ pos' \in [Conn -> Int]
  BY <1>1 DEF Resume, TypeOK
<1>4. session' \in Conn \cup {NoSession} /\ seq' \in Int
  BY DEF Resume, TypeOK
<1> QED BY <1>2, <1>3, <1>4

\* A heartbeat adds at most one to what is due.
LEMMA HeartbeatTypes ==
  ASSUME TypeOK, Heartbeat
  PROVE  due' \in [Conn -> Nat]
<1>1. CASE sock[ws] = "open"
  <2>1. due' = [c \in Conn |-> IF c = ws THEN due[ws] + 1 ELSE due[c]]
    BY <1>1 DEF Heartbeat, TypeOK
  <2> QED BY <2>1 DEF TypeOK
<1>2. CASE sock[ws] # "open"
  BY <1>2 DEF Heartbeat, TypeOK
<1> QED BY <1>1, <1>2

\* Frames of different kinds, or of different connections, differ.
LEMMA FramesDiffer ==
  /\ \A c : Run(c) # Dial /\ Run(c) # Destroying
  /\ \A c, d : /\ Run(c) # Closing(d) /\ Run(c) # Handing(d) /\ Run(c) # Disconnected(d)
                /\ (Run(c) = Run(d) => c = d)
BY DEF Run, Dial, Destroying, Closing, Handing, Disconnected

\* The calls a method that disconnects leaves in progress below uWS's close().
Pushes == {<<>>, <<Dial>>, <<Destroying>>} \cup {<<Dial, Handing(c)>> : c \in Conn}

\* None of them is in hub.run().
LEMMA PushesTypes ==
  ASSUME NEW q \in Pushes
  PROVE  /\ q \in Seq(Frame)
         /\ \A i \in DOMAIN q : \A c : q[i] # Run(c)
         /\ q # <<>> => Head(q) \in {Dial, Destroying}
<1>1. CASE q = <<>>
  BY <1>1
<1>2. CASE q = <<Dial>>
  BY <1>2, FrameTypes, FramesDiffer
<1>3. CASE q = <<Destroying>>
  BY <1>3, FrameTypes, FramesDiffer
<1>4. ASSUME NEW c \in Conn, q = <<Dial, Handing(c)>>
      PROVE  /\ q \in Seq(Frame)
             /\ \A i \in DOMAIN q : \A d : q[i] # Run(d)
             /\ Head(q) = Dial
  BY <1>4, FrameTypes, FramesDiffer
<1> QED BY <1>1, <1>2, <1>3, <1>4 DEF Pushes

LEMMA PushTwo ==
  ASSUME NEW S, NEW s \in Seq(S), NEW f \in S, NEW g \in S
  PROVE  <<f>> \o (<<g>> \o s) = <<f, g>> \o s
<1> DEFINE a == <<f>> \o (<<g>> \o s)
           b == <<f, g>> \o s
<1>1. a \in Seq(S) /\ b \in Seq(S)
  OBVIOUS
<1>2. Len(a) = 2 + Len(s) /\ Len(b) = 2 + Len(s)
  OBVIOUS
<1>3. ASSUME NEW i \in 1..Len(a) PROVE a[i] = b[i]
  <2>1. Len(s) \in Nat /\ i \in 1..(2 + Len(s))
    BY <1>2
  <2>2. CASE i = 1
    BY <2>1, <2>2
  <2>3. CASE i = 2
    BY <2>1, <2>3
  <2>4. CASE i > 2
    BY <2>1, <2>4
  <2> QED BY <2>1, <2>2, <2>3, <2>4
<1> HIDE DEF a, b
<1>4. a = b
  BY <1>1, <1>2, <1>3, SeqEqual
<1> QED BY <1>4 DEF a, b

\* What is left below the top frame.
LEMMA PairAndRest ==
  ASSUME NEW S, NEW s \in Seq(S), NEW f \in S, NEW g \in S
  PROVE  /\ <<f, g>> \in Seq(S) /\ <<f, g>> # <<>> /\ Head(<<f, g>>) = f
         /\ s # <<>> => Tail(s) \in Seq(S)
OBVIOUS

\* The reconnect() of an opcode.
LEMMA OpPushes ==
  ASSUME TypeOK, NEW t \in Thread, NEW c \in Conn,
         Reconnect(t, 1000, <<Handing(c)>> \o stack[t])
  PROVE  \E q \in Pushes : Disconnect(t, 1000, q \o stack[t])
<1> DEFINE s == stack[t]
           h == Handing(c)
           d == Dial
<1>1. s \in Seq(Frame) /\ h \in Frame /\ d \in Frame
  BY FrameTypes DEF TypeOK
<1>2. Disconnect(t, 1000, <<d>> \o (<<h>> \o s))
  BY DEF Reconnect
<1>3. <<d, h>> \in Pushes
  BY DEF Pushes
<1> DEFINE q == <<d, h>>
           below == <<d>> \o (<<h>> \o s)
<1> HIDE DEF s, h, d
<1>4. below = q \o s
  BY <1>1, PushTwo, ZenonT(40)
<1>5. Disconnect(t, 1000, below) /\ q \in Pushes
  BY <1>2, <1>3
<1> HIDE DEF q, below
<1>6. Disconnect(t, 1000, q \o s)
  BY <1>4, <1>5, Zenon
<1>7. Disconnect(t, 1000, q \o stack[t])
  BY <1>6, Zenon DEF s
<1> QED BY <1>5, <1>7, Zenon

\* What the application's handler calls.
LEMMA HandlerPushes ==
  ASSUME TypeOK, NEW t \in Thread, NEW c \in Conn,
         HandlerDestroy(t, c) \/ HandlerDisconnect(t, c) \/ HandlerReconnect(t, c)
  PROVE  \E q \in Pushes : Disconnect(t, 1000, q \o stack[t])
<1> DEFINE none == <<>>
           dial == <<Dial>>
           destroying == <<Destroying>>
<1>1. stack[t] = none \o stack[t]
  BY DEF TypeOK
<1>2. \/ Disconnect(t, 1000, destroying \o stack[t])
      \/ Disconnect(t, 1000, stack[t])
      \/ Disconnect(t, 1000, dial \o stack[t])
  BY DEF HandlerDestroy, HandlerDisconnect, HandlerReconnect, Reconnect
<1>3. none \in Pushes /\ dial \in Pushes /\ destroying \in Pushes
  BY DEF Pushes
<1> HIDE DEF none, dial, destroying
<1>4. Disconnect(t, 1000, stack[t]) => Disconnect(t, 1000, none \o stack[t])
  BY <1>1
<1> QED BY <1>2, <1>3, <1>4
----------------------------------------------------------------------------
(* Type correctness, action by action.                                     *)

\* What a thread does by itself.
LEMMA UnwindsType ==
  ASSUME TypeOK, NEW t \in Thread, Unwinds(t)
  PROVE  TypeOK'
<1>1. CASE Connect(t)
  <2>1. nconn' \in Conn
    BY <1>1, BoundsAssumption DEF Connect, TypeOK, Conn
  <2>2. <<Run(nconn')>> \o Tail(stack[t]) \in Seq(Frame)
    BY <1>1, <2>1, FrameTypes, StackTypes DEF Connect, AtTop, TypeOK
  <2>3. stack' \in [Thread -> Seq(Frame)]
    BY <1>1, <2>2 DEF Connect, Calls, TypeOK
  <2>4. nconn' \in 0..MaxConns /\ sock' \in [Conn -> SocketStates]
    BY <1>1, <2>1 DEF Connect, TypeOK, SocketStates, Conn
  <2> QED BY <1>1, <2>3, <2>4 DEF Connect, TypeOK, connVars, serverVars
<1>2. CASE CloseReturns(t)
  <2>1. PICK c \in Conn : AtTop(t, Closing(c)) /\ sock' = [sock EXCEPT ![c] = "closed"]
                          /\ Returns(t)
    BY <1>2 DEF CloseReturns
  <2>2. stack' \in [Thread -> Seq(Frame)]
    BY <2>1, FrameTypes, StackTypes DEF Returns, Calls, AtTop, TypeOK
  <2>3. sock' \in [Conn -> SocketStates]
    BY <2>1 DEF TypeOK, SocketStates
  <2> QED BY <1>2, <2>2, <2>3 DEF CloseReturns, TypeOK, connVars, serverVars
<1>3. CASE RunReturns(t)
  <2>1. stack' \in [Thread -> Seq(Frame)]
    BY <1>3, FrameTypes, StackTypes DEF RunReturns, Returns, Calls, AtTop, TypeOK
  <2> QED BY <1>3, <2>1 DEF RunReturns, TypeOK, connVars, hubVars, serverVars
<1>4. CASE DestroyReturns(t)
  <2>1. stack' \in [Thread -> Seq(Frame)]
    BY <1>4, FrameTypes, StackTypes DEF DestroyReturns, Returns, Calls, AtTop, TypeOK
  <2> QED BY <1>4, <2>1 DEF DestroyReturns, TypeOK, hubVars, serverVars
<1>5. CASE HandingReturns(t)
  <2>1. stack' \in [Thread -> Seq(Frame)]
    BY <1>5, FrameTypes, StackTypes DEF HandingReturns, Returns, Calls, AtTop, TypeOK
  <2> QED BY <1>5, <2>1 DEF HandingReturns, TypeOK, connVars, hubVars, serverVars
<1> QED BY <1>1, <1>2, <1>3, <1>4, <1>5 DEF Unwinds

\* The end of a connection attempt.
LEMMA UpgradesType ==
  ASSUME TypeOK, NEW t \in Thread, Upgrades(t)
  PROVE  TypeOK'
<1>1. PICK c \in Conn : OnConnection(t, c) \/ OnError(t, c)
  BY DEF Upgrades
<1>2. CASE OnConnection(t, c)
  <2>1. ws' \in Conn \cup {NoConn} /\ open' \in BOOLEAN /\ sock' \in [Conn -> SocketStates]
    BY <1>2 DEF OnConnection, Opens, TypeOK, SocketStates
  <2> QED BY <1>2, <2>1 DEF OnConnection, TypeOK, threadVars, serverVars
<1>3. CASE OnError(t, c)
  <2>1. <<Dial>> \o stack[t] \in Seq(Frame)
    BY FrameTypes, StackTypes DEF TypeOK
  <2>2. stack' \in [Thread -> Seq(Frame)]
    BY <1>3, <2>1 DEF OnError, Retries, Calls, TypeOK
  <2>3. open' \in BOOLEAN /\ sock' \in [Conn -> SocketStates]
    BY <1>3 DEF OnError, TypeOK, SocketStates
  <2> QED BY <1>3, <2>2, <2>3 DEF OnError, TypeOK, serverVars
<1> QED BY <1>1, <1>2, <1>3

\* The server closes a connection, or it drops.
LEMMA ServerClosesType ==
  ASSUME TypeOK, NEW t \in Thread, NEW c \in Conn, NEW code, ServerCloses(t, c, code)
  PROVE  TypeOK'
<1>1. /\ stack' \in [Thread -> Seq(Frame)]
      /\ open' \in BOOLEAN /\ heartbeatOpen' \in BOOLEAN
      /\ session' \in Conn \cup {NoSession} /\ seq' \in Int
  BY OnDisconnectionTypes DEF ServerCloses, TypeOK
<1>2. ended' \subseteq Conn
  BY DEF ServerCloses, TypeOK
<1> QED BY <1>1, <1>2 DEF ServerCloses, TypeOK, hubVars

\* A message, and what the application's handler does with it.
LEMMA MessagesType ==
  ASSUME TypeOK, NEW t \in Thread, NEW c \in Conn, Messages(t, c)
  PROVE  TypeOK'
<1>1. CASE OnHello(t, c)
  <2> DEFINE ph == [phase EXCEPT ![c] = "greeted"]
  <2>1. ph \in [Conn -> Phases]
    BY DEF TypeOK, Phases
  <2>2. Identify(ph) \/ Resume(ph)
    BY <1>1 DEF OnHello
  <2> HIDE DEF ph
  <2>3. /\ phase' \in [Conn -> Phases]
        /\ sess' \in [Conn -> Conn \cup {NoSession}]
        /\ pos' \in [Conn -> Int]
        /\ session' \in Conn \cup {NoSession} /\ seq' \in Int
    BY <2>1, <2>2, IdentifyTypes, ResumeTypes
  <2>4. due' \in [Conn -> Nat]
    BY <1>1, HeartbeatTypes DEF OnHello, TypeOK
  <2>5. hb' \in HeartbeatStates /\ acked' \in BOOLEAN /\ heartbeatStarted' \in BOOLEAN
    BY <1>1 DEF OnHello, TypeOK, HeartbeatStates
  <2> QED BY <1>1, <2>3, <2>4, <2>5 DEF OnHello, TypeOK, hubVars
<1>2. CASE OnReady(t, c)
  <2>1. /\ phase' \in [Conn -> Phases] /\ sess' \in [Conn -> Conn \cup {NoSession}]
        /\ pos' \in [Conn -> Int]
    BY <1>2 DEF OnReady, TypeOK, Phases
  <2>2. seq' \in Int /\ handed' \in [Conn -> Seq(Int)]
    BY <1>2 DEF OnReady, Dispatches, TypeOK
  <2>3. session' \in Conn \cup {NoSession} /\ tries' \in Nat
    BY <1>2 DEF OnReady
  <2>4. UNCHANGED <<stack, hb, alive, ws, open, acked, heartbeatStarted, heartbeatOpen,
                    nconn, sock, due, ended, refused>>
    BY <1>2 DEF OnReady, threadVars, hubVars
  <2> QED BY <2>1, <2>2, <2>3, <2>4 DEF TypeOK
<1>3. CASE OnDispatch(t, c)
  <2>1. phase' \in [Conn -> Phases]
    BY <1>3 DEF OnDispatch, TypeOK, Phases
  <2>2. pos[c] + 1 \in Int
    BY DEF TypeOK
  <2>5. pos' \in [Conn -> Int]
    BY <1>3, <2>2 DEF OnDispatch, TypeOK
  <2>3. seq' \in Int /\ handed' \in [Conn -> Seq(Int)]
    BY <1>3, <2>2 DEF OnDispatch, Dispatches, TypeOK
  <2>4. UNCHANGED <<stack, hb, alive, ws, open, acked, session, tries, heartbeatStarted,
                    heartbeatOpen, nconn, sock, sess, due, ended, refused>>
    BY <1>3 DEF OnDispatch, threadVars, hubVars
  <2> QED BY <2>1, <2>3, <2>4, <2>5 DEF TypeOK
<1>4. CASE OnAck(t, c)
  <2>1. due' \in [Conn -> Nat] /\ acked' \in BOOLEAN
    BY <1>4 DEF OnAck, TypeOK
  <2> QED BY <1>4, <2>1 DEF OnAck, TypeOK, threadVars, hubVars
<1>5. CASE OnReconnectOp(t, c) \/ HandlerReconnect(t, c)
  <2>1. /\ stack' \in [Thread -> Seq(Frame)]
        /\ open' \in BOOLEAN /\ heartbeatOpen' \in BOOLEAN
        /\ session' \in Conn \cup {NoSession} /\ seq' \in Int
    <3> DEFINE s == stack[t]
               h == <<Handing(c)>> \o stack[t]
    <3>1. s \in Seq(Frame) /\ h \in Seq(Frame)
      BY HandingTypes DEF TypeOK
    <3>2. Reconnect(t, 1000, h) \/ Reconnect(t, 1000, s)
      BY <1>5 DEF OnReconnectOp, HandlerReconnect
    <3> HIDE DEF s, h
    <3> QED BY <3>1, <3>2, ReconnectTypes
  <2>2. UNCHANGED <<hb, alive, ws, acked, tries, heartbeatStarted, nconn, sock,
                    phase, sess, pos, due, ended, refused, handed>>
    BY <1>5 DEF OnReconnectOp, HandlerReconnect, hubVars, serverVars
  <2> QED BY <2>1, <2>2 DEF TypeOK
<1>6. CASE OnInvalidSession(t, c)
  <2> DEFINE ph == [phase EXCEPT ![c] = "invalid"]
  <2>1. ph \in [Conn -> Phases]
    BY DEF TypeOK, Phases
  <2>4. refused' \subseteq Conn
    BY <1>6 DEF OnInvalidSession, TypeOK
  <2>2. CASE Resume(ph) /\ UNCHANGED <<stack, open, heartbeatOpen>>
    <3> HIDE DEF ph
    <3>1. /\ phase' \in [Conn -> Phases]
          /\ sess' \in [Conn -> Conn \cup {NoSession}]
          /\ pos' \in [Conn -> Int]
          /\ session' \in Conn \cup {NoSession} /\ seq' \in Int
      BY <2>1, <2>2, ResumeTypes
    <3>2. UNCHANGED <<stack, hb, alive, ws, open, acked, tries, heartbeatStarted,
                      heartbeatOpen, nconn, sock, due, ended, handed>>
      BY <1>6, <2>2 DEF OnInvalidSession, hubVars
    <3> QED BY <2>4, <3>1, <3>2 DEF TypeOK
  <2>3. CASE /\ Reconnect(t, 1000, <<Handing(c)>> \o stack[t])
             /\ phase' = ph /\ UNCHANGED <<sess, pos>>
    <3> HIDE DEF ph
    <3>1. /\ stack' \in [Thread -> Seq(Frame)]
          /\ open' \in BOOLEAN /\ heartbeatOpen' \in BOOLEAN
          /\ session' \in Conn \cup {NoSession} /\ seq' \in Int
      <4> DEFINE h == <<Handing(c)>> \o stack[t]
      <4>1. h \in Seq(Frame) /\ Reconnect(t, 1000, h)
        BY <2>3, HandingTypes
      <4> HIDE DEF h
      <4> QED BY <4>1, ReconnectTypes
    <3>2. UNCHANGED <<hb, alive, ws, acked, tries, heartbeatStarted, nconn, sock,
                      sess, pos, due, ended, handed>>
      BY <1>6, <2>3 DEF OnInvalidSession, hubVars
    <3>3. phase' \in [Conn -> Phases]
      BY <2>1, <2>3
    <3> QED BY <2>4, <3>1, <3>2, <3>3 DEF TypeOK
  <2> QED BY <1>6, <2>2, <2>3 DEF OnInvalidSession
<1>7. CASE OnHeartbeatOp(t, c)
  <2>1. due' \in [Conn -> Nat]
    BY <1>7, HeartbeatTypes DEF OnHeartbeatOp
  <2> QED BY <1>7, <2>1 DEF OnHeartbeatOp, TypeOK, threadVars, connVars, hubVars
<1>8. CASE HandlerDestroy(t, c)
  <2> DEFINE below == <<Destroying>> \o stack[t]
  <2>1. below \in Seq(Frame)
    BY FrameTypes, StackTypes DEF TypeOK
  <2>2. /\ stack' \in [Thread -> Seq(Frame)]
        /\ open' \in BOOLEAN /\ heartbeatOpen' \in BOOLEAN
        /\ session' \in Conn \cup {NoSession} /\ seq' \in Int
    <3>1. Disconnect(t, 1000, below)
      BY <1>8 DEF HandlerDestroy
    <3> HIDE DEF below
    <3> QED BY <2>1, <3>1, DisconnectTypes
  <2>3. UNCHANGED <<hb, alive, ws, acked, tries, heartbeatStarted, nconn, sock,
                    phase, sess, pos, due, ended, refused, handed>>
    BY <1>8 DEF HandlerDestroy, hubVars, serverVars
  <2> QED BY <2>2, <2>3 DEF TypeOK
<1>9. CASE HandlerDisconnect(t, c)
  <2>1. /\ stack' \in [Thread -> Seq(Frame)]
        /\ open' \in BOOLEAN /\ heartbeatOpen' \in BOOLEAN
        /\ session' \in Conn \cup {NoSession} /\ seq' \in Int
    <3>1. stack[t] \in Seq(Frame) /\ Disconnect(t, 1000, stack[t])
      BY <1>9 DEF HandlerDisconnect, TypeOK
    <3> QED BY <3>1, DisconnectTypes
  <2>2. UNCHANGED <<hb, alive, ws, acked, tries, heartbeatStarted, nconn, sock,
                    phase, sess, pos, due, ended, refused, handed>>
    BY <1>9 DEF HandlerDisconnect, hubVars, serverVars
  <2> QED BY <2>1, <2>2 DEF TypeOK
<1> QED BY <1>1, <1>2, <1>3, <1>4, <1>5, <1>6, <1>7, <1>8, <1>9 DEF Messages

\* The heartbeat thread.
LEMMA HeartbeatThreadType ==
  ASSUME TypeOK, HeartbeatThread
  PROVE  TypeOK'
<1>1. CASE HbLoop
  <2>1. hb' \in HeartbeatStates
    BY <1>1 DEF HbLoop, HeartbeatStates
  <2>2. UNCHANGED <<stack, alive, ws, open, acked, session, seq, tries, heartbeatStarted,
                    heartbeatOpen, nconn, sock, phase, sess, pos, due, ended, refused,
                    handed>>
    BY <1>1 DEF HbLoop, connVars, hubVars, serverVars
  <2> QED BY <2>1, <2>2 DEF TypeOK
<1>2. CASE HbWake
  <2>1. hb' \in HeartbeatStates
    BY <1>2 DEF HbWake, HeartbeatStates
  <2>2. UNCHANGED <<stack, alive, ws, open, acked, session, seq, tries, heartbeatStarted,
                    heartbeatOpen, nconn, sock, phase, sess, pos, due, ended, refused,
                    handed>>
    BY <1>2 DEF HbWake, connVars, hubVars, serverVars
  <2> QED BY <2>1, <2>2 DEF TypeOK
<1>3. CASE HbCheck
  <2>1. hb' \in HeartbeatStates
    BY <1>3 DEF HbCheck, HeartbeatStates
  <2>2. UNCHANGED <<stack, alive, ws, open, acked, session, seq, tries, heartbeatStarted,
                    heartbeatOpen, nconn, sock, phase, sess, pos, due, ended, refused,
                    handed>>
    BY <1>3 DEF HbCheck, connVars, hubVars, serverVars
  <2> QED BY <2>1, <2>2 DEF TypeOK
<1>4. CASE HbBeat
  <2>1. due' \in [Conn -> Nat]
    BY <1>4, HeartbeatTypes DEF HbBeat, TypeOK
  <2>2. hb' \in HeartbeatStates /\ acked' \in BOOLEAN
    BY <1>4 DEF HbBeat, TypeOK, HeartbeatStates
  <2> QED BY <1>4, <2>1, <2>2 DEF HbBeat, TypeOK, hubVars
<1>5. CASE HbTerminate
  BY <1>5 DEF HbTerminate, TypeOK, connVars, hubVars, serverVars
<1>6. CASE HbTimesOut
  <2>1. hb' \in HeartbeatStates /\ stack' \in [Thread -> Seq(Frame)]
    <3>1. <<Dial>> \in Seq(Frame)
      BY FrameTypes
    <3> QED BY <1>6, <3>1 DEF HbTimesOut, HeartbeatStates, Calls, TypeOK
  <2>2. UNCHANGED <<alive, ws, open, acked, session, seq, tries, heartbeatStarted,
                    heartbeatOpen, nconn, sock, phase, sess, pos, due, ended, refused,
                    handed>>
    BY <1>6 DEF HbTimesOut, connVars, hubVars, serverVars
  <2> QED BY <2>1, <2>2 DEF TypeOK
<1>7. CASE HbCloses
  <2>1. hb' \in HeartbeatStates /\ open' \in BOOLEAN /\ alive' \in BOOLEAN
    BY <1>7 DEF HbCloses, HeartbeatStates, TypeOK
  <2>2. stack' \in [Thread -> Seq(Frame)]
    <3>1. <<Disconnected(ws), Dial>> \in Seq(Frame) /\ <<Dial>> \in Seq(Frame)
      BY FrameTypes DEF TypeOK
    <3> QED BY <1>7, <3>1 DEF HbCloses, Calls, TypeOK
  <2>3. UNCHANGED <<ws, acked, session, seq, tries, heartbeatStarted, heartbeatOpen,
                    nconn, sock, phase, sess, pos, due, ended, refused, handed>>
    BY <1>7 DEF HbCloses, hubVars, serverVars
  <2> QED BY <2>1, <2>2, <2>3 DEF TypeOK
<1>8. CASE HbForgets
  <2>1. PICK c \in Conn : /\ AtTop("beat", Disconnected(c))
                          /\ GoesDown("beat", c, 4009, Tail(stack["beat"]))
    BY <1>8 DEF HbForgets
  <2>2. "beat" \in Thread /\ Tail(stack["beat"]) \in Seq(Frame)
    BY <2>1, FrameTypes, StackTypes DEF Thread, AtTop, TypeOK
  <2>3. /\ stack' \in [Thread -> Seq(Frame)]
        /\ heartbeatOpen' \in BOOLEAN
        /\ session' \in Conn \cup {NoSession} /\ seq' \in Int
    <3> DEFINE below == Tail(stack["beat"])
    <3>1. below \in Seq(Frame) /\ GoesDown("beat", c, 4009, below)
      BY <2>1, <2>2
    <3> HIDE DEF below
    <3> QED BY <2>2, <3>1, GoesDownTypes
  <2>4. UNCHANGED <<hb, alive, ws, open, acked, tries, heartbeatStarted, nconn, sock,
                    phase, sess, pos, due, ended, refused, handed>>
    BY <1>8 DEF HbForgets, hubVars, serverVars
  <2> QED BY <2>3, <2>4 DEF TypeOK
<1> QED BY <1>1, <1>2, <1>3, <1>4, <1>5, <1>6, <1>7, <1>8 DEF HeartbeatThread, TimesOut

\* The initial state is typed.
LEMMA InitType == Init => TypeOK
<1> SUFFICES ASSUME Init PROVE TypeOK
  OBVIOUS
<1>1. stack \in [Thread -> Seq(Frame)]
  BY FrameTypes DEF Init
<1>2. nconn \in 0..MaxConns
  BY BoundsAssumption DEF Init
<1>3. /\ hb \in HeartbeatStates /\ sock \in [Conn -> SocketStates]
      /\ phase \in [Conn -> Phases]
  BY DEF Init, HeartbeatStates, SocketStates, Phases
<1>4. /\ ws \in Conn \cup {NoConn} /\ session \in Conn \cup {NoSession}
      /\ sess \in [Conn -> Conn \cup {NoSession}]
  BY DEF Init
<1>5. /\ pos \in [Conn -> Int] /\ due \in [Conn -> Nat]
      /\ handed \in [Conn -> Seq(Int)]
  BY DEF Init
<1>6. seq \in Int /\ tries \in Nat
  BY DEF Init
<1> QED BY <1>1, <1>2, <1>3, <1>4, <1>5, <1>6 DEF Init, TypeOK

\* The variables of a Connection, of its hubs, of its threads and of the server
\* keep their types over every behaviour, for every bound and configuration.
THEOREM TypeCorrect == Spec => []TypeOK
<1>1. TypeOK /\ [Next]_vars => TypeOK'
  <2> SUFFICES ASSUME TypeOK, [Next]_vars PROVE TypeOK'
    OBVIOUS
  <2>1. CASE UNCHANGED vars
    BY <2>1 DEF vars, threadVars, connVars, hubVars, serverVars, TypeOK
  <2>2. CASE Next
    BY <2>2, UnwindsType, UpgradesType, MessagesType, ServerClosesType,
       HeartbeatThreadType DEF Next
  <2> QED BY <2>1, <2>2
<1> QED BY InitType, <1>1, PTL DEF Spec
----------------------------------------------------------------------------
(* Heartbeats: UnackedIsOutstanding.  It is not inductive by itself: it     *)
(* needs that the socket a heartbeat goes to is open when the flag says so, *)
(* and that a socket that has just been opened waits for its HELLO.         *)

\* Only the timeout puts calls on the heartbeat thread.
OneThread == ~TimedOut => stack["beat"] = <<>>

\* The heartbeat thread is started once.
StartedOnce == hb # "none" => heartbeatStarted

\* Half of OpenFlagHonest, the half that is inductive without the shape of
\* the stack below its top.
OpenReceives == ~TimedOut /\ open => ws # NoConn /\ Receiving("main", ws)

\* The server's handshake begins when the socket is open.
FreshIsNew ==
  /\ \A c \in Conn : c > nconn => sock[c] # "open" /\ phase[c] = "new"
  /\ \A c \in Conn : sock[c] = "connecting" => c <= nconn /\ phase[c] = "new"

HeartbeatInv ==
  TypeOK /\ OneThread /\ StartedOnce /\ OpenReceives /\ FreshIsNew /\ UnackedIsOutstanding

\* While no heartbeat has timed out, the thread with calls in progress is main.
LEMMA OnlyMain ==
  ASSUME OneThread, ~TimedOut, NEW t \in Thread, stack[t] # <<>>
  PROVE  t = "main"
BY DEF OneThread, Thread

\* disconnect() leaves the flag FALSE, and touches no other thread.
LEMMA DisconnectGoesDown ==
  ASSUME TypeOK, NEW t \in Thread, NEW code, NEW below, Disconnect(t, code, below)
  PROVE  open' = FALSE /\ \A u \in Thread \ {t} : stack'[u] = stack[u]
BY DEF Disconnect, OnDisconnection, GoesDown, Calls, TypeOK

\* A step that leaves the flag FALSE, the sockets and the heartbeat thread
\* alone and only touches the stack of main keeps what is said of the flag.
LEMMA DownKeepsHeartbeatInv ==
  ASSUME HeartbeatInv, TypeOK', open' = FALSE, FreshIsNew',
         UNCHANGED <<hb, heartbeatStarted>>, ~TimedOut => stack'["beat"] = stack["beat"]
  PROVE  HeartbeatInv'
BY DEF HeartbeatInv, OneThread, StartedOnce, OpenReceives, UnackedIsOutstanding, TimedOut

\* reconnect(), disconnect() and destroy() from a handler keep the invariant.
LEMMA HandlerDisconnects ==
  ASSUME HeartbeatInv, TypeOK', NEW t \in Thread, stack[t] # <<>>,
         NEW code, NEW below, Disconnect(t, code, below),
         UNCHANGED <<hb, heartbeatStarted, nconn, sock>>,
         \A d \in Conn : sock[d] # "open" => phase'[d] = phase[d]
  PROVE  HeartbeatInv'
<1>1. open' = FALSE /\ \A u \in Thread \ {t} : stack'[u] = stack[u]
  BY DisconnectGoesDown DEF HeartbeatInv
<1>2. ~TimedOut => stack'["beat"] = stack["beat"]
  BY <1>1, OnlyMain DEF HeartbeatInv, Thread
<1>3. FreshIsNew'
  BY DEF HeartbeatInv, FreshIsNew
<1> QED BY <1>1, <1>2, <1>3, DownKeepsHeartbeatInv

\* What a thread does by itself keeps the invariant: the flag is FALSE then.
LEMMA UnwindsHeartbeatInv ==
  ASSUME HeartbeatInv, TypeOK', NEW t \in Thread, Unwinds(t)
  PROVE  HeartbeatInv'
<1> USE DEF HeartbeatInv
<1>1. UNCHANGED <<hb, heartbeatStarted, open, acked, ws, phase, due>>
  BY DEF Unwinds, Connect, CloseReturns, RunReturns, DestroyReturns, HandingReturns,
         connVars, serverVars
<1>2. stack[t] # <<>> /\ \A u \in Thread \ {t} : stack'[u] = stack[u]
  BY DEF Unwinds, Connect, CloseReturns, RunReturns, DestroyReturns, HandingReturns,
         AtTop, Returns, Calls, TypeOK
<1>3. ~TimedOut => stack'["beat"] = stack["beat"] /\ t = "main"
  BY <1>2, OnlyMain DEF Thread
<1>4. ~TimedOut => ~open
  <2> SUFFICES ASSUME ~TimedOut, open PROVE FALSE
    OBVIOUS
  <2>1. Head(stack["main"]) = Run(ws) /\ sock[ws] = "open" /\ t = "main"
    BY <1>3 DEF OpenReceives, Receiving, AtTop
  <2> QED BY <2>1, FramesDiffer
          DEF Unwinds, Connect, CloseReturns, RunReturns, DestroyReturns, HandingReturns, AtTop
<1>5. FreshIsNew'
  <2>1. CASE Connect(t)
    BY <1>1, <2>1 DEF Connect, FreshIsNew, TypeOK, Conn
  <2>2. CASE CloseReturns(t)
    BY <1>1, <2>2 DEF CloseReturns, FreshIsNew, TypeOK, Closing
  <2>3. CASE RunReturns(t) \/ DestroyReturns(t) \/ HandingReturns(t)
    BY <1>1, <2>3 DEF RunReturns, DestroyReturns, HandingReturns, FreshIsNew, hubVars
  <2> QED BY <2>1, <2>2, <2>3 DEF Unwinds
<1>6. ~TimedOut' => ~open'
  BY <1>1, <1>4 DEF TimedOut
<1> QED BY <1>1, <1>3, <1>5, <1>6
        DEF OneThread, StartedOnce, OpenReceives, UnackedIsOutstanding, TimedOut

\* A connection attempt that ends keeps it: the new socket waits for its HELLO.
LEMMA UpgradesHeartbeatInv ==
  ASSUME HeartbeatInv, TypeOK', NEW t \in Thread, Upgrades(t)
  PROVE  HeartbeatInv'
<1> USE DEF HeartbeatInv
<1>1. PICK c \in Conn : OnConnection(t, c) \/ OnError(t, c)
  BY DEF Upgrades
<1>2. AtTop(t, Run(c)) /\ sock[c] = "connecting" /\ c <= nconn
  BY <1>1 DEF OnConnection, OnError, FreshIsNew, TypeOK, Conn
<1>3. phase[c] = "new"
  BY <1>2 DEF FreshIsNew
<1>4. ~TimedOut => t = "main"
  BY <1>2, OnlyMain DEF AtTop
<1>5. CASE OnConnection(t, c)
  <2>1. UNCHANGED <<stack, hb, heartbeatStarted, phase, nconn>>
    BY <1>5 DEF OnConnection, threadVars, serverVars
  <2>2. ws' = c /\ sock' = [sock EXCEPT ![c] = "open"]
    BY <1>5 DEF OnConnection, Opens
  <2>3. FreshIsNew'
    <3>1. \A d \in Conn \ {c} : sock'[d] = sock[d] /\ phase'[d] = phase[d]
      BY <2>1, <2>2 DEF TypeOK
    <3>2. sock'[c] = "open" /\ ~(c > nconn)
      BY <1>2, <2>2 DEF TypeOK, Conn
    <3> QED BY <2>1, <3>1, <3>2 DEF FreshIsNew
  <2>4. OneThread' /\ StartedOnce'
    BY <2>1 DEF OneThread, StartedOnce, TimedOut
  <2>5. OpenReceives'
    BY <1>2, <1>4, <2>1, <2>2 DEF OpenReceives, Receiving, AtTop, TimedOut, TypeOK, Conn, NoConn
  <2>6. UnackedIsOutstanding'
    BY <1>3, <2>1, <2>2 DEF UnackedIsOutstanding
  <2> QED BY <2>3, <2>4, <2>5, <2>6
<1>6. CASE OnError(t, c)
  <2>1. UNCHANGED <<hb, heartbeatStarted, phase, nconn>> /\ open' = FALSE
        /\ sock' = [sock EXCEPT ![c] = "failed"]
    BY <1>6 DEF OnError, serverVars
  <2>2. \A u \in Thread \ {t} : stack'[u] = stack[u]
    BY <1>6 DEF OnError, Retries, Calls, TypeOK
  <2>3. ~TimedOut => stack'["beat"] = stack["beat"]
    BY <1>4, <2>2 DEF Thread
  <2>4. FreshIsNew'
    BY <1>2, <2>1 DEF FreshIsNew, TypeOK, Conn
  <2> QED BY <2>1, <2>3, <2>4, DownKeepsHeartbeatInv
<1> QED BY <1>1, <1>5, <1>6
\* identify() and resume() change the phase of an open socket only, and the
\* phase they leave is not "new".
LEMMA SendPhases ==
  ASSUME NEW ph \in [Conn -> Phases], Identify(ph) \/ Resume(ph), NEW d \in Conn
  PROVE  /\ sock[d] # "open" => phase'[d] = ph[d]
         /\ phase'[d] = "new" => ph[d] = "new"
BY DEF Identify, Resume, Listens

\* A message that leaves the stack and the flag alone keeps the invariant if
\* it keeps the last two parts.
LEMMA QuietStep ==
  ASSUME HeartbeatInv, TypeOK', UNCHANGED <<stack, open, ws, sock, nconn>>,
         hb' = hb \/ (hb' # "none" /\ ~TimedOut') , StartedOnce',
         TimedOut <=> TimedOut',
         \A d \in Conn : sock[d] # "open" => phase'[d] = phase[d],
         UnackedIsOutstanding'
  PROVE  HeartbeatInv'
<1>1. FreshIsNew'
  BY DEF HeartbeatInv, FreshIsNew
<1>2. OneThread' /\ OpenReceives'
  BY DEF HeartbeatInv, OneThread, OpenReceives, Receiving, AtTop
<1> QED BY <1>1, <1>2 DEF HeartbeatInv

\* A message of the server, and what the application does in its handler.
LEMMA MessagesHeartbeatInv ==
  ASSUME HeartbeatInv, TypeOK', NEW t \in Thread, NEW c \in Conn, Messages(t, c)
  PROVE  HeartbeatInv'
<1> USE DEF HeartbeatInv
<1>1. CASE OnHello(t, c)
  <2> DEFINE ph == [phase EXCEPT ![c] = "greeted"]
  <2>1. ph \in [Conn -> Phases] /\ sock[c] = "open"
    BY <1>1 DEF OnHello, Receiving, TypeOK, Phases
  <2>2. Identify(ph) \/ Resume(ph)
    BY <1>1 DEF OnHello
  <2>3. \A d \in Conn \ {c} : ph[d] = phase[d]
    BY DEF TypeOK
  <2> HIDE DEF ph
  <2>4. \A d \in Conn : sock[d] # "open" => phase'[d] = phase[d]
    BY <2>1, <2>2, <2>3, SendPhases
  <2>5. /\ UNCHANGED <<stack, open, ws, sock, nconn>> /\ acked' = TRUE
        /\ heartbeatStarted' = TRUE
        /\ hb' = hb \/ (~heartbeatStarted /\ hb' = "loop")
    BY <1>1 DEF OnHello, hubVars
  <2>6. TimedOut <=> TimedOut'
    BY <2>5 DEF TimedOut, StartedOnce
  <2>7. StartedOnce' /\ UnackedIsOutstanding' /\ (hb' = hb \/ (hb' # "none" /\ ~TimedOut'))
    BY <2>5 DEF StartedOnce, UnackedIsOutstanding, TimedOut
  <2> QED BY <2>4, <2>5, <2>6, <2>7, QuietStep
<1>2. CASE OnReady(t, c) \/ OnDispatch(t, c)
  <2>1. /\ UNCHANGED <<stack, hb, open, acked, ws, sock, nconn, heartbeatStarted, due>>
        /\ phase' = [phase EXCEPT ![c] = "ready"]
    BY <1>2 DEF OnReady, OnDispatch, threadVars, hubVars
  <2>2. sock[c] = "open" /\ phase[c] # "new"
    BY <1>2 DEF OnReady, OnDispatch, Receiving
  <2>3. UnackedIsOutstanding'
    BY <2>1, <2>2 DEF UnackedIsOutstanding, TimedOut, TypeOK
  <2>4. \A d \in Conn : sock[d] # "open" => phase'[d] = phase[d]
    BY <2>1, <2>2 DEF TypeOK
  <2>5. StartedOnce' /\ (TimedOut <=> TimedOut')
    BY <2>1 DEF StartedOnce, TimedOut
  <2> QED BY <2>1, <2>3, <2>4, <2>5, QuietStep
<1>3. CASE OnAck(t, c)
  <2>1. /\ UNCHANGED <<stack, hb, open, ws, sock, nconn, heartbeatStarted, phase>>
        /\ acked' = TRUE
    BY <1>3 DEF OnAck, threadVars, hubVars
  <2>2. StartedOnce' /\ (TimedOut <=> TimedOut') /\ UnackedIsOutstanding'
    BY <2>1 DEF StartedOnce, TimedOut, UnackedIsOutstanding
  <2> QED BY <2>1, <2>2, QuietStep
<1>4. CASE OnHeartbeatOp(t, c)
  <2>1. /\ UNCHANGED <<stack, hb, open, acked, ws, sock, nconn, heartbeatStarted, phase>>
        /\ Heartbeat
    BY <1>4 DEF OnHeartbeatOp, threadVars, connVars, hubVars
  <2>2. ws \in Conn => due'[ws] >= due[ws]
    BY <2>1 DEF Heartbeat, TypeOK
  <2>3. StartedOnce' /\ (TimedOut <=> TimedOut')
    BY <2>1 DEF StartedOnce, TimedOut
  <2>4. UnackedIsOutstanding'
    <3> SUFFICES ASSUME ~TimedOut, ~acked, open, phase[ws] # "new"
                 PROVE  due'[ws] > 0 \/ hb = "send"
      BY <2>1 DEF UnackedIsOutstanding, TimedOut
    <3>1. ws \in Conn /\ (due[ws] > 0 \/ hb = "send")
      BY DEF UnackedIsOutstanding, OpenReceives, TypeOK
    <3>2. due[ws] \in Nat /\ due'[ws] \in Nat
      BY <2>1, <3>1 DEF TypeOK
    <3> QED BY <2>2, <3>1, <3>2
  <2> QED BY <2>1, <2>3, <2>4, QuietStep
<1>5. CASE OnReconnectOp(t, c)
  <2>1. stack[t] # <<>> /\ UNCHANGED <<hb, heartbeatStarted, nconn, sock, phase>>
    BY <1>5 DEF OnReconnectOp, Receiving, AtTop, hubVars, serverVars
  <2>2. \E below : Disconnect(t, 1000, below)
    BY <1>5 DEF OnReconnectOp, Reconnect
  <2> QED BY <2>1, <2>2, HandlerDisconnects
<1>6. CASE OnInvalidSession(t, c)
  <2> DEFINE ph == [phase EXCEPT ![c] = "invalid"]
  <2>1. /\ ph \in [Conn -> Phases] /\ Receiving(t, c) /\ phase[c] # "new"
        /\ \A d \in Conn \ {c} : ph[d] = phase[d]
        /\ UNCHANGED <<hb, heartbeatStarted, nconn, sock, acked, ws, due>>
    <3>1. ph \in [Conn -> Phases] /\ \A d \in Conn \ {c} : ph[d] = phase[d]
      BY DEF TypeOK, Phases
    <3>2. Receiving(t, c) /\ phase[c] # "new"
      BY <1>6 DEF OnInvalidSession
    <3>3. UNCHANGED <<hb, heartbeatStarted, nconn, sock, acked, ws, due>>
      BY <1>6 DEF OnInvalidSession, hubVars
    <3> QED BY <3>1, <3>2, <3>3
  <2>2. CASE Resume(ph) /\ UNCHANGED <<stack, open, heartbeatOpen>>
    <3>1. ph[c] # "new"
      BY DEF TypeOK
    <3> HIDE DEF ph
    <3>2. \A d \in Conn : sock[d] # "open" => phase'[d] = phase[d]
      BY <2>1, <2>2, SendPhases DEF Receiving
    <3>3. \A d \in Conn : phase'[d] = "new" => phase[d] = "new"
      BY <2>1, <2>2, SendPhases, <3>1
    <3>4. UnackedIsOutstanding'
      <4> SUFFICES ASSUME ~TimedOut, ~acked, open, phase'[ws] # "new"
                   PROVE  due[ws] > 0 \/ hb = "send"
        BY <2>1, <2>2 DEF UnackedIsOutstanding, TimedOut
      <4>1. ws \in Conn
        BY DEF OpenReceives, TypeOK
      <4>2. phase[ws] # "new"
        BY <2>1, <2>2, <3>1, <4>1 DEF Resume, Listens, ph
      <4> QED BY <4>2 DEF UnackedIsOutstanding
    <3>5. StartedOnce' /\ (TimedOut <=> TimedOut')
      BY <2>1 DEF StartedOnce, TimedOut
    <3> QED BY <2>1, <2>2, <3>2, <3>4, <3>5, QuietStep
  <2>3. CASE /\ Reconnect(t, 1000, <<Handing(c)>> \o stack[t])
             /\ phase' = ph /\ UNCHANGED <<sess, pos>>
    <3>1. \A d \in Conn : sock[d] # "open" => phase'[d] = phase[d]
      BY <2>1, <2>3 DEF Receiving
    <3>2. \E below : Disconnect(t, 1000, below)
      BY <2>3 DEF Reconnect
    <3> HIDE DEF ph
    <3> QED BY <2>1, <3>1, <3>2, HandlerDisconnects DEF Receiving, AtTop
  <2> QED BY <1>6, <2>2, <2>3 DEF OnInvalidSession
<1>7. CASE HandlerDestroy(t, c) \/ HandlerDisconnect(t, c) \/ HandlerReconnect(t, c)
  <2>1. stack[t] # <<>> /\ UNCHANGED <<hb, heartbeatStarted, nconn, sock, phase>>
    BY <1>7 DEF HandlerDestroy, HandlerDisconnect, HandlerReconnect, Handles, Receiving,
                AtTop, hubVars, serverVars
  <2>2. \E below : Disconnect(t, 1000, below)
    BY <1>7, HandlerPushes
  <2> QED BY <2>1, <2>2, HandlerDisconnects
<1> QED BY <1>1, <1>2, <1>3, <1>4, <1>5, <1>6, <1>7 DEF Messages

\* A closed or dropped connection keeps it: the flag is FALSE again.
LEMMA ServerClosesHeartbeatInv ==
  ASSUME HeartbeatInv, TypeOK', NEW t \in Thread, NEW c \in Conn, NEW code,
         ServerCloses(t, c, code)
  PROVE  HeartbeatInv'
<1>1. /\ Receiving(t, c) /\ OnDisconnection(t, c, code, stack[t])
      /\ UNCHANGED <<hb, heartbeatStarted, nconn, sock, phase>>
  BY DEF ServerCloses, hubVars
<1>2. open' = FALSE /\ \A u \in Thread \ {t} : stack'[u] = stack[u]
  BY <1>1 DEF OnDisconnection, GoesDown, Calls, HeartbeatInv, TypeOK
<1>3. ~TimedOut => stack'["beat"] = stack["beat"]
  BY <1>1, <1>2, OnlyMain DEF HeartbeatInv, Receiving, AtTop, Thread
<1>4. FreshIsNew'
  BY <1>1 DEF HeartbeatInv, FreshIsNew
<1> QED BY <1>1, <1>2, <1>3, <1>4, DownKeepsHeartbeatInv

\* The heartbeat thread marks before it sends, so it keeps it as well.
LEMMA HeartbeatThreadHeartbeatInv ==
  ASSUME HeartbeatInv, TypeOK', HeartbeatThread
  PROVE  HeartbeatInv'
<1> USE DEF HeartbeatInv
<1>1. UNCHANGED <<heartbeatStarted, ws, nconn, sock, phase>> /\ FreshIsNew'
  BY DEF HeartbeatThread, HbLoop, HbWake, HbCheck, HbBeat, TimesOut,
              HbTimesOut, HbCloses, HbForgets, HbTerminate, connVars,
         hubVars, serverVars, FreshIsNew
<1>2. StartedOnce' /\ (TimedOut => TimedOut')
  BY <1>1 DEF HeartbeatThread, HbLoop, HbWake, HbCheck, HbBeat, TimesOut,
              HbTimesOut, HbCloses, HbForgets, HbTerminate,
              StartedOnce, TimedOut
<1>3. CASE TimedOut'
  BY <1>1, <1>2, <1>3 DEF OneThread, OpenReceives, UnackedIsOutstanding
<1>4. CASE ~TimedOut'
  <2>1. UNCHANGED <<stack, open>> /\ ~TimedOut
    BY <1>2, <1>4 DEF HeartbeatThread, HbLoop, HbWake, HbCheck, HbBeat, TimesOut,
              HbTimesOut, HbCloses, HbForgets, HbTerminate,
                      TimedOut, connVars
  <2>2. OneThread' /\ OpenReceives'
    BY <1>1, <2>1 DEF OneThread, OpenReceives, Receiving, AtTop
  <2>3. CASE HbBeat /\ hb = "mark"
    BY <1>1, <1>2, <2>2, <2>3 DEF HbBeat, UnackedIsOutstanding
  <2>4. CASE HbBeat /\ hb = "send"
    <3>1. open => ws \in Conn /\ sock[ws] = "open"
      BY <2>1 DEF OpenReceives, Receiving, TypeOK
    <3>2. open => due'[ws] = due[ws] + 1 /\ due[ws] \in Nat
      BY <2>4, <3>1 DEF HbBeat, Heartbeat, TypeOK
    <3>3. UnackedIsOutstanding'
      BY <1>1, <2>1, <3>2 DEF UnackedIsOutstanding
    <3> QED BY <1>1, <1>2, <2>2, <3>3
  <2>5. CASE ~HbBeat
    <3>1. UNCHANGED <<acked, due>> /\ hb # "send"
      BY <2>5 DEF HeartbeatThread, HbLoop, HbWake, HbCheck, TimesOut,
              HbTimesOut, HbCloses, HbForgets, HbTerminate, connVars,
                  serverVars
    <3>2. UnackedIsOutstanding'
      BY <1>1, <2>1, <3>1 DEF UnackedIsOutstanding
    <3> QED BY <1>1, <1>2, <2>2, <3>2
  <2> QED BY <2>3, <2>4, <2>5 DEF HbBeat
<1> QED BY <1>3, <1>4

\* All of it holds throughout.
LEMMA HeartbeatInvariant == Spec => []HeartbeatInv
<1>1. Init => HeartbeatInv
  <2>1. Init => TypeOK
    BY InitType
  <2>2. Init => OneThread /\ StartedOnce /\ FreshIsNew
    BY DEF Init, OneThread, StartedOnce, FreshIsNew, Thread
  <2>3. Init => OpenReceives /\ UnackedIsOutstanding
    BY DEF Init, OpenReceives, UnackedIsOutstanding
  <2> QED BY <2>1, <2>2, <2>3 DEF HeartbeatInv
<1>2. HeartbeatInv /\ TypeOK' /\ [Next]_vars => HeartbeatInv'
  <2> SUFFICES ASSUME HeartbeatInv, TypeOK', [Next]_vars PROVE HeartbeatInv'
    OBVIOUS
  <2>1. CASE UNCHANGED vars
    BY <2>1 DEF vars, threadVars, connVars, hubVars, serverVars, HeartbeatInv, OneThread,
                StartedOnce, OpenReceives, FreshIsNew, UnackedIsOutstanding, TimedOut,
                Receiving, AtTop
  <2>2. CASE Next
    BY <2>2, UnwindsHeartbeatInv, UpgradesHeartbeatInv, MessagesHeartbeatInv,
       ServerClosesHeartbeatInv, HeartbeatThreadHeartbeatInv DEF Next
  <2> QED BY <2>1, <2>2
<1> QED BY <1>1, <1>2, TypeCorrect, PTL DEF Spec

\* When the heartbeat thread finds acked = FALSE on a connection past its HELLO,
\* the server holds a heartbeat of it that is not acknowledged, whatever the
\* handlers did between two of the thread's reads and writes: so the timeout of
\* gateway.cc:173 means what it says.
THEOREM UnackedCorrect == Spec => []UnackedIsOutstanding
<1>1. HeartbeatInv => UnackedIsOutstanding
  BY DEF HeartbeatInv
<1> QED BY <1>1, HeartbeatInvariant, PTL
----------------------------------------------------------------------------
(* The flag: OpenFlagHonest.  Its other half needs the shape of the stack:   *)
(* an outer hub.run() whose socket uWS still calls open lies below the       *)
(* close() of that socket, so unwinding never comes back to it receiving.    *)

\* In stack s, with the sockets as in sk and n calls of connect().
BuriedIn(s, sk, n) ==
  \A i \in DOMAIN s, c \in Conn :
    i # 1 /\ s[i] = Run(c) =>
      /\ c <= n /\ sk[c] # "connecting"
      /\ sk[c] = "open" => \E j \in 1..(i - 1) : s[j] = Closing(c)

Buried == ~TimedOut => BuriedIn(stack["main"], sock, nconn)

\* What receives is what the object sends on.
ReceivesOpen == ~TimedOut => \A c \in Conn : Receiving("main", c) => open /\ ws = c

\* Stack r is s with k calls on top of it, none but the topmost in hub.run(),
\* and one of them the close() of the socket that s was receiving on.
LEMMA PushBuried ==
  ASSUME NEW s \in Seq(Frame), NEW r \in Seq(Frame), NEW k \in Nat \ {0}, NEW sk, NEW n,
         BuriedIn(s, sk, n),
         Len(r) = Len(s) + k, \A i \in 1..Len(s) : r[i + k] = s[i],
         \A i \in 2..k, c \in Conn : r[i] # Run(c),
         \A c \in Conn : s # <<>> /\ Head(s) = Run(c) =>
           /\ c <= n /\ sk[c] # "connecting"
           /\ sk[c] = "open" => \E j \in 1..k : r[j] = Closing(c)
  PROVE  BuriedIn(r, sk, n)
<1> SUFFICES ASSUME NEW i \in 1..Len(r), NEW c \in Conn, i # 1, r[i] = Run(c)
             PROVE  /\ c <= n /\ sk[c] # "connecting"
                    /\ sk[c] = "open" => \E j \in 1..(i - 1) : r[j] = Closing(c)
  BY DEF BuriedIn
<1>1. i > k /\ i - k \in 1..Len(s) /\ s[i - k] = Run(c)
  <2>1. i > k
    OBVIOUS
  <2>2. i - k \in 1..Len(s) /\ (i - k) + k = i
    BY <2>1
  <2> QED BY <2>1, <2>2
<1>2. CASE i - k = 1
  <2>1. s # <<>> /\ Head(s) = Run(c)
    BY <1>1, <1>2
  <2>2. \A j \in 1..k : j \in 1..(i - 1)
    BY <1>2
  <2> QED BY <2>1, <2>2
<1>3. CASE i - k # 1
  <2>1. /\ c <= n /\ sk[c] # "connecting"
        /\ sk[c] = "open" => \E j \in 1..(i - k - 1) : s[j] = Closing(c)
    BY <1>1, <1>3 DEF BuriedIn
  <2>2. \A j \in 1..(i - k - 1) : j \in 1..Len(s) /\ j + k \in 1..(i - 1) /\ r[j + k] = s[j]
    BY <1>1
  <2> QED BY <2>1, <2>2
<1> QED BY <1>2, <1>3

\* A call returns: what it returns to is not receiving, if only the return of
\* close() changes a socket, and only its own.
LEMMA ReturnBuried ==
  ASSUME NEW s \in Seq(Frame), s # <<>>, NEW sk, NEW sk2, NEW n, BuriedIn(s, sk, n),
         \A c \in Conn : sk2[c] = IF Head(s) = Closing(c) THEN "closed" ELSE sk[c]
  PROVE  /\ BuriedIn(Tail(s), sk2, n)
         /\ \A c \in Conn : Tail(s) # <<>> /\ Head(Tail(s)) = Run(c) => sk2[c] # "open"
<1> DEFINE r == Tail(s)
<1>1. r \in Seq(Frame) /\ Len(r) = Len(s) - 1 /\ \A i \in 1..Len(r) : r[i] = s[i + 1]
  OBVIOUS
<1>2. Head(s) = s[1]
  OBVIOUS
<1> HIDE DEF r
<1>3. ASSUME NEW i \in 1..Len(r), NEW c \in Conn, r[i] = Run(c)
      PROVE  /\ c <= n /\ sk2[c] # "connecting"
             /\ sk2[c] = "open" => \E j \in 1..(i - 1) : r[j] = Closing(c)
  <2>1. i + 1 \in 1..Len(s) /\ i + 1 # 1 /\ s[i + 1] = Run(c)
    BY <1>1, <1>3
  <2>2. /\ c <= n /\ sk[c] # "connecting"
        /\ sk[c] = "open" => \E j \in 1..i : s[j] = Closing(c)
    BY <2>1 DEF BuriedIn
  <2>3. ASSUME sk2[c] = "open" PROVE \E j \in 1..(i - 1) : r[j] = Closing(c)
    <3>1. sk[c] = "open" /\ s[1] # Closing(c)
      BY <1>2, <2>3
    <3>2. PICK j \in 1..i : s[j] = Closing(c)
      BY <2>2, <3>1
    <3>3. j # 1 /\ j - 1 \in 1..(i - 1) /\ j - 1 \in 1..Len(r) /\ r[j - 1] = s[j]
      BY <1>1, <3>1, <3>2
    <3> QED BY <3>2, <3>3
  <2> QED BY <2>2, <2>3
<1>4. BuriedIn(r, sk2, n)
  BY <1>1, <1>3 DEF BuriedIn
<1>5. ASSUME NEW c \in Conn, r # <<>>, Head(r) = Run(c) PROVE sk2[c] # "open"
  <2>1. 1 \in 1..Len(r) /\ r[1] = Run(c)
    BY <1>1, <1>5
  <2>2. sk2[c] = "open" => \E j \in 1..0 : r[j] = Closing(c)
    BY <1>3, <2>1
  <2> QED BY <2>2
<1> QED BY <1>4, <1>5 DEF r

FlagInv == Buried /\ ReceivesOpen

\* Calls put on top of a hub that was receiving, with the close() of its socket
\* among them, none of them in hub.run().
LEMMA CallsBury ==
  ASSUME NEW s \in Seq(Frame), NEW p \in Seq(Frame), NEW c \in Conn, NEW sk, NEW n,
         BuriedIn(s, sk, n), s # <<>>, Head(s) = Run(c), sk[c] = "open", c <= n,
         \A j \in DOMAIN p : \A d : p[j] # Run(d),
         \E j \in DOMAIN p : p[j] = Closing(c)
  PROVE  /\ BuriedIn(p \o s, sk, n)
         /\ p \o s # <<>> /\ \A d \in Conn : Head(p \o s) # Run(d)
<1> DEFINE r == p \o s
           k == Len(p)
<1>1. /\ r \in Seq(Frame) /\ Len(r) = Len(s) + k /\ k \in Nat \ {0}
      /\ \A i \in 1..Len(s) : r[i + k] = s[i]
      /\ \A i \in 1..k : r[i] = p[i]
  OBVIOUS
<1> HIDE DEF r
<1>3. \A i \in 2..k, d \in Conn : r[i] # Run(d)
  BY <1>1
<1>4. \A d \in Conn : s # <<>> /\ Head(s) = Run(d) =>
        /\ d <= n /\ sk[d] # "connecting"
        /\ sk[d] = "open" => \E j \in 1..k : r[j] = Closing(d)
  BY <1>1, FramesDiffer
<1>5. BuriedIn(r, sk, n)
  BY <1>1, <1>3, <1>4, PushBuried
<1>6. r # <<>> /\ Head(r) = p[1] /\ 1 \in DOMAIN p
  BY <1>1
<1>7. \A d \in Conn : Head(r) # Run(d)
  BY <1>6
<1> QED BY <1>5, <1>6, <1>7 DEF r

\* The handler of a disconnection buries the hub that was receiving.
LEMMA DisconnectionBuries ==
  ASSUME TypeOK, BuriedIn(stack["main"], sock, nconn), FreshIsNew,
         NEW c \in Conn, Receiving("main", c), NEW code, NEW q \in Pushes,
         OnDisconnection("main", c, code, q \o stack["main"])
  PROVE  /\ BuriedIn(stack'["main"], sock, nconn)
         /\ \A d \in Conn : Head(stack'["main"]) # Run(d)
<1> DEFINE s == stack["main"]
           Downs == {<<Closing(c)>>, <<Dial, Closing(c)>>}
<1>1. s \in Seq(Frame) /\ "main" \in Thread
  BY DEF TypeOK, Thread
<1>2. s # <<>> /\ Head(s) = Run(c) /\ sock[c] = "open" /\ c <= nconn
  BY DEF Receiving, AtTop, FreshIsNew, TypeOK, Conn
<1>3. ASSUME NEW w \in Downs
      PROVE  /\ w \in Seq(Frame)
             /\ \A j \in DOMAIN w : \A d : w[j] # Run(d)
             /\ \E j \in DOMAIN w : w[j] = Closing(c)
  <2>1. Dial \in Frame /\ Closing(c) \in Frame
    BY FrameTypes
  <2>2. CASE w = <<Closing(c)>>
    BY <2>1, <2>2, FramesDiffer
  <2>3. CASE w = <<Dial, Closing(c)>>
    <3>1. 2 \in DOMAIN w /\ w[2] = Closing(c)
      BY <2>3
    <3> QED BY <2>1, <2>3, <3>1, FramesDiffer
  <2> QED BY <2>2, <2>3
<1>4. PICK w \in Downs : stack'["main"] = w \o (q \o s)
  BY <1>1 DEF OnDisconnection, GoesDown, Calls, TypeOK
<1>5. /\ q \in Seq(Frame) /\ \A i \in DOMAIN q : \A d : q[i] # Run(d)
  BY PushesTypes
<1> DEFINE p == w \o q
<1>6. w \in Seq(Frame) /\ \A j \in DOMAIN w : \A d : w[j] # Run(d)
  BY <1>3
<1>7. PICK k \in DOMAIN w : w[k] = Closing(c)
  BY <1>3
<1>8. BuriedIn(s, sock, nconn)
  OBVIOUS
<1> HIDE DEF s, Downs
<1>9. /\ p \in Seq(Frame) /\ Len(p) = Len(w) + Len(q)
      /\ \A j \in 1..Len(w) : p[j] = w[j]
      /\ \A j \in 1..Len(q) : p[Len(w) + j] = q[j]
      /\ w \o (q \o s) = p \o s
  BY <1>1, <1>5, <1>6
<1>10. k \in DOMAIN p /\ p[k] = Closing(c)
  BY <1>6, <1>7, <1>9
<1>11. \A j \in DOMAIN p : \A d : p[j] # Run(d)
  <2> SUFFICES ASSUME NEW j \in 1..Len(p) PROVE \A d : p[j] # Run(d)
    BY <1>9
  <2>1. CASE j \in 1..Len(w)
    BY <1>6, <1>9, <2>1
  <2>2. CASE j \notin 1..Len(w)
    <3>1. j - Len(w) \in 1..Len(q) /\ Len(w) + (j - Len(w)) = j
      BY <1>5, <1>6, <1>9, <2>2
    <3> QED BY <1>5, <1>9, <3>1
  <2> QED BY <2>1, <2>2
<1> HIDE DEF p
<1> QED BY <1>1, <1>2, <1>4, <1>8, <1>9, <1>10, <1>11, CallsBury

\* A step that leaves the stacks, the sockets and the flag alone keeps both.
LEMMA QuietFlag ==
  ASSUME FlagInv, UNCHANGED <<stack, sock, nconn, open, ws>>, TimedOut => TimedOut'
  PROVE  FlagInv'
BY DEF FlagInv, Buried, ReceivesOpen, Receiving, AtTop

\* What a thread does by itself.
LEMMA UnwindsFlag ==
  ASSUME HeartbeatInv, TypeOK', FlagInv, NEW t \in Thread, Unwinds(t)
  PROVE  FlagInv'
<1>1. UNCHANGED <<hb, open, ws>>
  BY DEF Unwinds, Connect, CloseReturns, RunReturns, DestroyReturns, HandingReturns, connVars
<1> SUFFICES ASSUME ~TimedOut
             PROVE  /\ BuriedIn(stack'["main"], sock', nconn')
                    /\ \A c \in Conn : Receiving("main", c)' => open /\ ws = c
  BY <1>1 DEF FlagInv, Buried, ReceivesOpen, TimedOut
<1> DEFINE s == stack["main"]
<1>2. t = "main" /\ s # <<>> /\ s \in Seq(Frame) /\ BuriedIn(s, sock, nconn)
  BY OnlyMain DEF Unwinds, Connect, CloseReturns, RunReturns, DestroyReturns,
                  HandingReturns, AtTop, HeartbeatInv, TypeOK, FlagInv, Buried
<1>3. CASE Connect(t)
  <2> DEFINE n == nconn + 1
             r == <<Run(n)>> \o Tail(s)
  <2>1. /\ Head(s) = Dial /\ nconn' = n /\ n \in Conn /\ sock' = [sock EXCEPT ![n] = "connecting"]
        /\ stack'["main"] = r /\ nconn \in Nat
    BY <1>2, <1>3 DEF Connect, AtTop, Calls, HeartbeatInv, TypeOK, Conn
  <2>2. Run(n) \in Frame
    BY <2>1, FrameTypes
  <2>3. /\ Len(r) = Len(s) /\ r[1] = Run(n) /\ s[1] = Dial
        /\ \A i \in 2..Len(s) : r[i] = s[i]
        /\ r \in Seq(Frame)
    BY <1>2, <2>1, <2>2
  <2> HIDE DEF r, n, s
  <2>4. BuriedIn(r, sock', n)
    <3> SUFFICES ASSUME NEW i \in 2..Len(r), NEW c \in Conn, r[i] = Run(c)
                 PROVE  /\ c <= n /\ sock'[c] # "connecting"
                        /\ sock'[c] = "open" => \E j \in 1..(i - 1) : r[j] = Closing(c)
      BY <2>3 DEF BuriedIn
    <3>1. i \in 1..Len(s) /\ i # 1 /\ s[i] = Run(c)
      BY <2>3
    <3>2. /\ c <= nconn /\ sock[c] # "connecting"
          /\ sock[c] = "open" => \E j \in 1..(i - 1) : s[j] = Closing(c)
      BY <1>2, <3>1 DEF BuriedIn
    <3>3. c <= n /\ c # n
      BY <2>1, <3>2 DEF n, Conn
    <3>4. sock'[c] = sock[c]
      BY <2>1, <3>3 DEF HeartbeatInv, TypeOK
    <3>5. \A j \in 1..(i - 1) : s[j] = Closing(c) => r[j] = Closing(c)
      BY <2>3, <3>1, FramesDiffer DEF Dial, Closing
    <3> QED BY <3>2, <3>3, <3>4, <3>5
  <2>5. Head(r) = Run(n) /\ sock'[n] = "connecting"
    BY <2>1, <2>3 DEF HeartbeatInv, TypeOK
  <2>6. \A c \in Conn : ~Receiving("main", c)'
    BY <2>1, <2>5, FramesDiffer DEF Receiving, AtTop
  <2> QED BY <2>1, <2>4, <2>6
<1>4. CASE CloseReturns(t) \/ RunReturns(t) \/ DestroyReturns(t) \/ HandingReturns(t)
  <2>1. stack'["main"] = Tail(s) /\ nconn' = nconn
    BY <1>2, <1>4 DEF CloseReturns, RunReturns, DestroyReturns, HandingReturns, Returns,
                      Calls, hubVars, HeartbeatInv, TypeOK
  <2>2. \A c \in Conn : sock'[c] = IF Head(s) = Closing(c) THEN "closed" ELSE sock[c]
    <3>1. CASE CloseReturns(t)
      BY <1>2, <3>1 DEF CloseReturns, AtTop, HeartbeatInv, TypeOK, Closing
    <3>2. CASE RunReturns(t) \/ DestroyReturns(t) \/ HandingReturns(t)
      <4>1. /\ sock' = sock
            /\ \/ Head(s) = Destroying
               \/ \E c \in Conn : Head(s) \in {Run(c), Handing(c)}
        BY <1>2, <3>2 DEF RunReturns, DestroyReturns, HandingReturns, AtTop, hubVars
      <4>2. \A c \in Conn : Head(s) # Closing(c)
        <5>1. \A c, d \in Conn : Destroying # Closing(c) /\ Handing(d) # Closing(c)
          BY DEF Destroying, Closing, Handing
        <5> QED BY <4>1, <5>1, FramesDiffer
      <4> QED BY <4>1, <4>2
    <3> QED BY <1>4, <3>1, <3>2
  <2> HIDE DEF s
  <2>3. /\ BuriedIn(Tail(s), sock', nconn)
        /\ \A c \in Conn : Tail(s) # <<>> /\ Head(Tail(s)) = Run(c) => sock'[c] # "open"
    BY <1>2, <2>2, ReturnBuried
  <2> QED BY <2>1, <2>3 DEF Receiving, AtTop
<1> QED BY <1>3, <1>4 DEF Unwinds

\* The end of a connection attempt: only the topmost socket was connecting.
LEMMA UpgradesFlag ==
  ASSUME HeartbeatInv, TypeOK', FlagInv, NEW t \in Thread, Upgrades(t)
  PROVE  FlagInv'
<1>1. PICK c \in Conn : OnConnection(t, c) \/ OnError(t, c)
  BY DEF Upgrades
<1>2. UNCHANGED <<hb, nconn>>
  BY <1>1 DEF OnConnection, OnError, threadVars
<1> SUFFICES ASSUME ~TimedOut
             PROVE  /\ BuriedIn(stack'["main"], sock', nconn)
                    /\ \A d \in Conn : Receiving("main", d)' => open' /\ ws' = d
  BY <1>2 DEF FlagInv, Buried, ReceivesOpen, TimedOut
<1> DEFINE s == stack["main"]
<1>3. /\ t = "main" /\ s # <<>> /\ s \in Seq(Frame) /\ BuriedIn(s, sock, nconn)
      /\ Head(s) = Run(c) /\ sock[c] = "connecting"
  BY <1>1, OnlyMain DEF OnConnection, OnError, AtTop, HeartbeatInv, TypeOK, FlagInv, Buried
<1>4. /\ \A d \in Conn : d # c => sock'[d] = sock[d]
      /\ sock'[c] \in {"open", "failed"}
  BY <1>1 DEF OnConnection, OnError, HeartbeatInv, TypeOK
<1>5. BuriedIn(s, sock', nconn)
  <2> HIDE DEF s
  <2>1. \A i \in DOMAIN s : i # 1 => s[i] # Run(c)
    BY <1>3 DEF BuriedIn
  <2> QED BY <1>3, <1>4, <2>1, FramesDiffer DEF BuriedIn
<1>6. CASE OnConnection(t, c)
  <2>1. stack' = stack /\ open' = TRUE /\ ws' = c
    BY <1>6 DEF OnConnection, Opens, threadVars
  <2>2. \A d \in Conn : Receiving("main", d)' => d = c
    BY <1>3, <2>1, FramesDiffer DEF Receiving, AtTop
  <2> QED BY <1>5, <2>1, <2>2
<1>7. CASE OnError(t, c)
  <2>1. sock'[c] = "failed" /\ c <= nconn
    BY <1>3, <1>7 DEF OnError, HeartbeatInv, TypeOK, FreshIsNew
  <2>2. CASE HasErrorHandler
    <3> DEFINE r == <<Dial>> \o s
    <3>1. stack'["main"] = r
      BY <1>3, <1>7, <2>2 DEF OnError, Retries, Calls, HeartbeatInv, TypeOK
    <3>2. /\ r \in Seq(Frame) /\ Len(r) = Len(s) + 1 /\ r # <<>> /\ Head(r) = Dial
          /\ \A i \in 1..Len(s) : r[i + 1] = s[i]
      BY <1>3, FrameTypes
    <3> HIDE DEF r, s
    <3>3. BuriedIn(r, sock', nconn)
      BY <1>3, <1>5, <2>1, <3>2, FramesDiffer, PushBuried
    <3> QED BY <3>1, <3>2, <3>3, FramesDiffer DEF Receiving, AtTop
  <2>3. CASE ~HasErrorHandler
    <3>1. stack' = stack
      BY <1>7, <2>3 DEF OnError, Retries
    <3>2. \A d \in Conn : ~Receiving("main", d)'
      BY <1>3, <2>1, <3>1, FramesDiffer DEF Receiving, AtTop
    <3> QED BY <1>5, <3>1, <3>2
  <2> QED BY <2>2, <2>3
<1> QED BY <1>1, <1>6, <1>7

\* A hub that receives has its socket closed, from outside or by a method: the
\* methods close ws, which is that socket.
LEMMA ClosesFlag ==
  ASSUME HeartbeatInv, FlagInv, NEW t \in Thread, NEW c \in Conn, Receiving(t, c),
         NEW code, NEW q \in Pushes,
         \/ Disconnect(t, code, q \o stack[t])
         \/ OnDisconnection(t, c, code, q \o stack[t]),
         UNCHANGED <<hb, sock, nconn>>
  PROVE  FlagInv'
<1> SUFFICES ASSUME ~TimedOut
             PROVE  /\ BuriedIn(stack'["main"], sock, nconn)
                    /\ \A d \in Conn : ~Receiving("main", d)'
  BY DEF FlagInv, Buried, ReceivesOpen, TimedOut
<1>1. t = "main"
  BY OnlyMain DEF Receiving, AtTop, HeartbeatInv
<1>2. open /\ ws = c
  BY <1>1 DEF FlagInv, ReceivesOpen
<1>3. OnDisconnection("main", c, code, q \o stack["main"])
  BY <1>1, <1>2 DEF Disconnect
<1>4. /\ BuriedIn(stack'["main"], sock, nconn)
      /\ \A d \in Conn : Head(stack'["main"]) # Run(d)
  BY <1>1, <1>3, DisconnectionBuries DEF HeartbeatInv, FlagInv, Buried
<1> QED BY <1>4 DEF Receiving, AtTop

\* The messageHandler, called when the socket is gone, closes none.
LEMMA HandingFlag ==
  ASSUME HeartbeatInv, FlagInv, NEW t \in Thread, NEW c \in Conn, AtTop(t, Handing(c)),
         NEW code, NEW q \in Pushes, Disconnect(t, code, q \o stack[t]),
         UNCHANGED <<hb, sock, nconn>>
  PROVE  FlagInv'
<1> SUFFICES ASSUME ~TimedOut
             PROVE  /\ BuriedIn(stack'["main"], sock, nconn)
                    /\ \A d \in Conn : ~Receiving("main", d)'
  BY DEF FlagInv, Buried, ReceivesOpen, TimedOut
<1> DEFINE s == stack["main"]
           r == q \o s
<1>1. t = "main"
  BY OnlyMain DEF AtTop, HeartbeatInv
<1>2. s # <<>> /\ Head(s) = Handing(c) /\ s \in Seq(Frame) /\ BuriedIn(s, sock, nconn)
  BY <1>1 DEF AtTop, HeartbeatInv, TypeOK, FlagInv, Buried
<1>3. \A d \in Conn : Head(s) # Run(d)
  BY <1>2, FramesDiffer
<1>4. ~open
  BY <1>2, FramesDiffer DEF HeartbeatInv, OpenReceives, Receiving, AtTop
<1>5. stack'["main"] = r
  BY <1>1, <1>4 DEF Disconnect, Calls, HeartbeatInv, TypeOK
<1>6. /\ q \in Seq(Frame) /\ \A i \in DOMAIN q : \A d : q[i] # Run(d)
  BY PushesTypes
<1> HIDE DEF s
<1>7. /\ r \in Seq(Frame) /\ r # <<>> /\ Len(r) = Len(s) + Len(q)
      /\ \A i \in 1..Len(s) : r[i + Len(q)] = s[i]
      /\ \A i \in 1..Len(q) : r[i] = q[i]
      /\ Head(r) = IF q = <<>> THEN Head(s) ELSE q[1]
      /\ q = <<>> => r = s
  BY <1>2, <1>6
<1>8. \A d \in Conn : Head(r) # Run(d)
  BY <1>3, <1>6, <1>7
<1>9. BuriedIn(r, sock, nconn)
  <2>1. CASE q = <<>>
    BY <1>2, <1>7, <2>1
  <2>2. CASE q # <<>>
    <3> DEFINE k == Len(q)
    <3>1. k \in Nat \ {0} /\ \A i \in 2..k : \A d \in Conn : r[i] # Run(d)
      BY <1>6, <1>7, <2>2
    <3> HIDE DEF r, k
    <3> QED BY <1>2, <1>3, <1>7, <3>1, PushBuried DEF k
  <2> QED BY <2>1, <2>2
<1> QED BY <1>5, <1>8, <1>9 DEF Receiving, AtTop

\* A message, and what the application does in its handler.
LEMMA MessagesFlag ==
  ASSUME HeartbeatInv, FlagInv, NEW t \in Thread, NEW c \in Conn, Messages(t, c)
  PROVE  FlagInv'
<1>1. CASE OnHello(t, c)
  <2>1. UNCHANGED <<stack, sock, nconn, open, ws>> /\ (TimedOut => TimedOut')
    BY <1>1 DEF OnHello, hubVars, TimedOut, HeartbeatInv, StartedOnce
  <2> QED BY <2>1, QuietFlag
<1>2. CASE OnReady(t, c) \/ OnDispatch(t, c) \/ OnAck(t, c) \/ OnHeartbeatOp(t, c)
  <2>1. UNCHANGED <<stack, sock, nconn, open, ws, hb>>
    BY <1>2 DEF OnReady, OnDispatch, OnAck, OnHeartbeatOp, threadVars, connVars, hubVars
  <2> QED BY <2>1, QuietFlag DEF TimedOut
<1>3. CASE OnReconnectOp(t, c)
  <2>1. Receiving(t, c) /\ UNCHANGED <<hb, sock, nconn>>
    BY <1>3 DEF OnReconnectOp, hubVars
  <2>2. \E q \in Pushes : Disconnect(t, 1000, q \o stack[t])
    BY <1>3, OpPushes DEF OnReconnectOp, HeartbeatInv
  <2> QED BY <2>1, <2>2, ClosesFlag
<1>4. CASE OnInvalidSession(t, c)
  <2>1. Receiving(t, c) /\ UNCHANGED <<hb, sock, nconn, ws>>
    BY <1>4 DEF OnInvalidSession, hubVars
  <2>2. CASE UNCHANGED <<stack, open>>
    BY <2>1, <2>2, QuietFlag DEF TimedOut
  <2>3. CASE Reconnect(t, 1000, <<Handing(c)>> \o stack[t])
    <3>1. \E q \in Pushes : Disconnect(t, 1000, q \o stack[t])
      BY <2>3, OpPushes DEF HeartbeatInv
    <3> QED BY <2>1, <3>1, ClosesFlag
  <2> QED BY <1>4, <2>2, <2>3 DEF OnInvalidSession
<1>5. CASE HandlerDestroy(t, c) \/ HandlerDisconnect(t, c) \/ HandlerReconnect(t, c)
  <2>1. /\ Receiving(t, c) \/ AtTop(t, Handing(c))
        /\ UNCHANGED <<hb, sock, nconn>>
    BY <1>5 DEF HandlerDestroy, HandlerDisconnect, HandlerReconnect, Handles, hubVars
  <2>2. \E q \in Pushes : Disconnect(t, 1000, q \o stack[t])
    BY <1>5, HandlerPushes DEF HeartbeatInv
  <2> QED BY <2>1, <2>2, ClosesFlag, HandingFlag
<1> QED BY <1>1, <1>2, <1>3, <1>4, <1>5 DEF Messages

\* The heartbeat thread touches them only when it times out.
LEMMA HeartbeatThreadFlag ==
  ASSUME FlagInv, HeartbeatThread
  PROVE  FlagInv'
<1>1. CASE TimedOut'
  BY <1>1 DEF FlagInv, Buried, ReceivesOpen
<1>2. CASE ~TimedOut'
  <2>1. UNCHANGED <<stack, sock, nconn, open, ws>> /\ ~TimedOut
    BY <1>2 DEF HeartbeatThread, HbLoop, HbWake, HbCheck, HbBeat, TimesOut,
              HbTimesOut, HbCloses, HbForgets, HbTerminate, TimedOut,
                connVars, hubVars
  <2> QED BY <1>2, <2>1, QuietFlag
<1> QED BY <1>1, <1>2

LEMMA FlagInvariant == Spec => []FlagInv
<1>1. Init => FlagInv
  <2> SUFFICES ASSUME Init PROVE FlagInv
    OBVIOUS
  <2>1. stack["main"] = <<Dial>> /\ \A c \in Conn : sock[c] = "unused"
    BY DEF Init, Thread
  <2> QED BY <2>1 DEF FlagInv, Buried, BuriedIn, ReceivesOpen, Receiving
<1>2. FlagInv /\ HeartbeatInv /\ TypeOK' /\ [Next]_vars => FlagInv'
  <2> SUFFICES ASSUME FlagInv, HeartbeatInv, TypeOK', [Next]_vars PROVE FlagInv'
    OBVIOUS
  <2>1. CASE UNCHANGED vars
    BY <2>1, QuietFlag DEF vars, threadVars, connVars, hubVars, TimedOut
  <2>2. ASSUME NEW t \in Thread, NEW c \in Conn, NEW code, ServerCloses(t, c, code)
        PROVE  FlagInv'
    <3>1. /\ Receiving(t, c) /\ OnDisconnection(t, c, code, stack[t])
          /\ UNCHANGED <<hb, sock, nconn>>
      BY <2>2 DEF ServerCloses, hubVars
    <3>2. <<>> \in Pushes /\ stack[t] = <<>> \o stack[t]
      BY DEF Pushes, HeartbeatInv, TypeOK
    <3>3. \E q \in Pushes : OnDisconnection(t, c, code, q \o stack[t])
      BY <3>1, <3>2
    <3> QED BY <3>1, <3>3, ClosesFlag
  <2> QED BY <2>1, <2>2, UnwindsFlag, UpgradesFlag, MessagesFlag, HeartbeatThreadFlag
          DEF Next
<1> QED BY <1>1, <1>2, HeartbeatInvariant, TypeCorrect, PTL DEF Spec

\* The flag open, which disconnect() tests before it closes and the heartbeat thread
\* before it beats, is TRUE exactly while the innermost hub.run() receives on the socket
\* of the object, however many hubs are nested below it and whatever their sockets are:
\* until a heartbeat times out (connect() and the handlers, gateway.cc).
THEOREM FlagCorrect == Spec => []OpenFlagHonest
<1>1. HeartbeatInv /\ FlagInv => OpenFlagHonest
  <2> SUFFICES ASSUME HeartbeatInv, FlagInv, ~TimedOut
               PROVE  open <=> ws # NoConn /\ Receiving("main", ws)
    BY DEF OpenFlagHonest
  <2>1. open => ws # NoConn /\ Receiving("main", ws)
    BY DEF HeartbeatInv, OpenReceives
  <2>2. ASSUME ws # NoConn, Receiving("main", ws) PROVE open
    <3>1. ws \in Conn
      BY <2>2 DEF HeartbeatInv, TypeOK
    <3> QED BY <2>2, <3>1 DEF FlagInv, ReceivesOpen
  <2> QED BY <2>1, <2>2
<1> QED BY <1>1, HeartbeatInvariant, FlagInvariant, PTL
----------------------------------------------------------------------------
(* Sessions: ExactlyOnce and ResumePointExact.  Each needs the other, and    *)
(* both need that the server and the object agree on the session and on how  *)
(* far it is whenever dispatches may arrive.                                *)

\* Nothing counts tries up, so the code 5 of them never stands in the way of a
\* session reset.
NeverTried == tries = 0

\* Dispatches of a session, which is named by its connection, come after the
\* connection's IDENTIFY was answered.
Begun == \A c \in Conn : handed[c] # <<>> => phase[c] \notin {"new", "greeted", "identify"}

\* The server only attaches and ends sessions that have begun.
Known ==
  /\ \A c \in Conn : sess[c] # NoSession => handed[sess[c]] # <<>>
  /\ \A s \in ended : handed[s] # <<>>

\* Where dispatches may arrive, the server and the object agree.
InStep == open /\ phase[ws] \in {"ready", "resume"} => sess[ws] = session /\ pos[ws] = seq

SessionInv ==
  /\ NeverTried
  /\ ~TimedOut => Begun /\ Known /\ InStep
  /\ ExactlyOnce /\ ResumePointExact

\* The connection a handler is called for is the one the object sends on.
LEMMA ReceivingIsWs ==
  ASSUME HeartbeatInv, FlagInv, ~TimedOut, NEW t \in Thread, NEW c \in Conn, Receiving(t, c)
  PROVE  t = "main" /\ open /\ ws = c /\ sock[ws] = "open"
<1>1. t = "main"
  BY OnlyMain DEF Receiving, AtTop, HeartbeatInv
<1> QED BY <1>1 DEF FlagInv, ReceivesOpen, Receiving

\* A step that leaves the sessions and what the server knows of them alone, and
\* opens at most a connection whose handshake has not begun.
LEMMA QuietSession ==
  ASSUME SessionInv, UNCHANGED <<sess, handed, session, seq, pos, phase, ended, tries>>,
         TimedOut => TimedOut',
         ~TimedOut /\ open' => (open /\ ws' = ws) \/ phase[ws'] = "new"
  PROVE  SessionInv'
<1>1. NeverTried' /\ ExactlyOnce' /\ ResumePointExact'
  BY DEF SessionInv, NeverTried, ExactlyOnce, ResumePointExact
<1>2. ~TimedOut' => Begun' /\ Known'
  BY DEF SessionInv, Begun, Known
<1>3. ~TimedOut' => InStep'
  BY DEF SessionInv, InStep
<1> QED BY <1>1, <1>2, <1>3 DEF SessionInv

\* A connection goes down, and the session with it or not.
LEMMA DownSession ==
  ASSUME SessionInv, UNCHANGED <<sess, handed, pos, tries>>, TimedOut => TimedOut',
         open' = FALSE,
         \/ session' = session /\ seq' = seq /\ ended' = ended
         \/ session' = NoSession,
         ~TimedOut => \A s \in ended' : handed[s] # <<>>,
         \A d \in Conn : phase'[d] \in {phase[d], "invalid"}
  PROVE  SessionInv'
<1>1. NeverTried' /\ ExactlyOnce' /\ ResumePointExact'
  BY DEF SessionInv, NeverTried, ExactlyOnce, ResumePointExact
<1>2. ~TimedOut' => Begun' /\ Known'
  BY DEF SessionInv, Begun, Known
<1>3. InStep'
  BY DEF InStep
<1> QED BY <1>1, <1>2, <1>3 DEF SessionInv

\* disconnect() either keeps the session or forgets it.
LEMMA DisconnectForgets ==
  ASSUME TypeOK, NEW t, NEW code, NEW below, Disconnect(t, code, below)
  PROVE  /\ open' = FALSE
         /\ (session' = session /\ seq' = seq) \/ session' = NoSession
BY DEF Disconnect, OnDisconnection, GoesDown, TypeOK

\* resume() tells the server the session and how far it was handled.
LEMMA ResumeSession ==
  ASSUME HeartbeatInv, SessionInv, NEW c \in Conn, ~TimedOut => ws = c /\ sock[c] = "open",
         NEW x \in {"greeted", "invalid"}, Resume([phase EXCEPT ![c] = x]),
         handed[c] # <<>> => x = "invalid" \/ TimedOut,
         UNCHANGED <<ws, open, handed, ended, tries>>, TimedOut => TimedOut'
  PROVE  SessionInv'
<1> SUFFICES ASSUME ~TimedOut
             PROVE  SessionInv'
  BY DEF SessionInv, NeverTried, ExactlyOnce, ResumePointExact
<1>1. UNCHANGED <<session, seq>>
  BY DEF Resume
<1>2. /\ phase' = [phase EXCEPT ![c] = "resume"]
      /\ sess' = [sess EXCEPT ![c] = session] /\ pos' = [pos EXCEPT ![c] = seq]
  BY DEF Resume, Listens, HeartbeatInv, TypeOK
<1>3. session # NoSession => handed[session] # <<>>
  BY DEF SessionInv, ResumePointExact, HeartbeatInv, TypeOK
<1>4. NeverTried' /\ ExactlyOnce' /\ ResumePointExact'
  BY <1>1 DEF SessionInv, NeverTried, ExactlyOnce, ResumePointExact
<1>5. Begun' /\ Known'
  BY <1>2, <1>3 DEF SessionInv, Begun, Known, HeartbeatInv, TypeOK
<1>6. InStep'
  BY <1>1, <1>2 DEF InStep, HeartbeatInv, TypeOK
<1> QED BY <1>4, <1>5, <1>6 DEF SessionInv

\* A HELLO is answered by a RESUME, or by an IDENTIFY that begins a new session.
LEMMA HelloSession ==
  ASSUME HeartbeatInv, FlagInv, SessionInv, NEW t \in Thread, NEW c \in Conn, OnHello(t, c)
  PROVE  SessionInv'
<1> DEFINE ph == [phase EXCEPT ![c] = "greeted"]
<1>1. /\ UNCHANGED <<ws, open, handed, ended, tries>>
      /\ Receiving(t, c) /\ phase[c] = "new" /\ (Identify(ph) \/ Resume(ph))
  BY DEF OnHello
<1>2. TimedOut => TimedOut'
  BY DEF OnHello, TimedOut, HeartbeatInv, StartedOnce
<1>3. ~TimedOut => ws = c /\ open /\ sock[c] = "open" /\ handed[c] = <<>>
  BY <1>1, ReceivingIsWs DEF SessionInv, Begun
<1>4. CASE Resume(ph)
  BY <1>1, <1>2, <1>3, <1>4, ResumeSession
<1>5. CASE Identify(ph)
  <2>1. CASE TimedOut
    BY <1>1, <1>2, <2>1 DEF SessionInv, NeverTried, ExactlyOnce, ResumePointExact
  <2>2. CASE ~TimedOut
    <3>1. /\ session' = NoSession /\ UNCHANGED <<sess, pos>>
          /\ phase' = [phase EXCEPT ![c] = "identify"]
      BY <1>3, <1>5, <2>2 DEF Identify, Listens, HeartbeatInv, TypeOK
    <3>2. NeverTried' /\ ExactlyOnce' /\ ResumePointExact'
      BY <1>1, <1>2, <3>1 DEF SessionInv, NeverTried, ExactlyOnce, ResumePointExact
    <3>3. Begun' /\ Known'
      BY <1>1, <1>3, <2>2, <3>1 DEF SessionInv, Begun, Known, HeartbeatInv, TypeOK
    <3>4. InStep'
      BY <1>1, <1>3, <2>2, <3>1 DEF InStep, HeartbeatInv, TypeOK
    <3> QED BY <3>2, <3>3, <3>4 DEF SessionInv
  <2> QED BY <2>1, <2>2
<1> QED BY <1>1, <1>4, <1>5

\* A READY is the first dispatch of a session that nothing knew before.
LEMMA ReadySession ==
  ASSUME HeartbeatInv, FlagInv, SessionInv, NEW t \in Thread, NEW c \in Conn, OnReady(t, c)
  PROVE  SessionInv'
<1>1. /\ Receiving(t, c) /\ phase[c] = "identify" /\ UNCHANGED <<hb, ws, open, ended>>
      /\ phase' = [phase EXCEPT ![c] = "ready"] /\ sess' = [sess EXCEPT ![c] = c]
      /\ pos' = [pos EXCEPT ![c] = 1] /\ seq' = 1 /\ session' = c /\ tries' = 0
      /\ handed' = [handed EXCEPT ![c] = Append(@, 1)]
  BY DEF OnReady, Dispatches, threadVars
<1>2. CASE TimedOut
  BY <1>1, <1>2 DEF SessionInv, NeverTried, ExactlyOnce, ResumePointExact, TimedOut
<1>3. CASE ~TimedOut
  <2>1. ws = c /\ handed[c] = <<>> /\ c \notin ended
    BY <1>1, <1>3, ReceivingIsWs DEF SessionInv, Begun, Known
  <2>2. /\ handed'[c] = <<1>> /\ \A d \in Conn : d # c => handed'[d] = handed[d]
        /\ \A d \in Conn : handed[d] # <<>> => handed'[d] # <<>>
    BY <1>1, <2>1 DEF HeartbeatInv, TypeOK
  <2>3. Begun' /\ Known'
    BY <1>1, <1>3, <2>2 DEF SessionInv, Begun, Known, HeartbeatInv, TypeOK
  <2>4. InStep'
    BY <1>1, <2>1 DEF InStep, HeartbeatInv, TypeOK
  <2>5. ExactlyOnce'
    BY <1>1, <1>3, <2>2 DEF SessionInv, ExactlyOnce, TimedOut
  <2>6. ResumePointExact'
    BY <1>1, <2>1, <2>2 DEF ResumePointExact
  <2> QED BY <1>1, <2>3, <2>4, <2>5, <2>6 DEF SessionInv, NeverTried
<1> QED BY <1>2, <1>3

\* A dispatch is the next of the session that the object would resume.
LEMMA DispatchSession ==
  ASSUME HeartbeatInv, FlagInv, SessionInv, NEW t \in Thread, NEW c \in Conn, OnDispatch(t, c)
  PROVE  SessionInv'
<1> DEFINE s == sess[c]
           n == pos[c] + 1
<1>1. /\ Receiving(t, c) /\ phase[c] \in {"ready", "resume"} /\ s \in Conn \ (ended \cup refused)
      /\ UNCHANGED <<hb, ws, open, session, tries, sess, ended>>
      /\ phase' = [phase EXCEPT ![c] = "ready"] /\ pos' = [pos EXCEPT ![c] = n]
      /\ seq' = n /\ handed' = [handed EXCEPT ![s] = Append(@, n)]
  BY DEF OnDispatch, Dispatches, threadVars
<1>2. CASE TimedOut
  BY <1>1, <1>2 DEF SessionInv, NeverTried, ExactlyOnce, ResumePointExact, TimedOut
<1>3. CASE ~TimedOut
  <2>1. ws = c /\ s = session /\ pos[c] = seq
    BY <1>1, <1>3, ReceivingIsWs DEF SessionInv, InStep
  <2>2. session # NoSession /\ s \in Conn /\ handed[s] \in Seq(Int)
    BY <1>1, <2>1 DEF Conn, NoSession, HeartbeatInv, TypeOK
  <2>3. n = Len(handed[s]) + 1 /\ handed[s] # <<>> /\ n \in Nat \ {0}
    BY <1>3, <2>1, <2>2 DEF SessionInv, ResumePointExact
  <2> HIDE DEF n, s
  <2>4. /\ handed'[s] = Append(handed[s], n)
        /\ \A d \in Conn : d # s => handed'[d] = handed[d]
    BY <1>1, <2>2 DEF HeartbeatInv, TypeOK
  <2>5. Len(handed'[s]) = n /\ handed'[s] # <<>>
    BY <2>2, <2>3, <2>4
  <2>6. Begun' /\ Known'
    <3>1. \A d \in Conn : handed'[d] # <<>> <=> handed[d] # <<>>
      BY <2>3, <2>4, <2>5
    <3>2. \A d \in Conn : phase'[d] \in {phase[d], "ready"}
      BY <1>1 DEF HeartbeatInv, TypeOK
    <3>3. Begun'
      BY <1>3, <3>1, <3>2 DEF SessionInv, Begun
    <3>4. Known'
      BY <1>1, <1>3, <3>1 DEF SessionInv, Known, HeartbeatInv, TypeOK
    <3> QED BY <3>3, <3>4
  <2>7. InStep'
    BY <1>1, <2>1 DEF InStep, HeartbeatInv, TypeOK, s
  <2>8. ExactlyOnce'
    <3>1. \A i \in DOMAIN handed'[s] : handed'[s][i] = i
      <4>1. \A i \in DOMAIN handed[s] : handed[s][i] = i
        BY <1>3, <2>2 DEF SessionInv, ExactlyOnce
      <4> QED BY <2>2, <2>3, <2>4, <4>1
    <3>2. \A d \in Conn : \A i \in DOMAIN handed'[d] : handed'[d][i] = i
      BY <1>3, <2>4, <3>1 DEF SessionInv, ExactlyOnce
    <3> QED BY <3>2 DEF ExactlyOnce
  <2>9. ResumePointExact'
    BY <1>1, <2>1, <2>3, <2>5 DEF ResumePointExact
  <2> QED BY <1>1, <2>6, <2>7, <2>8, <2>9 DEF SessionInv, NeverTried
<1> QED BY <1>2, <1>3

\* A closed connection: a code that ends the session on the server makes the
\* object forget it, since neither tries nor a fatal code takes precedence.
LEMMA ClosesSession ==
  ASSUME HeartbeatInv, FlagInv, SessionInv, NEW t \in Thread, NEW c \in Conn, NEW code,
         ServerCloses(t, c, code)
  PROVE  SessionInv'
<1>1. /\ UNCHANGED <<hb, sess, handed, pos, phase, tries>>
      /\ Receiving(t, c) /\ OnDisconnection(t, c, code, stack[t])
      /\ ended' = IF code \in ResetCodes THEN ended \cup ({sess[c]} \cap Conn) ELSE ended
  BY DEF ServerCloses
<1>2. code \in ResetCodes => ~Destroys(code)
  BY DEF Destroys, ResetCodes, FatalCodes, SessionInv, NeverTried
<1>3. open' = FALSE
  BY <1>1 DEF OnDisconnection
<1>4. \/ session' = session /\ seq' = seq /\ ended' = ended
      \/ session' = NoSession
  BY <1>1, <1>2 DEF OnDisconnection, GoesDown, Forgets
<1>5. ~TimedOut => \A s \in ended' : handed[s] # <<>>
  BY <1>1 DEF SessionInv, Known, Conn, NoSession
<1> QED BY <1>1, <1>3, <1>4, <1>5, DownSession DEF TimedOut

\* A handler that disconnects, as an answer to a message or for the application.
LEMMA HandlerSession ==
  ASSUME HeartbeatInv, SessionInv, NEW t \in Thread, NEW code, NEW below,
         Disconnect(t, code, below), \A d \in Conn : phase'[d] \in {phase[d], "invalid"},
         UNCHANGED <<hb, tries, sess, pos, ended, handed>>
  PROVE  SessionInv'
<1>1. open' = FALSE /\ ((session' = session /\ seq' = seq) \/ session' = NoSession)
  BY DisconnectForgets DEF HeartbeatInv
<1>2. ~TimedOut => \A s \in ended' : handed[s] # <<>>
  BY DEF SessionInv, Known
<1> QED BY <1>1, <1>2, DownSession DEF TimedOut

\* A message, and what the application does in its handler.
LEMMA MessagesSession ==
  ASSUME HeartbeatInv, FlagInv, SessionInv, NEW t \in Thread, NEW c \in Conn, Messages(t, c)
  PROVE  SessionInv'
<1>1. CASE OnAck(t, c) \/ OnHeartbeatOp(t, c)
  <2>1. /\ UNCHANGED <<sess, handed, session, seq, pos, phase, ended, tries>>
        /\ UNCHANGED <<hb, open, ws>>
    BY <1>1 DEF OnAck, OnHeartbeatOp, threadVars, connVars
  <2> QED BY <2>1, QuietSession DEF TimedOut
<1>2. CASE OnReconnectOp(t, c) \/ HandlerReconnect(t, c) \/ HandlerDestroy(t, c)
           \/ HandlerDisconnect(t, c)
  <2>1. /\ UNCHANGED <<hb, tries, sess, pos, ended, handed, phase>>
        /\ \E below : Disconnect(t, 1000, below)
    BY <1>2 DEF OnReconnectOp, HandlerReconnect, HandlerDestroy, HandlerDisconnect,
                Reconnect, serverVars
  <2> QED BY <2>1, HandlerSession
<1>3. CASE OnInvalidSession(t, c)
  <2>1. UNCHANGED <<hb, ws, tries, ended, handed>> /\ Receiving(t, c)
    BY <1>3 DEF OnInvalidSession
  <2>2. CASE Resume([phase EXCEPT ![c] = "invalid"]) /\ UNCHANGED open
    <3>1. ~TimedOut => ws = c /\ sock[c] = "open"
      BY <2>1, ReceivingIsWs
    <3> QED BY <2>1, <2>2, <3>1, ResumeSession DEF TimedOut
  <2>3. CASE /\ Reconnect(t, 1000, <<Handing(c)>> \o stack[t])
             /\ phase' = [phase EXCEPT ![c] = "invalid"]
             /\ UNCHANGED <<sess, pos>>
    <3>1. \A d \in Conn : phase'[d] \in {phase[d], "invalid"}
      BY <2>3 DEF HeartbeatInv, TypeOK
    <3>2. \E below : Disconnect(t, 1000, below)
      BY <2>3 DEF Reconnect
    <3> QED BY <2>1, <2>3, <3>1, <3>2, HandlerSession
  <2> QED BY <1>3, <2>2, <2>3 DEF OnInvalidSession
<1> QED BY <1>1, <1>2, <1>3, HelloSession, ReadySession, DispatchSession DEF Messages

\* What a thread does by itself: an upgrade brings a connection that waits for
\* its HELLO.
LEMMA ThreadSession ==
  ASSUME HeartbeatInv, SessionInv, NEW t \in Thread, Unwinds(t) \/ Upgrades(t)
  PROVE  SessionInv'
<1>1. UNCHANGED <<hb, sess, handed, session, seq, pos, phase, ended, tries>>
  BY DEF Unwinds, Connect, CloseReturns, RunReturns, DestroyReturns, HandingReturns, Upgrades,
         OnConnection, OnError, threadVars, connVars, serverVars
<1>2. CASE Unwinds(t)
  <2>1. UNCHANGED <<open, ws>>
    BY <1>2 DEF Unwinds, Connect, CloseReturns, RunReturns, DestroyReturns, HandingReturns,
                connVars
  <2> QED BY <1>1, <2>1, QuietSession DEF TimedOut
<1>3. CASE Upgrades(t)
  <2>1. ~open' \/ phase[ws'] = "new"
    BY <1>3 DEF Upgrades, OnConnection, Opens, OnError, HeartbeatInv, FreshIsNew
  <2> QED BY <1>1, <2>1, QuietSession DEF TimedOut
<1> QED BY <1>2, <1>3

\* The heartbeat thread touches them only when it times out.
LEMMA HeartbeatThreadSession ==
  ASSUME SessionInv, HeartbeatThread
  PROVE  SessionInv'
<1>1. CASE TimedOut'
  <2>1. tries' = tries
    BY DEF HeartbeatThread, HbLoop, HbWake, HbCheck, HbBeat, TimesOut,
              HbTimesOut, HbCloses, HbForgets, HbTerminate, connVars
  <2> QED BY <1>1, <2>1 DEF SessionInv, NeverTried, ExactlyOnce, ResumePointExact
<1>2. CASE ~TimedOut'
  <2>1. /\ UNCHANGED <<sess, handed, session, seq, pos, phase, ended, tries, open, ws>>
        /\ ~TimedOut
    BY <1>2 DEF HeartbeatThread, HbLoop, HbWake, HbCheck, HbBeat, TimesOut,
              HbTimesOut, HbCloses, HbForgets, HbTerminate, TimedOut,
                connVars, serverVars
  <2> QED BY <2>1, QuietSession
<1> QED BY <1>1, <1>2

LEMMA SessionInvariant == Spec => []SessionInv
<1>1. Init => SessionInv
  BY DEF Init, SessionInv, NeverTried, Begun, Known, InStep, ExactlyOnce, ResumePointExact
<1>2. SessionInv /\ HeartbeatInv /\ FlagInv /\ [Next]_vars => SessionInv'
  <2> SUFFICES ASSUME SessionInv, HeartbeatInv, FlagInv, [Next]_vars PROVE SessionInv'
    OBVIOUS
  <2>1. CASE UNCHANGED vars
    BY <2>1, QuietSession DEF vars, threadVars, connVars, serverVars, TimedOut
  <2>2. CASE Next
    BY <2>2, ThreadSession, MessagesSession, ClosesSession, HeartbeatThreadSession DEF Next
  <2> QED BY <2>1, <2>2
<1> QED BY <1>1, <1>2, HeartbeatInvariant, FlagInvariant, PTL DEF Spec

\* The messageHandler gets the dispatches of a session in order and each once,
\* over any number of disconnections, failed attempts, resumes and new
\* sessions, until a heartbeat times out (op 0, gateway.cc:187-195).
THEOREM ExactlyOnceCorrect == Spec => []ExactlyOnce
<1>1. SessionInv => ExactlyOnce
  BY DEF SessionInv
<1> QED BY <1>1, SessionInvariant, PTL

\* The seq the object would resume with is that of the last dispatch handled of the very
\* session it would resume, and this session is none that the server ended with a close
\* code of gateway.cc:137-139; it may be one that an op 9 refused.
THEOREM ResumeCorrect == Spec => []ResumePointExact
<1>1. SessionInv => ResumePointExact
  BY DEF SessionInv
<1> QED BY <1>1, SessionInvariant, PTL
----------------------------------------------------------------------------
(* The nested hubs: NoConnectReturned.  While the heartbeat thread may go    *)
(* on, each thread is about to connect, inside destroy(), or in a hub.run()  *)
(* whose socket is not gone; so no call of connect() has a way to return.    *)
(* This also holds after a timeout, when two threads run hubs.               *)

\* A frame whose next step, while the heartbeat thread may go on, calls and does not return.
Pending(f) == f \in {Dial, Destroying} \/ \E c \in Conn \cup {NoConn} : f = Disconnected(c)

\* Thread t is in none of the calls that would unwind one below.
Busy(t) ==
  stack[t] # <<>> =>
    \/ Pending(Head(stack[t]))
    \/ \E c \in 1..nconn : Head(stack[t]) = Run(c) /\ sock[c] \in {"connecting", "open"}

\* Calls of connect() made on one thread are not those of the other.
Apart == \A c \in 1..nconn : ~(AtTop("main", Run(c)) /\ AtTop("beat", Run(c)))

Working == HasErrorHandler /\ heartbeatOpen => Apart /\ \A t \in Thread : Busy(t)

\* Where an element is after what precedes it is taken away, or put there.
LEMMA TailHas ==
  ASSUME NEW S, NEW s \in Seq(S), s # <<>>, NEW i \in DOMAIN s, Head(s) # s[i]
  PROVE  i - 1 \in DOMAIN Tail(s) /\ Tail(s)[i - 1] = s[i]
OBVIOUS

LEMMA ConcatHas ==
  ASSUME NEW S, NEW p \in Seq(S), NEW r \in Seq(S), NEW j \in DOMAIN r
  PROVE  j + Len(p) \in DOMAIN (p \o r) /\ (p \o r)[j + Len(p)] = r[j]
OBVIOUS

LEMMA PendingTypes == \A f : Pending(f) => \A c : f # Run(c)
BY FramesDiffer DEF Pending

\* A step that only puts calls on one thread, or in the place of one that runs no hub, the
\* topmost about to connect or in destroy(), and ends no socket but the one this thread
\* was running.
LEMMA GrowWorking ==
  ASSUME TypeOK, Working, NoConnectReturned, NEW t \in Thread, NEW p \in Seq(Frame), NEW r,
         stack' = [stack EXCEPT ![t] = p \o r],
         \/ r = stack[t]
         \/ /\ p # <<>> /\ stack[t] # <<>> /\ r = Tail(stack[t])
            /\ \A c : Head(stack[t]) # Run(c),
         p # <<>> => Pending(Head(p)),
         heartbeatOpen' => heartbeatOpen, nconn' = nconn,
         \A d \in Conn : \/ sock'[d] = sock[d] \/ sock'[d] \in {"connecting", "open"}
                         \/ AtTop(t, Run(d)) /\ p # <<>>
  PROVE  Working' /\ NoConnectReturned'
<1> SUFFICES ASSUME HasErrorHandler, heartbeatOpen
             PROVE  /\ Apart' /\ \A u \in Thread : Busy(u)'
                    /\ \A c \in 1..nconn : \E u \in Thread : \E i \in DOMAIN stack'[u] :
                         stack'[u][i] = Run(c)
  BY DEF Working, NoConnectReturned
<1>1. /\ Apart /\ \A u \in Thread : Busy(u)
      /\ \A c \in 1..nconn : \E u \in Thread : \E i \in DOMAIN stack[u] : stack[u][i] = Run(c)
  BY DEF Working, NoConnectReturned
<1>0. nconn \in Nat /\ nconn <= MaxConns /\ 1..nconn \subseteq Conn
  BY BoundsAssumption DEF TypeOK, Conn
<1>2. /\ \A u \in Thread : stack[u] \in Seq(Frame)
      /\ \A u \in Thread \ {t} : stack'[u] = stack[u]
      /\ stack'[t] = p \o r /\ r \in Seq(Frame) /\ (p = <<>> => r = stack[t])
  <2>1. stack[t] \in Seq(Frame) /\ (stack[t] # <<>> => Tail(stack[t]) \in Seq(Frame))
    BY DEF TypeOK
  <2>2. r \in Seq(Frame) /\ (p = <<>> => r = stack[t])
    BY <2>1
  <2> QED BY <2>2 DEF TypeOK
<1>3. \A c \in 1..nconn : AtTop(t, Run(c))' => p = <<>> /\ AtTop(t, Run(c))
  <2> SUFFICES ASSUME NEW c \in 1..nconn, stack'[t] # <<>>, Head(stack'[t]) = Run(c)
               PROVE  p = <<>> /\ AtTop(t, Run(c))
    BY DEF AtTop
  <2>1. p # <<>> => Head(stack'[t]) = Head(p)
    BY <1>2
  <2>2. p = <<>>
    BY <2>1, PendingTypes
  <2> QED BY <1>2, <2>2 DEF AtTop
<1>4. \A c \in 1..nconn, u \in Thread : AtTop(u, Run(c))' => AtTop(u, Run(c))
  BY <1>2, <1>3 DEF AtTop
<1>5. Apart'
  BY <1>1, <1>4 DEF Apart, Thread
<1>6. ASSUME NEW u \in Thread PROVE Busy(u)'
  <2> SUFFICES ASSUME stack'[u] # <<>>, ~Pending(Head(stack'[u]))
               PROVE  \E c \in 1..nconn : Head(stack'[u]) = Run(c)
                                          /\ sock'[c] \in {"connecting", "open"}
    BY DEF Busy
  <2>1. u = t => p = <<>>
    <3> SUFFICES ASSUME u = t, p # <<>> PROVE FALSE
      OBVIOUS
    <3>1. stack'[t] = p \o r /\ r \in Seq(Frame)
      BY <1>2
    <3> QED BY <3>1
  <2>2. stack'[u] = stack[u]
    <3>1. CASE u = t
      <4>1. stack'[u] = <<>> \o stack[u] /\ stack[u] \in Seq(Frame)
        BY <1>2, <2>1, <3>1
      <4> QED BY <4>1
    <3>2. CASE u # t
      BY <1>2, <3>2
    <3> QED BY <3>1, <3>2
  <2>3. PICK c \in 1..nconn : Head(stack[u]) = Run(c) /\ sock[c] \in {"connecting", "open"}
    BY <1>1, <2>2 DEF Busy
  <2>4. AtTop(u, Run(c))
    BY <2>2, <2>3 DEF AtTop
  <2>5. AtTop(t, Run(c)) => u = t
    BY <1>1, <2>4 DEF Apart, Thread
  <2>6. sock'[c] \in {"connecting", "open"}
    BY <1>0, <2>1, <2>3, <2>5
  <2> QED BY <2>2, <2>3, <2>6
<1>7. ASSUME NEW c \in 1..nconn
      PROVE  \E u \in Thread : \E i \in DOMAIN stack'[u] : stack'[u][i] = Run(c)
  <2>1. PICK u \in Thread : \E i \in DOMAIN stack[u] : stack[u][i] = Run(c)
    BY <1>1
  <2>2. CASE u = t
    <3>1. PICK i \in DOMAIN stack[t] : stack[t][i] = Run(c)
      BY <2>1, <2>2
    <3>2. \E j \in DOMAIN r : r[j] = Run(c)
      <4>1. CASE r = stack[t]
        BY <3>1, <4>1
      <4>2. CASE stack[t] # <<>> /\ r = Tail(stack[t]) /\ Head(stack[t]) # Run(c)
        <5> DEFINE s == stack[t]
        <5>1. s \in Seq(Frame) /\ s # <<>> /\ r = Tail(s) /\ i \in DOMAIN s /\ Head(s) # s[i]
          BY <1>2, <3>1, <4>2
        <5> HIDE DEF s
        <5>2. i - 1 \in DOMAIN r /\ r[i - 1] = s[i]
          BY <5>1, TailHas
        <5> QED BY <3>1, <5>2 DEF s
      <4> QED BY <4>1, <4>2
    <3>3. PICK j \in DOMAIN r : r[j] = Run(c)
      BY <3>2
    <3> DEFINE pr == p \o r
    <3>5. j + Len(p) \in DOMAIN pr /\ pr[j + Len(p)] = r[j]
      BY <1>2, ConcatHas
    <3>4. j + Len(p) \in DOMAIN stack'[t] /\ stack'[t][j + Len(p)] = r[j]
      BY <1>2, <3>5
    <3> QED BY <2>2, <3>3, <3>4
  <2>3. CASE u # t
    BY <1>2, <2>1, <2>3
  <2> QED BY <2>2, <2>3
<1> QED BY <1>5, <1>6, <1>7

\* connect() replaces a reconnect() that was asleep by the run of a hub of its own.
LEMMA ConnectWorking ==
  ASSUME TypeOK, Working, NoConnectReturned, NEW t \in Thread, Connect(t)
  PROVE  Working' /\ NoConnectReturned'
<1> DEFINE n == nconn + 1
<1>1. /\ AtTop(t, Dial) /\ nconn < MaxConns /\ nconn' = n /\ heartbeatOpen' = heartbeatOpen
      /\ sock' = [sock EXCEPT ![n] = "connecting"]
      /\ Calls(t, <<Run(n)>> \o Tail(stack[t]))
  BY DEF Connect, connVars
<1>10. n \in Conn
  BY <1>1, BoundsAssumption DEF TypeOK, Conn
<1>11. Run(n) \in Frame
  BY <1>10, FrameTypes
<1> SUFFICES ASSUME HasErrorHandler, heartbeatOpen
             PROVE  /\ Apart' /\ \A u \in Thread : Busy(u)'
                    /\ \A c \in 1..n : \E u \in Thread : \E i \in DOMAIN stack'[u] :
                         stack'[u][i] = Run(c)
  BY <1>1 DEF Working, NoConnectReturned
<1>2. /\ Apart /\ \A u \in Thread : Busy(u)
      /\ \A c \in 1..nconn : \E u \in Thread : \E i \in DOMAIN stack[u] : stack[u][i] = Run(c)
  BY DEF Working, NoConnectReturned
<1>0. nconn \in Nat /\ nconn <= MaxConns /\ 1..nconn \subseteq Conn
  BY BoundsAssumption DEF TypeOK, Conn
<1>3. /\ \A u \in Thread \ {t} : stack'[u] = stack[u]
      /\ stack'[t] = <<Run(n)>> \o Tail(stack[t])
      /\ stack[t] \in Seq(Frame) /\ stack[t] # <<>> /\ stack[t][1] = Dial
  BY <1>1 DEF TypeOK, Calls, AtTop
<1>4. /\ stack'[t] # <<>> /\ Head(stack'[t]) = Run(n) /\ DOMAIN stack'[t] = DOMAIN stack[t]
      /\ stack'[t][1] = Run(n) /\ 1 \in DOMAIN stack'[t]
      /\ \A i \in DOMAIN stack[t] : i # 1 => stack'[t][i] = stack[t][i]
  BY <1>11, <1>3
<1>5. /\ n \notin 1..nconn /\ n \in 1..n
      /\ \A c \in 1..n : c # n => c \in 1..nconn
      /\ \A c \in 1..nconn : c \in 1..n
      /\ \A c \in Conn : c # n => sock'[c] = sock[c]
      /\ sock'[n] = "connecting"
  BY <1>0, <1>1, <1>10 DEF TypeOK
<1> HIDE DEF n
<1>6. \A u \in Thread \ {t} : \A c \in 1..n : AtTop(u, Run(c))' => c # n
  <2> SUFFICES ASSUME NEW u \in Thread \ {t}, stack[u] # <<>>, Head(stack[u]) = Run(n)
               PROVE  FALSE
    BY <1>3 DEF AtTop
  <2>1. Busy(u)
    BY <1>2
  <2> QED BY <1>5, <2>1, FramesDiffer, PendingTypes DEF Busy
<1>7. Apart'
  <2>1. \A c \in 1..n : AtTop(t, Run(c))' => c = n
    BY <1>4, FramesDiffer DEF AtTop
  <2> QED BY <1>1, <1>6, <2>1 DEF Apart, Thread
<1>8. ASSUME NEW u \in Thread PROVE Busy(u)'
  <2>1. CASE u = t
    BY <1>1, <1>4, <1>5, <2>1 DEF Busy
  <2>2. CASE u # t
    <3>1. \A c \in 1..nconn : sock'[c] = sock[c]
      BY <1>0, <1>5
    <3> QED BY <1>1, <1>2, <1>3, <1>5, <2>2, <3>1 DEF Busy
  <2> QED BY <2>1, <2>2
<1>9. ASSUME NEW c \in 1..n
      PROVE  \E u \in Thread : \E i \in DOMAIN stack'[u] : stack'[u][i] = Run(c)
  <2>1. CASE c = n
    BY <1>4, <2>1
  <2>2. CASE c # n
    <3>1. PICK u \in Thread : \E i \in DOMAIN stack[u] : stack[u][i] = Run(c)
      BY <1>2, <1>5, <2>2
    <3>2. PICK i \in DOMAIN stack[u] : stack[u][i] = Run(c)
      BY <3>1
    <3>3. u = t => i # 1
      BY <1>3, <3>2, FramesDiffer
    <3> QED BY <1>3, <1>4, <3>2, <3>3
  <2> QED BY <2>1, <2>2
<1> QED BY <1>7, <1>8, <1>9

\* A disconnection on top of calls below, whether it destroys or not.
LEMMA ClosesWorking ==
  ASSUME TypeOK, Working, NoConnectReturned, NEW t \in Thread, NEW c \in Conn \cup {NoConn},
         NEW code, NEW q \in Seq(Frame), NEW r, GoesDown(t, c, code, q \o r),
         \/ r = stack[t]
         \/ /\ stack[t] # <<>> /\ r = Tail(stack[t])
            /\ \A d : Head(stack[t]) # Run(d),
         UNCHANGED <<nconn, sock>>
  PROVE  Working' /\ NoConnectReturned'
<1>1. CASE ~heartbeatOpen'
  BY <1>1 DEF Working, NoConnectReturned
<1>2. CASE heartbeatOpen'
  <2> DEFINE w == <<Dial, Closing(c)>>
  <2>1. w \in Seq(Frame) /\ r \in Seq(Frame) /\ w # <<>> /\ Head(w) = Dial
    <3> DEFINE s == stack[t]
               d == Dial
               k == Closing(c)
    <3>1. s \in Seq(Frame)
      BY DEF TypeOK
    <3>2. d \in Frame /\ k \in Frame
      BY FrameTypes
    <3>3. r = s \/ (s # <<>> /\ r = Tail(s))
      OBVIOUS
    <3>4. w = <<d, k>>
      OBVIOUS
    <3> HIDE DEF s, d, k, w
    <3>5. w \in Seq(Frame) /\ w # <<>> /\ Head(w) = d /\ (s # <<>> => Tail(s) \in Seq(Frame))
      BY <3>1, <3>2, <3>4, PairAndRest
    <3>6. r \in Seq(Frame)
      BY <3>1, <3>3, <3>5
    <3> QED BY <3>5, <3>6 DEF d
  <2>2. heartbeatOpen' = heartbeatOpen /\ stack' = [stack EXCEPT ![t] = w \o (q \o r)]
    BY <1>2 DEF GoesDown, Calls
  <2> HIDE DEF w
  <2> DEFINE p == w \o q
  <2>3. /\ w \o (q \o r) = p \o r /\ p \in Seq(Frame) /\ p # <<>> /\ Head(p) = Dial
    BY <2>1
  <2> HIDE DEF p
  <2>4. stack' = [stack EXCEPT ![t] = p \o r]
    BY <2>2, <2>3
  <2> QED BY <2>2, <2>3, <2>4, GrowWorking DEF Pending
<1> QED BY <1>1, <1>2

\* disconnect(), from a handler, from reconnect() or from destroy().
LEMMA DisconnectWorking ==
  ASSUME TypeOK, Working, NoConnectReturned, NEW t \in Thread, NEW code, NEW q \in Pushes,
         Disconnect(t, code, q \o stack[t]), UNCHANGED <<nconn, sock>>
  PROVE  Working' /\ NoConnectReturned'
<1>1. q \in Seq(Frame) /\ (q # <<>> => Pending(Head(q)))
  BY PushesTypes DEF Pending
<1>2. CASE OnDisconnection(t, ws, code, q \o stack[t])
  <2>1. ws \in Conn \cup {NoConn} /\ GoesDown(t, ws, code, q \o stack[t])
    BY <1>2 DEF OnDisconnection, TypeOK
  <2> QED BY <1>1, <2>1, ClosesWorking
<1>3. CASE Calls(t, q \o stack[t]) /\ heartbeatOpen' = heartbeatOpen
  BY <1>1, <1>3, GrowWorking DEF Calls
<1> QED BY <1>2, <1>3 DEF Disconnect

\* The stacks and the sockets stay as they are, or a socket opens.
LEMMA QuietWorking ==
  ASSUME TypeOK, Working, NoConnectReturned, UNCHANGED <<stack, nconn>>,
         heartbeatOpen' => heartbeatOpen,
         \A d \in Conn : sock'[d] = sock[d] \/ sock'[d] = "open"
  PROVE  Working' /\ NoConnectReturned'
<1>1. "main" \in Thread /\ <<>> \in Seq(Frame)
  BY DEF Thread
<1>2. stack["main"] \in Seq(Frame)
  BY <1>1 DEF TypeOK
<1>3. <<>> \o stack["main"] = stack["main"]
  BY <1>2
<1>4. stack' = [stack EXCEPT !["main"] = <<>> \o stack["main"]]
  BY <1>1, <1>3 DEF TypeOK
<1> QED BY <1>1, <1>4, GrowWorking

LEMMA NotPending ==
  \A c : /\ ~Pending(Closing(c)) /\ ~Pending(Handing(c))
         /\ \A d : Run(d) \notin {Closing(c), Handing(c)}
BY DEF Pending, Closing, Handing, Dial, Destroying, Disconnected, Run

\* Of what a thread does by itself only a new connection is left.
LEMMA UnwindsWorking ==
  ASSUME TypeOK, Working, NoConnectReturned, NEW t \in Thread, Unwinds(t)
  PROVE  Working' /\ NoConnectReturned'
<1>1. CASE DestroyReturns(t)
  BY <1>1 DEF DestroyReturns, Working, NoConnectReturned
<1>2. CASE CloseReturns(t) \/ RunReturns(t) \/ HandingReturns(t)
  <2>1. heartbeatOpen' = heartbeatOpen
    BY <1>2 DEF CloseReturns, RunReturns, HandingReturns, connVars
  <2>2. HasErrorHandler /\ heartbeatOpen => FALSE
    <3> SUFFICES ASSUME Busy(t) PROVE FALSE
      BY DEF Working
    <3>1. CASE CloseReturns(t)
      <4>1. PICK c \in Conn : stack[t] # <<>> /\ Head(stack[t]) = Closing(c)
        BY <3>1 DEF CloseReturns, AtTop
      <4> QED BY <4>1, NotPending DEF Busy
    <3>2. CASE RunReturns(t)
      BY <3>2, FramesDiffer, PendingTypes DEF RunReturns, AtTop, Busy
    <3>3. CASE HandingReturns(t)
      <4>1. PICK c \in Conn : stack[t] # <<>> /\ Head(stack[t]) = Handing(c)
        BY <3>3 DEF HandingReturns, AtTop
      <4> QED BY <4>1, NotPending DEF Busy
    <3> QED BY <1>2, <3>1, <3>2, <3>3
  <2> QED BY <2>1, <2>2 DEF Working, NoConnectReturned
<1> QED BY <1>1, <1>2, ConnectWorking DEF Unwinds

\* The end of a connection attempt: a failed one is followed by another.
LEMMA UpgradesWorking ==
  ASSUME TypeOK, Working, NoConnectReturned, NEW t \in Thread, Upgrades(t)
  PROVE  Working' /\ NoConnectReturned'
<1>1. PICK c \in Conn : OnConnection(t, c) \/ OnError(t, c)
  BY DEF Upgrades
<1>2. CASE OnConnection(t, c)
  <2>1. /\ UNCHANGED <<stack, nconn, heartbeatOpen>>
        /\ sock' = [sock EXCEPT ![c] = "open"]
    BY <1>2 DEF OnConnection, threadVars
  <2>2. \A d \in Conn : sock'[d] = sock[d] \/ sock'[d] = "open"
    BY <2>1 DEF TypeOK
  <2> QED BY <2>1, <2>2, QuietWorking
<1>3. CASE OnError(t, c)
  <2>1. CASE ~HasErrorHandler
    BY <2>1 DEF Working, NoConnectReturned
  <2>2. CASE HasErrorHandler
    <3> DEFINE p == <<Dial>>
    <3>1. p \in Seq(Frame) /\ p # <<>> /\ Head(p) = Dial
      BY FrameTypes
    <3>2. /\ stack' = [stack EXCEPT ![t] = p \o stack[t]] /\ nconn' = nconn
          /\ heartbeatOpen' = heartbeatOpen /\ AtTop(t, Run(c))
          /\ \A d \in Conn : d # c => sock'[d] = sock[d]
      BY <1>3, <2>2 DEF OnError, Retries, Calls, TypeOK
    <3>3. \A d \in Conn : \/ sock'[d] = sock[d] \/ sock'[d] \in {"connecting", "open"}
                          \/ AtTop(t, Run(d)) /\ p # <<>>
      BY <3>2
    <3> HIDE DEF p
    <3> QED BY <3>1, <3>2, <3>3, GrowWorking DEF Pending
  <2> QED BY <2>1, <2>2
<1> QED BY <1>1, <1>2, <1>3

\* A message, and what the application does in its handler.
LEMMA MessagesWorking ==
  ASSUME TypeOK, Working, NoConnectReturned, NEW t \in Thread, NEW c \in Conn, Messages(t, c)
  PROVE  Working' /\ NoConnectReturned'
<1>1. CASE /\ \E q \in Pushes : Disconnect(t, 1000, q \o stack[t])
           /\ UNCHANGED <<nconn, sock>>
  BY <1>1, DisconnectWorking
<1>2. CASE UNCHANGED <<stack, nconn, sock, heartbeatOpen>>
  BY <1>2, QuietWorking
<1>3. CASE OnHello(t, c) \/ OnReady(t, c) \/ OnDispatch(t, c) \/ OnAck(t, c) \/ OnHeartbeatOp(t, c)
  BY <1>2, <1>3 DEF OnHello, OnReady, OnDispatch, OnAck, OnHeartbeatOp, hubVars, threadVars,
                    connVars
<1>4. CASE \/ OnReconnectOp(t, c) \/ HandlerReconnect(t, c) \/ HandlerDestroy(t, c)
           \/ HandlerDisconnect(t, c)
  <2>1. UNCHANGED <<nconn, sock>>
    BY <1>4 DEF OnReconnectOp, HandlerReconnect, HandlerDestroy, HandlerDisconnect, hubVars
  <2>2. \E q \in Pushes : Disconnect(t, 1000, q \o stack[t])
    BY <1>4, OpPushes, HandlerPushes DEF OnReconnectOp
  <2> QED BY <1>1, <2>1, <2>2
<1>5. CASE OnInvalidSession(t, c)
  <2>1. UNCHANGED <<nconn, sock>>
    BY <1>5 DEF OnInvalidSession, hubVars
  <2>2. \/ UNCHANGED <<stack, heartbeatOpen>>
        \/ \E q \in Pushes : Disconnect(t, 1000, q \o stack[t])
    BY <1>5, OpPushes DEF OnInvalidSession
  <2> QED BY <1>1, <1>2, <2>1, <2>2
<1> QED BY <1>3, <1>4, <1>5 DEF Messages

\* The heartbeat thread: its timeout is a reconnection.
LEMMA HeartbeatThreadWorking ==
  ASSUME TypeOK, OneThread, Working, NoConnectReturned, HeartbeatThread
  PROVE  Working' /\ NoConnectReturned'
<1>0. "beat" \in Thread
  BY DEF Thread
<1>1. CASE UNCHANGED <<stack, nconn, sock, heartbeatOpen>>
  BY <1>1, QuietWorking
<1>2. ASSUME NEW p \in Seq(Frame), p # <<>>, Pending(Head(p)), Calls("beat", p), ~TimedOut,
             UNCHANGED <<nconn, sock, heartbeatOpen>>
      PROVE  Working' /\ NoConnectReturned'
  <2>1. stack["beat"] = <<>> /\ p \o <<>> = p
    BY <1>2 DEF OneThread
  <2>2. stack' = [stack EXCEPT !["beat"] = p \o <<>>]
    BY <1>2, <2>1 DEF Calls
  <2> QED BY <1>0, <1>2, <2>1, <2>2, GrowWorking
<1>3. /\ <<Dial>> \in Seq(Frame) /\ Pending(Head(<<Dial>>)) /\ <<Dial>> # <<>>
      /\ <<Disconnected(ws), Dial>> \in Seq(Frame) /\ <<Disconnected(ws), Dial>> # <<>>
      /\ Pending(Head(<<Disconnected(ws), Dial>>))
  BY FrameTypes DEF Pending, TypeOK
<1>4. CASE HbTimesOut \/ HbCloses
  <2>1. ~TimedOut /\ UNCHANGED <<nconn, sock, heartbeatOpen>>
    BY <1>4 DEF HbTimesOut, HbCloses, TimedOut, connVars, hubVars
  <2>2. \/ UNCHANGED stack
        \/ Calls("beat", <<Dial>>) \/ Calls("beat", <<Disconnected(ws), Dial>>)
    BY <1>4 DEF HbTimesOut, HbCloses
  <2> DEFINE dial == <<Dial>>
             closes == <<Disconnected(ws), Dial>>
  <2>3. UNCHANGED stack \/ Calls("beat", dial) \/ Calls("beat", closes)
    BY <2>2
  <2>4. /\ dial \in Seq(Frame) /\ dial # <<>> /\ Pending(Head(dial))
        /\ closes \in Seq(Frame) /\ closes # <<>> /\ Pending(Head(closes))
    BY <1>3
  <2> HIDE DEF dial, closes
  <2> QED BY <1>1, <1>2, <2>1, <2>3, <2>4
<1>5. CASE HbForgets
  <2>1. PICK c \in Conn : /\ AtTop("beat", Disconnected(c))
                          /\ GoesDown("beat", c, 4009, Tail(stack["beat"]))
    BY <1>5 DEF HbForgets
  <2> DEFINE r == Tail(stack["beat"])
             q == <<>>
  <2>2. /\ stack["beat"] # <<>> /\ \A d : Head(stack["beat"]) # Run(d)
        /\ UNCHANGED <<nconn, sock>>
    BY <1>5, <2>1, FramesDiffer DEF AtTop, HbForgets, hubVars
  <2>3. r = q \o r /\ q \in Seq(Frame)
    BY <1>0, <2>2 DEF TypeOK
  <2>4. GoesDown("beat", c, 4009, q \o r)
    BY <2>1, <2>3
  <2>5. /\ c \in Conn \cup {NoConn}
        /\ \/ r = stack["beat"]
           \/ /\ stack["beat"] # <<>> /\ r = Tail(stack["beat"])
              /\ \A d : Head(stack["beat"]) # Run(d)
    BY <2>2
  <2> HIDE DEF q, r
  <2> QED BY <1>0, <2>2, <2>3, <2>4, <2>5, ClosesWorking
<1> QED BY <1>1, <1>4, <1>5
        DEF HeartbeatThread, HbLoop, HbWake, HbCheck, HbBeat, TimesOut, HbTerminate,
            connVars, hubVars

\* Until something stops the heartbeat thread no call of connect() has
\* returned, on either thread, whatever number of connections there were: each
\* reconnection runs a hub inside the ones before (reconnect(), gateway.cc).
THEOREM NestingCorrect == Spec => []NoConnectReturned
<1>1. Init => Working /\ NoConnectReturned
  BY DEF Init, Working, NoConnectReturned, Apart, Busy, Pending, Thread
<1>2. Working /\ NoConnectReturned /\ HeartbeatInv /\ [Next]_vars
        => Working' /\ NoConnectReturned'
  <2> SUFFICES ASSUME Working, NoConnectReturned, TypeOK, OneThread, [Next]_vars
               PROVE  Working' /\ NoConnectReturned'
    BY DEF HeartbeatInv
  <2>1. CASE UNCHANGED vars
    BY <2>1, QuietWorking DEF vars, threadVars, connVars, hubVars
  <2>2. ASSUME NEW t \in Thread, NEW c \in Conn, NEW code, ServerCloses(t, c, code)
        PROVE  Working' /\ NoConnectReturned'
    <3> DEFINE q == <<>>
    <3>1. /\ GoesDown(t, c, code, q \o stack[t]) /\ UNCHANGED <<nconn, sock>>
          /\ q \in Seq(Frame) /\ c \in Conn \cup {NoConn}
      BY <2>2 DEF ServerCloses, OnDisconnection, hubVars, TypeOK
    <3> HIDE DEF q
    <3> QED BY <3>1, ClosesWorking
  <2> QED BY <2>1, <2>2, UnwindsWorking, UpgradesWorking, MessagesWorking,
             HeartbeatThreadWorking DEF Next
<1> QED BY <1>1, <1>2, HeartbeatInvariant, PTL DEF Spec
=============================================================================
