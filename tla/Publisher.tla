------------------------------ MODULE Publisher ------------------------------
(***************************************************************************)
(* brokers::Publisher of src/broker.cc, used by one thread of               *)
(* tools/docker.cc: it connects, retries while TCP fails, runs the gateway, *)
(* whose messageHandler publishes every packet, and destroys the publisher  *)
(* when the gateway's connect() returns.  A thread of the sharded tool      *)
(* connects once more before its loop and ignores the result.               *)
(***************************************************************************)
EXTENDS Integers, Sequences

CONSTANTS
  MaxConnects,     \* bound on the calls of connect()
  MaxPackets,      \* bound on the packets the gateway hands over
  Types,           \* the names of events
  FirstUnchecked   \* whether the result of the first connect() is ignored

ASSUME MaxAssumption == MaxConnects \in Nat /\ MaxPackets \in Nat
ASSUME FirstAssumption == FirstUnchecked \in BOOLEAN

VARIABLES
  place,      \* where the thread is
  calling,    \* the AMQP call it is at, in connect() or the destructor
  ignoring,   \* whether the result of this connect() will be ignored
  events,     \* Publisher::events; the tool passes the same set every time
  nconn,      \* the connections made; Publisher::conn is the last one
  links,      \* what became of each of them
  channel,    \* whether the broker has channel 1 of each open
  declared,   \* whether the exchange was declared on each
  offered,    \* the packets given to publish()
  delivered   \* the events the broker took, by any connection

callVars == <<place, calling, ignoring, events>>
connVars == <<nconn, links, channel, declared>>
publisherVars == <<callVars, connVars, offered, delivered>>

Conn == 1..MaxConnects
Packet == [op : {"dispatch", "other"}, t : Types]
ConnectCalls == <<"new", "socket", "tcp", "login", "channel", "exchange">>
CloseCalls == <<"channel", "connection", "destroy">>

\* BROKER_OK; AMQP_STATUS_SOCKET_ERROR; any other error.
Result == {"ok", "socket", "other"}

PublisherTypeOK ==
  /\ place \in {"connect", "sleep", "run", "close", "exit", "end"}
  /\ calling \in DOMAIN ConnectCalls
  /\ ignoring \in BOOLEAN
  /\ events \subseteq Types
  /\ nconn \in 0..MaxConnects
  /\ links \in [Conn -> {"none", "made", "up", "lost", "closed"}]
  /\ channel \in [Conn -> BOOLEAN] /\ declared \in [Conn -> BOOLEAN]
  /\ offered \in Seq(Packet) /\ delivered \in Seq(Types)

PublisherInit ==
  /\ place = "connect" /\ calling = 1
  /\ ignoring = FirstUnchecked
  /\ events \in SUBSET Types
  /\ nconn = 0
  /\ links = [c \in Conn |-> "none"]
  /\ channel = [c \in Conn |-> FALSE] /\ declared = [c \in Conn |-> FALSE]
  /\ offered = <<>> /\ delivered = <<>>

----------------------------------------------------------------------------
(* connect(), and what the thread does with its result.                    *)

\* Mutation: every AMQP status error breaks out of the loop.
AfterTakesErrors(result) ==
  IF ignoring THEN "connect"
  ELSE CASE result \in {"ok", "socket"} -> "run" [] result = "other" -> "exit"

\* break, sleep, or exit(1), which ends the process; the first result of a
\* shard's thread is not looked at.
After(result) ==
  IF ignoring THEN "connect"
  ELSE CASE result = "ok" -> "run" [] result = "socket" -> "sleep" [] OTHER -> "exit"

\* Mutation: the next connect() starts where this one stopped.
ReturnsKeepsStep(result) ==
  /\ place' = After(result)
  /\ calling' = calling + 1
  /\ ignoring' = FALSE
  /\ UNCHANGED events

Returns(result) ==
  /\ place' = After(result)
  /\ calling' = 1
  /\ ignoring' = FALSE
  /\ UNCHANGED events

\* amqp_new_connection() overwrites conn: what it pointed to is not closed.
NewConnection ==
  /\ place = "connect" /\ ConnectCalls[calling] = "new" /\ nconn < MaxConnects
  /\ nconn' = nconn + 1
  /\ links' = [links EXCEPT ![nconn'] = "made"]
  /\ calling' = calling + 1
  /\ UNCHANGED <<place, ignoring, events, channel, declared, offered, delivered>>

\* A call succeeds; those after TCP need the link.
ConnectCall ==
  /\ place = "connect" /\ ConnectCalls[calling] # "new"
  /\ LET call == ConnectCalls[calling]
     IN  /\ call \in {"login", "channel", "exchange"} => links[nconn] = "up"
         /\ call = "exchange" => channel[nconn]
         /\ links' = IF call = "tcp" THEN [links EXCEPT ![nconn] = "up"] ELSE links
         /\ channel' = IF call = "channel" THEN [channel EXCEPT ![nconn] = TRUE] ELSE channel
         /\ declared' = IF call = "exchange" THEN [declared EXCEPT ![nconn] = TRUE] ELSE declared
  /\ \/ calling < Len(ConnectCalls) /\ calling' = calling + 1 /\ UNCHANGED <<place, ignoring, events>>
     \/ calling = Len(ConnectCalls) /\ Returns("ok")
  /\ UNCHANGED <<nconn, offered, delivered>>

\* A call fails and connect() returns: only amqp_socket_open() gives a status
\* error, which may be another than AMQP_STATUS_SOCKET_ERROR.
ConnectFails ==
  /\ place = "connect" /\ ConnectCalls[calling] # "new"
  /\ \/ Returns("other")
     \/ ConnectCalls[calling] = "tcp" /\ Returns("socket")
  /\ UNCHANGED <<connVars, offered, delivered>>

\* Five seconds later.
Wake ==
  /\ place = "sleep"
  /\ place' = "connect"
  /\ UNCHANGED <<calling, ignoring, events, connVars, offered, delivered>>

----------------------------------------------------------------------------
(* publish(), from the gateway's messageHandler, which ignores its result.  *)

\* Mutation: an empty set lets nothing through.
PassesListed(p) == p.op = "dispatch" /\ p.t \in events

Passes(p) == p.op = "dispatch" /\ (events # {} => p.t \in events)

\* The broker takes it if the connection and the channel are as they were; if
\* not, the call may or may not return an error, and it is lost either way.
Publishes(p) ==
  /\ place = "run" /\ Len(offered) < MaxPackets
  /\ offered' = Append(offered, p)
  /\ delivered' = IF Passes(p) /\ links[nconn] = "up" /\ channel[nconn]
                  THEN Append(delivered, p.t) ELSE delivered
  /\ UNCHANGED <<callVars, connVars>>

----------------------------------------------------------------------------
(* The destructor.                                                         *)

\* The gateway's connect() returns and with it the thread's function.
GatewayReturns ==
  /\ place = "run"
  /\ place' = "close"
  /\ UNCHANGED <<calling, ignoring, events, connVars, offered, delivered>>

\* The connection is closed by the second call; the last one only frees it.
CloseCall ==
  /\ place = "close"
  /\ LET call == CloseCalls[calling]
     IN  /\ call # "destroy" => links[nconn] = "up"
         /\ call = "channel" => channel[nconn]
         /\ channel' = IF call = "channel" THEN [channel EXCEPT ![nconn] = FALSE] ELSE channel
         /\ links' = IF call = "connection" THEN [links EXCEPT ![nconn] = "closed"] ELSE links
  /\ \/ calling < Len(CloseCalls) /\ calling' = calling + 1 /\ place' = place
     \/ calling = Len(CloseCalls) /\ calling' = 1 /\ place' = "end"
  /\ UNCHANGED <<ignoring, events, nconn, declared, offered, delivered>>

\* A close fails: the destructor returns before amqp_destroy_connection().
CloseFails ==
  /\ place = "close" /\ CloseCalls[calling] # "destroy"
  /\ place' = "end" /\ calling' = 1
  /\ UNCHANGED <<ignoring, events, connVars, offered, delivered>>

----------------------------------------------------------------------------
(* The broker and the network.                                             *)

\* The broker closes channel 1 of a connection, say because the exchange is gone.
ChannelClosed(c) ==
  /\ links[c] = "up" /\ channel[c]
  /\ channel' = [channel EXCEPT ![c] = FALSE]
  /\ UNCHANGED <<callVars, nconn, links, declared, offered, delivered>>

ConnLost(c) ==
  /\ links[c] = "up"
  /\ links' = [links EXCEPT ![c] = "lost"]
  /\ UNCHANGED <<callVars, nconn, channel, declared, offered, delivered>>

PublisherNext ==
  \/ NewConnection \/ ConnectCall \/ ConnectFails \/ Wake
  \/ \E p \in Packet : Publishes(p)
  \/ GatewayReturns \/ CloseCall \/ CloseFails
  \/ place # "exit" /\ \E c \in Conn : ChannelClosed(c) \/ ConnLost(c)

PublisherSpec == PublisherInit /\ [][PublisherNext]_publisherVars
----------------------------------------------------------------------------
(* Properties.                                                             *)

\* The gateway only runs, and publishes, on a connection whose setup went all
\* the way, whatever failed in the attempts before and whichever of them was
\* not looked at.
ReadyBeforePublish == place \in {"run", "close"} => nconn > 0 /\ declared[nconn]

\* What broker.h, line 58, promises to send out.
Wanted(p) == p.op = "dispatch" /\ (events = {} \/ p.t \in events)

\* The delivered events are those of the wanted packets, in the order the
\* gateway handed them over: at says which packet each of them is.
WantedInOrder ==
  \E at \in [DOMAIN delivered -> DOMAIN offered] :
    /\ \A i, j \in DOMAIN delivered : i < j => at[i] < at[j]
    /\ \A i \in DOMAIN delivered : delivered[i] = offered[at[i]].t
    /\ \A k \in DOMAIN offered :
         Wanted(offered[k]) <=> \E i \in DOMAIN delivered : at[i] = k

\* As long as that connection and its channel are up, the broker has every
\* packet that is wanted, in order and once, and nothing else.
NothingLost == place = "run" /\ links[nconn] = "up" /\ channel[nconn] => WantedInOrder
=============================================================================
