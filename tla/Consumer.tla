------------------------------ MODULE Consumer ------------------------------
(***************************************************************************)
(* brokers::Consumer of src/broker.cc: connect() starts a detached thread   *)
(* that sets up an AMQP connection of its own and receives on it, while the *)
(* application destroys the object whenever it likes.  The error handler    *)
(* may call connect() again, as the one of tools/docker.cc does, and so     *)
(* start another thread.  What a thread does with the members of the object *)
(* after the destructor is undefined: it is any of the things a build does. *)
(*                                                                         *)
(* The broker routes every message of an event to the queues bound to it;   *)
(* what it sends on a connection, messages and at the end perhaps a method  *)
(* that ends the channel or the connection, is the stream of that thread.   *)
(***************************************************************************)
EXTENDS Integers, Sequences, FiniteSets

CONSTANTS
  MaxThreads,      \* bound on the calls of connect()
  Events,          \* how many events connect() is given
  MaxMessages,     \* bound on the messages published
  MemoryReused     \* whether the destroyed object's memory is written to

ASSUME CountsAssumption == MaxThreads \in Nat /\ Events \in Nat /\ MaxMessages \in Nat
ASSUME MemoryAssumption == MemoryReused \in BOOLEAN

VARIABLES
  open,       \* Consumer::open
  errorHandler,  \* Consumer::errorHandler: what onError() was given
  destroyed,  \* whether ~Consumer() has run
  started,    \* how many threads connect() has started
  pc,         \* where each thread is
  step,       \* the AMQP call a thread setting up, or closing, is at
  link,       \* each thread's connection: "none", "up" or "lost"
  bound,      \* the events each thread's queue is bound to
  stream,     \* what the broker has sent to each thread and it has not read
  published,  \* how many messages were published
  routed,     \* the messages routed to each thread's queue
  handled,    \* the messages each thread gave to the messageHandler
  late,       \* how many of those after the destructor
  reported,   \* the errors each thread gave to the errorHandler
  ended       \* whether the process has ended

objectVars == <<open, errorHandler, destroyed, started>>
brokerVars == <<link, bound, stream, published, routed>>
outputVars == <<handled, late, reported, ended>>
vars == <<objectVars, pc, step, brokerVars, outputVars>>

Thread == 1..MaxThreads
Message == 1..MaxMessages
EndMethod == 0    \* channel.close, connection.close or basic.cancel: all break the loop
ErrorType == {"tcp_socket", "status", "rpc"}

\* No handler, one that only returns, and the two of tools/docker.cc: one that connects
\* again after some errors, one that ends the process.
Handlers == {"none", "returns", "retries", "exits"}

Locations == {"none", "setup", "head", "consume", "wait", "cleanup", "retry",
              "clean", "failed", "silent"}
Exited(t) == pc[t] \in {"clean", "failed", "silent"}

\* The AMQP calls before the loop, a bind and a consume for each event.
Setup == [i \in 1..(6 + 2 * Events) |->
            IF i <= 6
            THEN <<"socket", "tcp", "login", "channel", "exchange", "queue">>[i]
            ELSE IF i % 2 = 1 THEN "bind" ELSE "subscribe"]

\* The AMQP calls after the loop.
Cleanup == <<"channel", "connection", "destroy">>

TypeOK ==
  /\ {open, destroyed, ended} \subseteq BOOLEAN
  /\ errorHandler \in Handlers
  /\ started \in 0..MaxThreads
  /\ pc \in [Thread -> Locations]
  /\ step \in [Thread -> DOMAIN Setup \cup DOMAIN Cleanup]
  /\ link \in [Thread -> {"none", "up", "lost"}]
  /\ bound \in [Thread -> SUBSET (1..Events)]
  /\ stream \in [Thread -> Seq(Message \cup {EndMethod})]
  /\ published \in 0..MaxMessages
  /\ routed \in [Thread -> Seq(Message)]
  /\ handled \in [Thread -> Seq(Message)]
  /\ late \in [Thread -> Nat]
  /\ reported \in [Thread -> Seq(ErrorType)]

Init ==
  /\ open = TRUE
  /\ errorHandler \in Handlers
  /\ destroyed = FALSE
  /\ started = 0
  /\ pc = [t \in Thread |-> "none"]
  /\ step = [t \in Thread |-> 1]
  /\ link = [t \in Thread |-> "none"]
  /\ bound = [t \in Thread |-> {}]
  /\ stream = [t \in Thread |-> <<>>]
  /\ published = 0
  /\ routed = [t \in Thread |-> <<>>]
  /\ handled = [t \in Thread |-> <<>>]
  /\ late = [t \in Thread |-> 0]
  /\ reported = [t \in Thread |-> <<>>]
  /\ ended = FALSE

----------------------------------------------------------------------------
(* The object.                                                             *)

\* connect() starts the next thread and returns at once.
Starts ==
  /\ started < MaxThreads
  /\ started' = started + 1

\* The application's own call.
Connect ==
  /\ ~ended /\ ~destroyed /\ started = 0
  /\ Starts
  /\ pc' = [pc EXCEPT ![started'] = "setup"]
  /\ UNCHANGED <<open, errorHandler, destroyed, step, brokerVars, outputVars>>

\* ~Consumer(): nothing waits for the threads.
Destroy ==
  /\ ~ended /\ ~destroyed /\ started > 0
  /\ open' = FALSE
  /\ destroyed' = TRUE
  /\ UNCHANGED <<errorHandler, started, pc, step, brokerVars, outputVars>>

\* What a thread may read in open: the object may be gone.
OpenReads == IF destroyed /\ MemoryReused THEN BOOLEAN ELSE {open}

----------------------------------------------------------------------------
(* The thread: errors.                                                     *)

\* The handler of the sharded tool connects again when a socket could not be opened or
\* used; after any other error it ends the process, as the other handler always does.
RetriesAfter(type, status) ==
  errorHandler = "retries" /\ type = "status" /\ status = "socket error"
ExitsAfter(type, status) ==
  errorHandler = "exits" \/ (errorHandler = "retries" /\ ~RetriesAfter(type, status))

\* Mutation: the return after errorHandler(e) is missing.
FailsNoReturn(t, type) ==
  /\ reported' = IF errorHandler # "none" THEN [reported EXCEPT ![t] = Append(@, type)] ELSE reported
  /\ UNCHANGED <<objectVars, pc, step, ended>>

\* An AMQP call failed: errorHandler(e), which may go to sleep before it calls connect(),
\* and return.  The connection is not destroyed.  The handler of a destroyed object may
\* be called all the same, or not, or bring the process down.
Fails(t, type) ==
  /\ \/ /\ errorHandler # "none"
        /\ reported' = [reported EXCEPT ![t] = Append(@, type)]
        /\ \E status \in {"socket error", "other"} :
             /\ pc' = [pc EXCEPT ![t] = IF RetriesAfter(type, status) THEN "retry" ELSE "failed"]
             /\ ended' = ExitsAfter(type, status)
     \/ /\ errorHandler = "none" \/ destroyed
        /\ pc' = [pc EXCEPT ![t] = "failed"]
        /\ ended' \in {FALSE, destroyed}
        /\ UNCHANGED reported
  /\ UNCHANGED <<objectVars, step>>

\* Mutation: the thread goes on after the errorHandler has connected again.
RetryNoReturn(t) ==
  /\ ~ended /\ pc[t] = "retry"
  /\ Starts
  /\ pc' = [pc EXCEPT ![t] = "setup", ![started'] = "setup"]
  /\ UNCHANGED <<open, errorHandler, destroyed, step, brokerVars, outputVars>>

\* The errorHandler wakes up and connects again; what it does so with may be gone.
Retry(t) ==
  /\ ~ended /\ pc[t] = "retry"
  /\ \/ /\ Starts
        /\ pc' = [pc EXCEPT ![t] = "failed", ![started'] = "setup"]
        /\ UNCHANGED ended
     \/ /\ destroyed
        /\ ended' = TRUE
        /\ UNCHANGED <<started, pc>>
  /\ UNCHANGED <<open, errorHandler, destroyed, step, brokerVars, handled, late, reported>>

----------------------------------------------------------------------------
(* The thread: setup, loop and cleanup.                                    *)

ErrorOf(call) ==
  CASE call = "socket" -> "tcp_socket"
    [] call = "tcp" -> "status"
    [] OTHER -> "rpc"

\* Mutation: i <= events.size()
AdvancesOnePast(t) ==
  IF step[t] <= Len(Setup)
  THEN pc' = pc /\ step' = [step EXCEPT ![t] = @ + 1]
  ELSE pc' = [pc EXCEPT ![t] = "head"] /\ step' = [step EXCEPT ![t] = 1]

\* The next call of the setup, or the loop.
Advances(t) ==
  IF step[t] < Len(Setup)
  THEN pc' = pc /\ step' = [step EXCEPT ![t] = @ + 1]
  ELSE pc' = [pc EXCEPT ![t] = "head"] /\ step' = [step EXCEPT ![t] = 1]

\* A call of the setup succeeds.  TCP brings the link up, a bind subscribes the
\* queue to its event.
SetupCall(t) ==
  /\ ~ended /\ pc[t] = "setup"
  /\ LET call == Setup[step[t]]
     IN  /\ call \in {"socket", "tcp"} \/ link[t] = "up"
         /\ link' = IF call = "tcp" THEN [link EXCEPT ![t] = "up"] ELSE link
         /\ bound' = IF call = "bind"
                     THEN [bound EXCEPT ![t] = @ \cup {(step[t] - 5) \div 2}]
                     ELSE bound
  /\ Advances(t)
  /\ UNCHANGED <<objectVars, stream, published, routed, outputVars>>

\* It fails, or the queue's name cannot be copied, which reports nothing.
SetupFails(t) ==
  /\ ~ended /\ pc[t] = "setup"
  /\ \/ Fails(t, ErrorOf(Setup[step[t]]))
     \/ /\ Setup[step[t]] = "queue"
        /\ pc' = [pc EXCEPT ![t] = "silent"]
        /\ UNCHANGED <<objectVars, step, reported, ended>>
  /\ UNCHANGED <<brokerVars, handled, late>>

\* Mutation: while (true)
LoopHeadForever(t) ==
  /\ ~ended /\ pc[t] = "head"
  /\ pc' = [pc EXCEPT ![t] = "consume"]
  /\ UNCHANGED <<objectVars, step, brokerVars, outputVars>>

\* while (open)
LoopHead(t) ==
  /\ ~ended /\ pc[t] = "head"
  /\ \E isOpen \in OpenReads :
       pc' = [pc EXCEPT ![t] = IF isOpen THEN "consume" ELSE "cleanup"]
  /\ UNCHANGED <<objectVars, step, brokerVars, outputVars>>

\* messageHandler(); that of a destroyed object may be called all the same, or not, or
\* bring the process down.
HandleMessage(t, m) ==
  \/ /\ handled' = [handled EXCEPT ![t] = Append(@, m)]
     /\ late' = IF destroyed THEN [late EXCEPT ![t] = @ + 1] ELSE late
     /\ UNCHANGED ended
  \/ /\ destroyed
     /\ ended' \in BOOLEAN
     /\ UNCHANGED <<handled, late>>

\* Mutation: the reply is not looked at, and the envelope of the last message is handled
\* again.
ConsumeUnchecked(t) ==
  /\ ~ended /\ pc[t] = "consume"
  /\ stream[t] # <<>> \/ link[t] = "lost"
  /\ LET m == IF stream[t] # <<>> /\ Head(stream[t]) # EndMethod THEN Head(stream[t])
              ELSE IF handled[t] # <<>> THEN handled[t][Len(handled[t])] ELSE 1
     IN  HandleMessage(t, m)
  /\ stream' = [stream EXCEPT ![t] = IF @ = <<>> THEN @ ELSE Tail(@)]
  /\ pc' = [pc EXCEPT ![t] = "head"]
  /\ UNCHANGED <<objectVars, step, link, bound, published, routed, reported>>

\* amqp_consume_message() without a timeout: it blocks until there is a
\* message, or a method it cannot use and puts back, or until the link is lost;
\* that error is not one the loop tests for, so the loop goes on.
Consume(t) ==
  /\ ~ended /\ pc[t] = "consume"
  /\ \/ /\ stream[t] # <<>> /\ Head(stream[t]) \in Message
        /\ HandleMessage(t, Head(stream[t]))
        /\ stream' = [stream EXCEPT ![t] = Tail(@)]
        /\ pc' = [pc EXCEPT ![t] = "head"]
     \/ /\ stream[t] # <<>> /\ Head(stream[t]) = EndMethod
        /\ pc' = [pc EXCEPT ![t] = "wait"]
        /\ UNCHANGED <<handled, late, ended, stream>>
     \/ /\ stream[t] = <<>> /\ link[t] = "lost"
        /\ pc' = [pc EXCEPT ![t] = "head"]
        /\ UNCHANGED <<handled, late, ended, stream>>
  /\ UNCHANGED <<objectVars, step, link, bound, published, routed, reported>>

\* amqp_simple_wait_frame() takes the method that was put back; each of them
\* breaks out of the loop.
WaitFrame(t) ==
  /\ ~ended /\ pc[t] = "wait"
  /\ stream' = [stream EXCEPT ![t] = Tail(@)]
  /\ pc' = [pc EXCEPT ![t] = "cleanup"]
  /\ UNCHANGED <<objectVars, step, link, bound, published, routed, outputVars>>

\* A call after the loop succeeds; the last one frees the connection.
CleanupCall(t) ==
  /\ ~ended /\ pc[t] = "cleanup"
  /\ Cleanup[step[t]] = "destroy" \/ link[t] = "up"
  /\ IF step[t] < Len(Cleanup)
     THEN step' = [step EXCEPT ![t] = @ + 1] /\ UNCHANGED <<pc, link>>
     ELSE /\ pc' = [pc EXCEPT ![t] = "clean"]
          /\ link' = [link EXCEPT ![t] = "none"]
          /\ UNCHANGED step
  /\ UNCHANGED <<objectVars, bound, stream, published, routed, outputVars>>

CleanupFails(t) ==
  /\ ~ended /\ pc[t] = "cleanup"
  /\ Fails(t, IF Cleanup[step[t]] = "destroy" THEN "status" ELSE "rpc")
  /\ UNCHANGED <<brokerVars, handled, late>>

----------------------------------------------------------------------------
(* The broker.                                                             *)

\* Whether what the broker sends still reaches thread t.
Sends(t) == link[t] = "up" /\ \A i \in DOMAIN stream[t] : stream[t][i] # EndMethod

\* A message of event e is published: to every queue bound to e.
Publish(e) ==
  /\ ~ended /\ published < MaxMessages
  /\ published' = published + 1
  /\ LET gets == {t \in Thread : e \in bound[t] /\ Sends(t)}
     IN  /\ stream' = [t \in Thread |-> IF t \in gets THEN Append(stream[t], published') ELSE stream[t]]
         /\ routed' = [t \in Thread |-> IF t \in gets THEN Append(routed[t], published') ELSE routed[t]]
  /\ UNCHANGED <<objectVars, pc, step, link, bound, outputVars>>

\* It ends the channel, the connection or the subscription of thread t.
BrokerEnds(t) ==
  /\ ~ended /\ pc[t] \in {"head", "consume"} /\ Sends(t)
  /\ stream' = [stream EXCEPT ![t] = Append(@, EndMethod)]
  /\ UNCHANGED <<objectVars, pc, step, link, bound, published, routed, outputVars>>

\* The TCP connection breaks, with what of the stream has not arrived.
LinkLost(t) ==
  /\ ~ended /\ link[t] = "up" /\ ~Exited(t)
  /\ link' = [link EXCEPT ![t] = "lost"]
  /\ \E n \in 0..Len(stream[t]) :
       /\ pc[t] = "wait" => n > 0
       /\ stream' = [stream EXCEPT ![t] = SubSeq(@, 1, n)]
  /\ UNCHANGED <<objectVars, pc, step, bound, published, routed, outputVars>>

----------------------------------------------------------------------------
ThreadStep(t) ==
  \/ SetupCall(t)
  \/ SetupFails(t)
  \/ Retry(t)
  \/ LoopHead(t)
  \/ Consume(t)
  \/ WaitFrame(t)
  \/ CleanupCall(t)
  \/ CleanupFails(t)

Next ==
  \/ Connect
  \/ Destroy
  \/ \E t \in Thread : ThreadStep(t)
  \/ \E e \in 1..Events : Publish(e)
  \/ \E t \in Thread : BrokerEnds(t) \/ LinkLost(t)

Spec == Init /\ [][Next]_vars

\* Threads are scheduled and AMQP calls other than a consume return.
FairSpec == Spec /\ \A t \in Thread : WF_vars(ThreadStep(t))

----------------------------------------------------------------------------
(* Properties.                                                             *)

\* Until the destructor, and while a link is up, what the thread has handled and then
\* what it can still read are the messages routed to its queue, in order and each once,
\* and after them at most the method that ends the connection.
NothingSkipped ==
  ~destroyed =>
    \A t \in Thread :
      link[t] = "up" =>
        handled[t] \o stream[t] \in {routed[t], Append(routed[t], EndMethod)}

\* A thread that outlives the object calls its messageHandler at most once, whatever
\* becomes of the call, if nothing else is written where the object was: open is read at
\* every turn.
AtMostOneLate == ~MemoryReused => \A t \in Thread : late[t] <= 1

\* Only a thread of which an AMQP call failed, and that ends or will connect again, has
\* reported an error, and just one; while the object lives each of those has.  One that the
\* broker ended and that freed its connection, and one that ran out of memory, has
\* reported none.
EveryFailureReported ==
  \A t \in Thread :
    /\ reported[t] # <<>> => pc[t] \in {"retry", "failed"} /\ Len(reported[t]) = 1
    /\ pc[t] = "failed" /\ errorHandler # "none" /\ ~destroyed => reported[t] # <<>>
    /\ pc[t] = "clean" => link[t] = "none"

\* Retrying never leaves two threads at work on one object: the one that
\* failed only calls connect() on its way out.
OneThreadAtWork ==
  Cardinality({t \in Thread : pc[t] # "none" /\ ~Exited(t)}) <= 1

\* Once the object is destroyed, a thread that is in its loop and has something
\* to read, or nothing to wait for, leaves it and ends.
LeavesLoop ==
  \A t \in Thread :
    /\ ~MemoryReused /\ destroyed
    /\ \/ pc[t] = "head"
       \/ pc[t] = "consume" /\ (stream[t] # <<>> \/ link[t] = "lost")
    ~>
      Exited(t) \/ pc[t] = "retry" \/ ended

----------------------------------------------------------------------------
(* What include/broker.h says, and the code does not do.                    *)

\* "Called when there is an error" (onError, line 101): the loss of the link is
\* reported, or the thread ends.
LinkLossReported ==
  \A t \in Thread :
    (link[t] = "lost" /\ errorHandler # "none") ~> (reported[t] # <<>> \/ Exited(t) \/ ended)
=============================================================================
