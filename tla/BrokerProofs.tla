---------------------------- MODULE BrokerProofs ----------------------------
(* What is proved of Consumer and Publisher, the two classes of broker.cc,  *)
(* for every value of their constants.                                     *)
EXTENDS Consumer, Publisher, FiniteSetTheorems, SequenceTheorems, TLAPS

\* What the counts of the threads need of the variables.
Shape ==
  /\ open \in BOOLEAN /\ destroyed \in BOOLEAN
  /\ started \in Nat
  /\ pc \in [Thread -> Locations]
  /\ late \in [Thread -> Nat]

\* A thread that was not started is nowhere.
Unstarted == \A t \in Thread : t > started => pc[t] = "none"

\* The flag tells whether the object is alive.
OpenWhileAlive == open <=> ~destroyed

\* A thread that has called its handler late has returned to the head of its
\* loop and, open being FALSE, has not entered it again.
LateLeaves ==
  \A t \in Thread :
    late[t] # 0 =>
      destroyed /\ late[t] = 1 /\ pc[t] \in Locations \ {"none", "setup", "consume"}

LateInv == Shape /\ Unstarted /\ OpenWhileAlive /\ LateLeaves

\* A started thread is fresh.
LEMMA StartsFresh ==
  ASSUME LateInv, Starts
  PROVE  /\ started' \in Thread /\ started' \in Nat /\ started' > started
         /\ pc[started'] = "none" /\ late[started'] = 0
BY CountsAssumption DEF Starts, LateInv, Shape, Unstarted, LateLeaves, Thread

\* The two calls of connect(), the application's and the error handler's.
LEMMA StartKeepsLateInv ==
  ASSUME LateInv, Connect \/ \E t \in Thread : Retry(t)
  PROVE  LateInv'
<1>0. CASE UNCHANGED <<open, destroyed, started, pc, late>>
  BY <1>0 DEF LateInv, Shape, Unstarted, OpenWhileAlive, LateLeaves
<1> SUFFICES ASSUME ~UNCHANGED <<open, destroyed, started, pc, late>> PROVE LateInv'
  BY <1>0
<1>1. Starts /\ UNCHANGED <<open, destroyed, late>>
  BY DEF Connect, Retry, outputVars
<1>2. /\ started' \in Thread /\ started' \in Nat /\ started' > started
      /\ pc[started'] = "none" /\ late[started'] = 0
  BY <1>1, StartsFresh
<1>3. CASE Connect
  <2>1. pc' = [pc EXCEPT ![started'] = "setup"]
    BY <1>3 DEF Connect
  <2> QED BY <1>1, <1>2, <2>1
          DEF LateInv, Shape, Unstarted, OpenWhileAlive, LateLeaves, Locations, Thread
<1>4. CASE \E t \in Thread : Retry(t)
  <2>1. PICK t \in Thread : pc[t] = "retry"
                            /\ pc' = [pc EXCEPT ![t] = "failed", ![started'] = "setup"]
    BY <1>1, <1>4 DEF Retry
  <2>2. t <= started /\ t # started'
    BY <1>2, <2>1 DEF LateInv, Shape, Unstarted, Thread
  <2> QED BY <1>1, <1>2, <2>1, <2>2
          DEF LateInv, Shape, Unstarted, OpenWhileAlive, LateLeaves, Locations, Thread
<1> QED BY <1>3, <1>4

\* The destructor clears the flag.
LEMMA DestroyKeepsLateInv ==
  ASSUME LateInv, Destroy
  PROVE  LateInv'
BY DEF Destroy, outputVars, LateInv, Shape, Unstarted, OpenWhileAlive, LateLeaves

\* A thread's move to another place, when it is neither a start nor a call of
\* the handler.
LEMMA MoveKeepsLateInv ==
  ASSUME LateInv, NEW t \in Thread, NEW l \in Locations, pc[t] # "none",
         pc' = [pc EXCEPT ![t] = l], UNCHANGED <<objectVars, late>>,
         l \in {"none", "setup", "consume"} => late[t] = 0
  PROVE  LateInv'
BY DEF objectVars, LateInv, Shape, Unstarted, OpenWhileAlive, LateLeaves

\* The messageHandler is called by a thread that was never late before.
LEMMA HandlerKeepsLateInv ==
  ASSUME LateInv, NEW t \in Thread, NEW m, pc[t] = "consume", HandleMessage(t, m),
         pc' = [pc EXCEPT ![t] = "head"], UNCHANGED objectVars
  PROVE  LateInv'
<1>1. late[t] = 0
  BY DEF LateInv, LateLeaves
<1>2. late' = late \/ (destroyed /\ late' = [late EXCEPT ![t] = 1])
  BY <1>1 DEF HandleMessage, LateInv, Shape
<1> QED BY <1>1, <1>2
        DEF objectVars, LateInv, Shape, Unstarted, OpenWhileAlive, LateLeaves, Locations

\* A step of a thread, where nothing is written to the destroyed object.
LEMMA ThreadKeepsLateInv ==
  ASSUME LateInv, ~MemoryReused, NEW t \in Thread, ThreadStep(t)
  PROVE  LateInv'
<1> USE DEF Locations
<1>1. CASE SetupCall(t)
  <2>1. pc[t] = "setup" /\ late[t] = 0 /\ UNCHANGED <<objectVars, late>>
    BY <1>1 DEF SetupCall, LateInv, LateLeaves, outputVars
  <2>2. pc' = pc \/ pc' = [pc EXCEPT ![t] = "head"]
    BY <1>1 DEF SetupCall, Advances
  <2>3. pc' = [pc EXCEPT ![t] = "setup"] \/ pc' = [pc EXCEPT ![t] = "head"]
    BY <2>1, <2>2 DEF LateInv, Shape
  <2> QED BY <2>1, <2>3, MoveKeepsLateInv
<1>2. CASE SetupFails(t)
  <2>1. pc[t] = "setup" /\ UNCHANGED <<objectVars, late>>
    BY <1>2 DEF SetupFails, Fails
  <2>2. \E l \in {"retry", "failed", "silent"} : pc' = [pc EXCEPT ![t] = l]
    <3>1. CASE Fails(t, ErrorOf(Setup[step[t]]))
      BY <3>1 DEF Fails
    <3>2. CASE pc' = [pc EXCEPT ![t] = "silent"]
      BY <3>2
    <3> QED BY <1>2, <3>1, <3>2 DEF SetupFails
  <2> QED BY <2>1, <2>2, MoveKeepsLateInv
<1>3. CASE Retry(t)
  BY <1>3, StartKeepsLateInv
<1>4. CASE LoopHead(t)
  <2>1. pc[t] = "head" /\ UNCHANGED <<objectVars, late>>
    BY <1>4 DEF LoopHead, outputVars
  <2>2. pc' = [pc EXCEPT ![t] = IF open THEN "consume" ELSE "cleanup"]
    BY <1>4 DEF LoopHead, OpenReads
  <2>3. open => late[t] = 0
    BY DEF LateInv, OpenWhileAlive, LateLeaves
  <2>4. CASE open
    BY <2>1, <2>2, <2>3, <2>4, MoveKeepsLateInv
  <2>5. CASE ~open
    BY <2>1, <2>2, <2>5, MoveKeepsLateInv
  <2> QED BY <2>4, <2>5
<1>5. CASE Consume(t)
  <2>1. pc[t] = "consume" /\ UNCHANGED objectVars
    BY <1>5 DEF Consume
  <2>2. CASE HandleMessage(t, Head(stream[t])) /\ pc' = [pc EXCEPT ![t] = "head"]
    BY <2>1, <2>2, HandlerKeepsLateInv
  <2>3. CASE (\E l \in {"wait", "head"} : pc' = [pc EXCEPT ![t] = l]) /\ UNCHANGED late
    BY <2>1, <2>3, MoveKeepsLateInv
  <2> QED BY <1>5, <2>2, <2>3 DEF Consume
<1>6. CASE WaitFrame(t)
  <2>1. pc[t] = "wait" /\ pc' = [pc EXCEPT ![t] = "cleanup"] /\ UNCHANGED <<objectVars, late>>
    BY <1>6 DEF WaitFrame, outputVars
  <2> QED BY <2>1, MoveKeepsLateInv
<1>7. CASE CleanupCall(t)
  <2>1. pc[t] = "cleanup" /\ UNCHANGED <<objectVars, late>>
    BY <1>7 DEF CleanupCall, outputVars
  <2>2. pc' = [pc EXCEPT ![t] = "cleanup"] \/ pc' = [pc EXCEPT ![t] = "clean"]
    BY <1>7, <2>1 DEF CleanupCall, LateInv, Shape
  <2> QED BY <2>1, <2>2, MoveKeepsLateInv
<1>8. CASE CleanupFails(t)
  <2>1. pc[t] = "cleanup" /\ UNCHANGED <<objectVars, late>>
    BY <1>8 DEF CleanupFails, Fails
  <2>2. \E l \in {"retry", "failed"} : pc' = [pc EXCEPT ![t] = l]
    BY <1>8 DEF CleanupFails, Fails
  <2> QED BY <2>1, <2>2, MoveKeepsLateInv
<1> QED BY <1>1, <1>2, <1>3, <1>4, <1>5, <1>6, <1>7, <1>8 DEF ThreadStep

\* Whatever the number of threads, events and messages, a thread that outlives
\* its Consumer calls the messageHandler at most once more, if the memory of
\* the object is left alone.
THEOREM LateCorrect == Spec => []AtMostOneLate
<1>1. CASE MemoryReused
  <2>1. AtMostOneLate
    BY <1>1 DEF AtMostOneLate
  <2> QED BY <2>1, PTL
<1>2. CASE ~MemoryReused
  <2>1. Init => LateInv
    <3>1. Init => Shape
      <4>1. Init => pc \in [Thread -> Locations] /\ late \in [Thread -> Nat]
        BY DEF Init, Locations
      <4>2. Init => open \in BOOLEAN /\ destroyed \in BOOLEAN
        BY Zenon DEF Init
      <4>3. Init => started \in Nat
        BY DEF Init
      <4> QED BY <4>1, <4>2, <4>3 DEF Shape
    <3>2. Init => Unstarted /\ OpenWhileAlive /\ LateLeaves
      BY DEF Init, Unstarted, OpenWhileAlive, LateLeaves
    <3> QED BY <3>1, <3>2 DEF LateInv
  <2>2. LateInv /\ [Next]_vars => LateInv'
    <3> SUFFICES ASSUME LateInv, [Next]_vars PROVE LateInv'
      OBVIOUS
    <3>1. CASE Connect
      BY <3>1, StartKeepsLateInv
    <3>2. CASE Destroy
      BY <3>2, DestroyKeepsLateInv
    <3>3. CASE \E t \in Thread : ThreadStep(t)
      BY <1>2, <3>3, ThreadKeepsLateInv
    <3>4. CASE \/ \E e \in 1..Events : Publish(e)
               \/ \E t \in Thread : BrokerEnds(t) \/ LinkLost(t)
               \/ UNCHANGED vars
      <4>1. UNCHANGED <<objectVars, pc, late>>
        BY <3>4 DEF Publish, BrokerEnds, LinkLost, vars, outputVars
      <4> QED BY <4>1 DEF objectVars, LateInv, Shape, Unstarted, OpenWhileAlive, LateLeaves
    <3> QED BY <3>1, <3>2, <3>3, <3>4 DEF Next
  <2>3. LateInv => AtMostOneLate
    <3> SUFFICES ASSUME LateInv, NEW t \in Thread PROVE late[t] <= 1
      BY DEF AtMostOneLate
    <3>1. late[t] = 0 \/ late[t] = 1
      BY DEF LateInv, LateLeaves
    <3> QED BY <3>1
  <2> QED BY <2>1, <2>2, <2>3, PTL DEF Spec
<1> QED BY <1>1, <1>2
----------------------------------------------------------------------------
(* Types.  They need that a thread only waits for a frame that is there.    *)

\* amqp_consume_message() puts back the method it could not use.
WaitsOnEnd == \A t \in Thread : pc[t] = "wait" => stream[t] # <<>> /\ Head(stream[t]) = EndMethod

TypeInv == TypeOK /\ WaitsOnEnd

\* The calls of the setup: the second opens the connection, the ones that bind
\* are each about an event of their own.
LEMMA SetupCalls ==
  /\ DOMAIN Setup = 1..(6 + 2 * Events) /\ Len(Setup) = 6 + 2 * Events
  /\ Setup[2] = "tcp" /\ \A i \in DOMAIN Setup : Setup[i] = "tcp" => i = 2
  /\ \A i \in DOMAIN Setup : Setup[i] = "bind" => (i - 5) \div 2 \in 1..Events
<1> DEFINE n == 6 + 2 * Events
           first == <<"socket", "tcp", "login", "channel", "exchange", "queue">>
           call(i) == IF i <= 6 THEN first[i] ELSE IF i % 2 = 1 THEN "bind" ELSE "subscribe"
<1>1. n \in Nat /\ n >= 6 /\ Events \in Nat
  BY CountsAssumption
<1>2. Setup = [i \in 1..n |-> call(i)]
  BY DEF Setup
<1>3. \A i \in 1..6 : first[i] # "bind" /\ (first[i] = "tcp" <=> i = 2)
  <2>1. /\ first[1] = "socket" /\ first[2] = "tcp" /\ first[3] = "login"
        /\ first[4] = "channel" /\ first[5] = "exchange" /\ first[6] = "queue"
    OBVIOUS
  <2> HIDE DEF first
  <2> SUFFICES ASSUME NEW i \in 1..6 PROVE first[i] # "bind" /\ (first[i] = "tcp" <=> i = 2)
    OBVIOUS
  <2>2. i = 1 \/ i = 2 \/ i = 3 \/ i = 4 \/ i = 5 \/ i = 6
    OBVIOUS
  <2> QED BY <2>1, <2>2
<1> HIDE DEF first
<1>4. DOMAIN Setup = 1..n /\ \A i \in 1..n : Setup[i] = call(i)
  BY <1>2
<1>5. Len(Setup) = n
  BY <1>1, <1>4
<1>6. \A i \in 1..n : call(i) = "tcp" <=> i = 2
  BY <1>1, <1>3
<1>7. ASSUME NEW i \in 1..n, call(i) = "bind" PROVE (i - 5) \div 2 \in 1..Events
  <2>1. i > 6 /\ i % 2 = 1
    BY <1>1, <1>3, <1>7
  <2>2. i >= 7 /\ i <= 5 + 2 * Events
    BY <1>1, <2>1
  <2> QED BY <1>1, <2>2
<1> QED BY <1>1, <1>4, <1>5, <1>6, <1>7

LEMMA CleanupCalls ==
  /\ DOMAIN Cleanup = 1..3 /\ Len(Cleanup) = 3
  /\ Cleanup[1] = "channel" /\ Cleanup[2] = "connection" /\ Cleanup[3] = "destroy"
BY DEF Cleanup

LEMMA StepTypes == DOMAIN Setup \cup DOMAIN Cleanup = 1..Len(Setup) /\ Len(Setup) \in Nat
BY SetupCalls, CleanupCalls, CountsAssumption

\* A step that leaves the streams alone lets a thread wait only where it did.
LEMMA SameStreams ==
  ASSUME TypeInv, UNCHANGED stream,
         \A t \in Thread : pc'[t] = "wait" =>
           pc[t] = "wait" \/ (stream[t] # <<>> /\ Head(stream[t]) = EndMethod)
  PROVE  WaitsOnEnd'
BY DEF TypeInv, WaitsOnEnd

\* A reported error ends the thread, or has it connect again.
LEMMA FailsTypes ==
  ASSUME TypeOK, NEW t \in Thread, NEW type \in ErrorType, Fails(t, type)
  PROVE  /\ reported' \in [Thread -> Seq(ErrorType)] /\ ended' \in BOOLEAN
         /\ pc' \in [Thread -> Locations] /\ UNCHANGED <<objectVars, step>>
         /\ \A u \in Thread : pc'[u] = "wait" => pc[u] = "wait"
<1>1. reported' \in [Thread -> Seq(ErrorType)]
  <2>1. Append(reported[t], type) \in Seq(ErrorType)
    BY DEF TypeOK
  <2> QED BY <2>1 DEF Fails, TypeOK
<1>2. \E l \in {"retry", "failed"} : pc' = [pc EXCEPT ![t] = l]
  BY DEF Fails
<1>3. ended' \in BOOLEAN
  BY DEF Fails, ExitsAfter, RetriesAfter, TypeOK
<1> QED BY <1>1, <1>2, <1>3 DEF Fails, TypeOK, Locations

\* connect(), by the application and by the error handler, and the destructor.
LEMMA ObjectTypes ==
  ASSUME TypeInv, Connect \/ Destroy \/ \E t \in Thread : Retry(t)
  PROVE  TypeInv'
<1> USE DEF TypeInv
<1>1. CASE Destroy
  BY <1>1 DEF Destroy, brokerVars, outputVars, TypeOK, WaitsOnEnd
<1>3. CASE /\ UNCHANGED <<objectVars, pc, step, brokerVars, handled, late, reported>>
           /\ ended' \in BOOLEAN
  BY <1>3 DEF objectVars, brokerVars, TypeOK, WaitsOnEnd
<1>2. CASE /\ Connect \/ \E t \in Thread : Retry(t)
           /\ Starts /\ UNCHANGED ended
  <2>1. Starts /\ UNCHANGED <<open, errorHandler, destroyed, step, brokerVars, outputVars>>
    BY <1>2 DEF Connect, Retry, outputVars
  <2>2. started' \in 0..MaxThreads
    BY <2>1, CountsAssumption DEF Starts, TypeOK
  <2>3. /\ pc' \in [Thread -> Locations]
        /\ \A u \in Thread : pc'[u] = "wait" => pc[u] = "wait"
    <3>1. CASE pc' = [pc EXCEPT ![started'] = "setup"]
      BY <3>1 DEF TypeOK, Locations
    <3>2. CASE \E t \in Thread : pc' = [pc EXCEPT ![t] = "failed", ![started'] = "setup"]
      <4>1. PICK t \in Thread : pc' = [pc EXCEPT ![t] = "failed", ![started'] = "setup"]
        BY <3>2
      <4>2. \A u \in Thread : pc'[u] \in {pc[u], "failed", "setup"}
        BY <4>1 DEF TypeOK
      <4>3. pc' \in [Thread -> Locations]
        BY <4>1 DEF TypeOK, Locations
      <4> QED BY <4>2, <4>3
    <3>3. CASE pc' = pc
      BY <3>3 DEF TypeOK
    <3> QED BY <1>2, <3>1, <3>2, <3>3 DEF Connect, Retry
  <2>4. WaitsOnEnd'
    BY <2>1, <2>3, SameStreams DEF brokerVars
  <2> QED BY <2>1, <2>2, <2>3, <2>4 DEF TypeOK, brokerVars, outputVars
<1>4. ASSUME NEW t \in Thread, Retry(t)
      PROVE  \/ Starts /\ UNCHANGED ended
             \/ /\ UNCHANGED <<objectVars, pc, step, brokerVars, handled, late, reported>>
                /\ ended' \in BOOLEAN
  BY <1>4 DEF Retry, objectVars
<1>5. Connect => Starts /\ UNCHANGED ended
  BY DEF Connect, outputVars
<1> QED BY <1>1, <1>2, <1>3, <1>4, <1>5

\* A thread's move to another place.
LEMMA MoveTypes ==
  ASSUME TypeOK, NEW t \in Thread, NEW l \in Locations, pc' = [pc EXCEPT ![t] = l]
  PROVE  /\ pc' \in [Thread -> Locations]
         /\ \A u \in Thread : pc'[u] = IF u = t THEN l ELSE pc[u]
BY DEF TypeOK

\* The setup.
LEMMA SetupTypes ==
  ASSUME TypeInv, NEW t \in Thread, SetupCall(t) \/ SetupFails(t)
  PROVE  TypeInv'
<1> USE DEF TypeInv
<1>1. step[t] \in 1..Len(Setup) /\ Len(Setup) \in Nat
  BY StepTypes DEF TypeOK
<1>2. CASE SetupCall(t)
  <2>1. UNCHANGED <<objectVars, stream, published, routed, outputVars>>
    BY <1>2 DEF SetupCall
  <2>2. link' \in [Thread -> {"none", "up", "lost"}]
    BY <1>2 DEF SetupCall, TypeOK
  <2>3. bound' \in [Thread -> SUBSET (1..Events)]
    <3>1. CASE bound' = bound
      BY <3>1 DEF TypeOK
    <3>2. CASE /\ Setup[step[t]] = "bind"
               /\ bound' = [bound EXCEPT ![t] = @ \cup {(step[t] - 5) \div 2}]
      <4> DEFINE e == (step[t] - 5) \div 2
      <4>1. e \in 1..Events
        BY <1>1, <3>2, SetupCalls
      <4> HIDE DEF e
      <4>2. bound[t] \cup {e} \in SUBSET (1..Events)
        BY <4>1 DEF TypeOK
      <4> QED BY <3>2, <4>2 DEF TypeOK, e
    <3> QED BY <1>2, <3>1, <3>2 DEF SetupCall
  <2>4. /\ pc' \in [Thread -> Locations] /\ step' \in [Thread -> 1..Len(Setup)]
        /\ \A u \in Thread : pc'[u] = "wait" => pc[u] = "wait"
    <3>1. step \in [Thread -> 1..Len(Setup)]
      BY StepTypes DEF TypeOK
    <3>2. Advances(t)
      BY <1>2 DEF SetupCall
    <3>3. CASE step[t] < Len(Setup)
      <4>1. step[t] + 1 \in 1..Len(Setup)
        BY <1>1, <3>3
      <4> QED BY <3>1, <3>2, <3>3, <4>1 DEF Advances, TypeOK
    <3>4. CASE ~(step[t] < Len(Setup))
      <4>1. pc' = [pc EXCEPT ![t] = "head"] /\ step' = [step EXCEPT ![t] = 1]
        BY <3>2, <3>4 DEF Advances
      <4>2. 1 \in 1..Len(Setup)
        BY <1>1
      <4> QED BY <3>1, <4>1, <4>2 DEF TypeOK, Locations
    <3> QED BY <3>3, <3>4
  <2>5. WaitsOnEnd'
    BY <2>1, <2>4, SameStreams
  <2> QED BY <2>1, <2>2, <2>3, <2>4, <2>5, StepTypes DEF TypeOK, objectVars, outputVars
<1>3. CASE SetupFails(t)
  <2>1. UNCHANGED <<brokerVars, handled, late>>
    BY <1>3 DEF SetupFails
  <2>2. /\ pc' \in [Thread -> Locations] /\ UNCHANGED <<objectVars, step>>
        /\ reported' \in [Thread -> Seq(ErrorType)] /\ ended' \in BOOLEAN
        /\ \A u \in Thread : pc'[u] = "wait" => pc[u] = "wait"
    <3>1. CASE Fails(t, ErrorOf(Setup[step[t]]))
      <4>1. ErrorOf(Setup[step[t]]) \in ErrorType
        BY DEF ErrorOf, ErrorType
      <4> QED BY <3>1, <4>1, FailsTypes
    <3>2. CASE /\ pc' = [pc EXCEPT ![t] = "silent"]
               /\ UNCHANGED <<objectVars, step, reported, ended>>
      BY <3>2 DEF TypeOK, Locations
    <3> QED BY <1>3, <3>1, <3>2 DEF SetupFails
  <2>3. WaitsOnEnd'
    BY <2>1, <2>2, SameStreams DEF brokerVars
  <2> QED BY <2>1, <2>2, <2>3 DEF TypeOK, objectVars, brokerVars
<1> QED BY <1>2, <1>3

\* The loop.
LEMMA LoopTypes ==
  ASSUME TypeInv, NEW t \in Thread, LoopHead(t) \/ Consume(t) \/ WaitFrame(t)
  PROVE  TypeInv'
<1> USE DEF TypeInv
<1>1. CASE LoopHead(t)
  <2>1. UNCHANGED <<objectVars, step, brokerVars, outputVars>>
        /\ \E l \in {"consume", "cleanup"} : pc' = [pc EXCEPT ![t] = l]
    BY <1>1 DEF LoopHead
  <2>2. /\ pc' \in [Thread -> Locations]
        /\ \A u \in Thread : pc'[u] = "wait" => pc[u] = "wait"
    BY <2>1 DEF TypeOK, Locations
  <2>3. WaitsOnEnd'
    BY <2>1, <2>2, SameStreams DEF brokerVars
  <2> QED BY <2>1, <2>2, <2>3 DEF TypeOK, objectVars, brokerVars, outputVars
<1>2. CASE Consume(t)
  <2>1. /\ UNCHANGED <<objectVars, step, link, bound, published, routed, reported>>
        /\ pc[t] = "consume"
    BY <1>2 DEF Consume
  <2>2. CASE /\ stream[t] # <<>> /\ Head(stream[t]) \in Message
             /\ HandleMessage(t, Head(stream[t]))
             /\ stream' = [stream EXCEPT ![t] = Tail(@)]
             /\ pc' = [pc EXCEPT ![t] = "head"]
    <3>1. /\ Tail(stream[t]) \in Seq(Message \cup {EndMethod})
          /\ Append(handled[t], Head(stream[t])) \in Seq(Message)
      BY <2>2 DEF TypeOK
    <3>2. /\ handled' \in [Thread -> Seq(Message)] /\ late' \in [Thread -> Nat]
          /\ ended' \in BOOLEAN
      <4>1. CASE /\ handled' = [handled EXCEPT ![t] = Append(@, Head(stream[t]))]
                 /\ late' = IF destroyed THEN [late EXCEPT ![t] = @ + 1] ELSE late
                 /\ UNCHANGED ended
        BY <3>1, <4>1 DEF TypeOK
      <4>2. CASE ended' \in BOOLEAN /\ UNCHANGED <<handled, late>>
        BY <4>2 DEF TypeOK
      <4> QED BY <2>2, <4>1, <4>2 DEF HandleMessage
    <3>3. /\ pc' \in [Thread -> Locations] /\ stream' \in [Thread -> Seq(Message \cup {EndMethod})]
          /\ \A u \in Thread : pc'[u] = "wait" => u # t /\ pc[u] = "wait" /\ stream'[u] = stream[u]
      BY <2>2, <3>1 DEF TypeOK, Locations
    <3>4. WaitsOnEnd'
      BY <3>3 DEF WaitsOnEnd
    <3> QED BY <2>1, <3>2, <3>3, <3>4 DEF TypeOK, objectVars
  <2>3. CASE UNCHANGED <<handled, late, ended, stream>> /\
             \/ pc' = [pc EXCEPT ![t] = "head"]
             \/ /\ pc' = [pc EXCEPT ![t] = "wait"]
                /\ stream[t] # <<>> /\ Head(stream[t]) = EndMethod
    <3>1. /\ pc' \in [Thread -> Locations]
          /\ \A u \in Thread : pc'[u] = "wait" =>
               pc[u] = "wait" \/ (stream[u] # <<>> /\ Head(stream[u]) = EndMethod)
      BY <2>3 DEF TypeOK, Locations
    <3>2. WaitsOnEnd'
      BY <2>3, <3>1, SameStreams
    <3> QED BY <2>1, <2>3, <3>1, <3>2 DEF TypeOK, objectVars
  <2> QED BY <1>2, <2>2, <2>3 DEF Consume
<1>3. CASE WaitFrame(t)
  <2>1. /\ UNCHANGED <<objectVars, step, link, bound, published, routed, outputVars>>
        /\ stream' = [stream EXCEPT ![t] = Tail(@)]
        /\ pc' = [pc EXCEPT ![t] = "cleanup"] /\ stream[t] # <<>>
    BY <1>3 DEF WaitFrame, WaitsOnEnd
  <2>2. Tail(stream[t]) \in Seq(Message \cup {EndMethod})
    BY <2>1 DEF TypeOK
  <2>3. /\ pc' \in [Thread -> Locations] /\ stream' \in [Thread -> Seq(Message \cup {EndMethod})]
        /\ \A u \in Thread : pc'[u] = "wait" => u # t /\ pc[u] = "wait" /\ stream'[u] = stream[u]
    BY <2>1, <2>2 DEF TypeOK, Locations
  <2>4. WaitsOnEnd'
    BY <2>3 DEF WaitsOnEnd
  <2> QED BY <2>1, <2>3, <2>4 DEF TypeOK, objectVars, outputVars
<1> QED BY <1>1, <1>2, <1>3

\* The calls after the loop.
LEMMA CleanupTypes ==
  ASSUME TypeInv, NEW t \in Thread, CleanupCall(t) \/ CleanupFails(t)
  PROVE  TypeInv'
<1> USE DEF TypeInv
<1>1. CASE CleanupCall(t)
  <2>1. UNCHANGED <<objectVars, bound, stream, published, routed, outputVars>>
    BY <1>1 DEF CleanupCall
  <2>2. /\ step' \in [Thread -> 1..Len(Setup)] /\ link' \in [Thread -> {"none", "up", "lost"}]
        /\ pc' \in [Thread -> Locations]
        /\ \A u \in Thread : pc'[u] = "wait" => pc[u] = "wait"
    <3>1. step \in [Thread -> 1..Len(Setup)] /\ Len(Setup) \in Nat /\ Len(Setup) >= 6
      BY StepTypes, SetupCalls, CountsAssumption DEF TypeOK
    <3>2. CASE step[t] < Len(Cleanup)
      <4>1. step[t] + 1 \in 1..Len(Setup)
        BY <3>1, <3>2, CleanupCalls
      <4> QED BY <1>1, <3>1, <3>2, <4>1 DEF CleanupCall, TypeOK
    <3>3. CASE ~(step[t] < Len(Cleanup))
      <4>1. /\ pc' = [pc EXCEPT ![t] = "clean"] /\ link' = [link EXCEPT ![t] = "none"]
            /\ step' = step
        BY <1>1, <3>3 DEF CleanupCall
      <4> QED BY <3>1, <4>1 DEF TypeOK, Locations
    <3> QED BY <3>2, <3>3
  <2>3. WaitsOnEnd'
    BY <2>1, <2>2, SameStreams
  <2> QED BY <2>1, <2>2, <2>3, StepTypes DEF TypeOK, objectVars, outputVars
<1>2. CASE CleanupFails(t)
  <2>1. UNCHANGED <<brokerVars, handled, late>>
    BY <1>2 DEF CleanupFails
  <2>2. /\ pc' \in [Thread -> Locations] /\ UNCHANGED <<objectVars, step>>
        /\ reported' \in [Thread -> Seq(ErrorType)] /\ ended' \in BOOLEAN
        /\ \A u \in Thread : pc'[u] = "wait" => pc[u] = "wait"
    <3> DEFINE type == IF Cleanup[step[t]] = "destroy" THEN "status" ELSE "rpc"
    <3>1. type \in ErrorType /\ Fails(t, type)
      BY <1>2 DEF ErrorType, CleanupFails
    <3> HIDE DEF type
    <3> QED BY <3>1, FailsTypes
  <2>3. WaitsOnEnd'
    BY <2>1, <2>2, SameStreams DEF brokerVars
  <2> QED BY <2>1, <2>2, <2>3 DEF TypeOK, objectVars, brokerVars
<1> QED BY <1>1, <1>2

\* What arrives last does not change what is read first, nor does what is lost.
LEMMA HeadKept ==
  ASSUME NEW S, NEW s \in Seq(S), s # <<>>
  PROVE  /\ \A x \in S : Append(s, x) # <<>> /\ Head(Append(s, x)) = Head(s)
         /\ \A n \in 1..Len(s) : SubSeq(s, 1, n) # <<>> /\ Head(SubSeq(s, 1, n)) = Head(s)
<1>1. Len(s) \in Nat /\ Len(s) >= 1 /\ Head(s) = s[1]
  OBVIOUS
<1>2. ASSUME NEW x \in S PROVE Append(s, x) # <<>> /\ Head(Append(s, x)) = Head(s)
  <2>1. Append(s, x) \in Seq(S) /\ Len(Append(s, x)) = Len(s) + 1 /\ Append(s, x)[1] = s[1]
    BY <1>1
  <2> QED BY <1>1, <2>1
<1>3. ASSUME NEW n \in 1..Len(s) PROVE SubSeq(s, 1, n) # <<>> /\ Head(SubSeq(s, 1, n)) = Head(s)
  <2>1. SubSeq(s, 1, n) \in Seq(S) /\ Len(SubSeq(s, 1, n)) = n /\ SubSeq(s, 1, n)[1] = s[1]
    BY <1>1
  <2> QED BY <1>1, <2>1
<1> QED BY <1>2, <1>3

\* What the broker and the network do.
LEMMA BrokerTypes ==
  ASSUME TypeInv, \/ \E e \in 1..Events : Publish(e)
                  \/ \E t \in Thread : BrokerEnds(t) \/ LinkLost(t)
  PROVE  TypeInv'
<1> USE DEF TypeInv
<1>1. ASSUME NEW e \in 1..Events, Publish(e) PROVE TypeInv'
  <2>1. UNCHANGED <<objectVars, pc, step, link, bound, outputVars>>
        /\ published' = published + 1 /\ published < MaxMessages
    BY <1>1 DEF Publish
  <2>2. published' \in 0..MaxMessages /\ published' \in Message
    BY <2>1, CountsAssumption DEF TypeOK, Message
  <2>3. /\ \A t \in Thread : /\ Append(stream[t], published') \in Seq(Message \cup {EndMethod})
                             /\ Append(routed[t], published') \in Seq(Message)
    BY <2>2 DEF TypeOK
  <2>4. /\ stream' \in [Thread -> Seq(Message \cup {EndMethod})]
        /\ routed' \in [Thread -> Seq(Message)]
    BY <1>1, <2>3 DEF Publish, TypeOK
  <2>5. \A t \in Thread : stream'[t] \in {stream[t], Append(stream[t], published')}
    BY <1>1 DEF Publish
  <2>6. \A t \in Thread : stream[t] # <<>> =>
          Append(stream[t], published') # <<>> /\ Head(Append(stream[t], published')) = Head(stream[t])
    <3>1. published' \in Message \cup {EndMethod}
      BY <2>2
    <3> QED BY <3>1, HeadKept DEF TypeOK
  <2>7. WaitsOnEnd'
    BY <2>1, <2>5, <2>6 DEF WaitsOnEnd
  <2> QED BY <2>1, <2>2, <2>4, <2>7 DEF TypeOK, objectVars, outputVars
<1>2. ASSUME NEW t \in Thread, BrokerEnds(t) PROVE TypeInv'
  <2>1. /\ UNCHANGED <<objectVars, pc, step, link, bound, published, routed, outputVars>>
        /\ stream' = [stream EXCEPT ![t] = Append(@, EndMethod)] /\ pc[t] # "wait"
    BY <1>2 DEF BrokerEnds
  <2>2. Append(stream[t], EndMethod) \in Seq(Message \cup {EndMethod})
    BY DEF TypeOK
  <2>3. stream' \in [Thread -> Seq(Message \cup {EndMethod})]
    BY <2>1, <2>2 DEF TypeOK
  <2>4. WaitsOnEnd'
    BY <2>1 DEF WaitsOnEnd, TypeOK
  <2> QED BY <2>1, <2>3, <2>4 DEF TypeOK, objectVars, outputVars
<1>3. ASSUME NEW t \in Thread, LinkLost(t) PROVE TypeInv'
  <2>1. PICK n \in 0..Len(stream[t]) : /\ pc[t] = "wait" => n > 0
                                       /\ stream' = [stream EXCEPT ![t] = SubSeq(@, 1, n)]
    BY <1>3 DEF LinkLost
  <2>2. /\ UNCHANGED <<objectVars, pc, step, bound, published, routed, outputVars>>
        /\ link' = [link EXCEPT ![t] = "lost"]
    BY <1>3 DEF LinkLost
  <2>3. /\ SubSeq(stream[t], 1, n) \in Seq(Message \cup {EndMethod})
        /\ n > 0 => SubSeq(stream[t], 1, n) # <<>> /\ Head(SubSeq(stream[t], 1, n)) = Head(stream[t])
    <3>1. stream[t] \in Seq(Message \cup {EndMethod})
      BY DEF TypeOK
    <3>2. n > 0 => stream[t] # <<>> /\ n \in 1..Len(stream[t])
      BY <3>1
    <3> QED BY <3>1, <3>2, HeadKept
  <2>4. stream' \in [Thread -> Seq(Message \cup {EndMethod})]
    BY <2>1, <2>3 DEF TypeOK
  <2>5. WaitsOnEnd'
    BY <2>1, <2>2, <2>3 DEF WaitsOnEnd, TypeOK
  <2> QED BY <2>2, <2>4, <2>5 DEF TypeOK, objectVars, outputVars
<1> QED BY <1>1, <1>2, <1>3

LEMMA TypeInvariant == Spec => []TypeInv
<1>1. Init => TypeInv
  <2> SUFFICES ASSUME Init PROVE TypeInv
    OBVIOUS
  <2>1. {open, destroyed, ended} \subseteq BOOLEAN /\ errorHandler \in Handlers
    BY DEF Init
  <2>2. started \in 0..MaxThreads /\ published \in 0..MaxMessages
    BY CountsAssumption DEF Init
  <2>3. 1 \in DOMAIN Setup \cup DOMAIN Cleanup
    BY CleanupCalls
  <2>4. step \in [Thread -> DOMAIN Setup \cup DOMAIN Cleanup]
    BY <2>3 DEF Init
  <2>5. /\ pc \in [Thread -> Locations] /\ link \in [Thread -> {"none", "up", "lost"}]
        /\ bound \in [Thread -> SUBSET (1..Events)] /\ late \in [Thread -> Nat]
    BY DEF Init, Locations
  <2>6. /\ stream \in [Thread -> Seq(Message \cup {EndMethod})] /\ routed \in [Thread -> Seq(Message)]
        /\ handled \in [Thread -> Seq(Message)] /\ reported \in [Thread -> Seq(ErrorType)]
    BY DEF Init
  <2>7. WaitsOnEnd
    BY DEF Init, WaitsOnEnd
  <2> QED BY <2>1, <2>2, <2>4, <2>5, <2>6, <2>7 DEF TypeInv, TypeOK
<1>2. TypeInv /\ [Next]_vars => TypeInv'
  <2> SUFFICES ASSUME TypeInv, [Next]_vars PROVE TypeInv'
    OBVIOUS
  <2>1. CASE UNCHANGED vars
    BY <2>1 DEF vars, objectVars, brokerVars, outputVars, TypeInv, TypeOK, WaitsOnEnd
  <2>2. CASE Next
    BY <2>2, ObjectTypes, SetupTypes, LoopTypes, CleanupTypes, BrokerTypes DEF Next, ThreadStep
  <2> QED BY <2>1, <2>2
<1> QED BY <1>1, <1>2, PTL DEF Spec

\* Types, for any number of threads, events and messages: among the rest, each
\* thread is at one of the calls of broker.cc, whatever failed before it.
THEOREM TypeCorrect == Spec => []TypeOK
<1>1. TypeInv => TypeOK
  BY DEF TypeInv
<1> QED BY <1>1, TypeInvariant, PTL
----------------------------------------------------------------------------
(* The ends of the threads: EveryFailureReported and OneThreadAtWork.  A     *)
(* thread that will connect again still counts as at work, and has reported. *)

AtWork(t) == pc[t] # "none" /\ ~Exited(t)

\* What a thread has reported, and whether it freed its connection.
Accounted(t) ==
  /\ reported[t] = <<>> \/ Len(reported[t]) = 1
  /\ reported[t] # <<>> => pc[t] \in {"retry", "failed"}
  /\ pc[t] = "retry" => reported[t] # <<>>
  /\ pc[t] = "failed" /\ errorHandler # "none" /\ ~destroyed => reported[t] # <<>>
  /\ pc[t] = "clean" => link[t] = "none"

Alone == \A t, u \in Thread : AtWork(t) /\ AtWork(u) => t = u

EndInv == Unstarted /\ Alone /\ \A t \in Thread : Accounted(t)

\* A step of a thread at work, that only concerns itself.
LEMMA OwnStep ==
  ASSUME TypeOK, EndInv, NEW t \in Thread, AtWork(t), UNCHANGED objectVars,
         \A u \in Thread \ {t} : pc'[u] = pc[u] /\ reported'[u] = reported[u] /\ link'[u] = link[u],
         Accounted(t)'
  PROVE  EndInv'
<1>1. Unstarted'
  BY DEF EndInv, Unstarted, AtWork, objectVars
<1>2. Alone'
  BY DEF EndInv, Alone, AtWork, Exited
<1>3. ASSUME NEW u \in Thread PROVE Accounted(u)'
  <2>1. CASE u # t
    BY <2>1 DEF EndInv, Accounted, Exited, objectVars
  <2> QED BY <2>1
<1> QED BY <1>1, <1>2, <1>3 DEF EndInv

\* A thread goes on, and has reported nothing.
LEMMA GoesOn ==
  ASSUME TypeOK, EndInv, NEW t \in Thread, AtWork(t), pc[t] # "retry",
         NEW l \in Locations \ {"retry", "failed"}, pc' = [pc EXCEPT ![t] = l],
         UNCHANGED <<objectVars, reported>>, \A u \in Thread \ {t} : link'[u] = link[u],
         l = "clean" => link'[t] = "none"
  PROVE  EndInv'
<1>1. pc'[t] = l /\ \A u \in Thread \ {t} : pc'[u] = pc[u]
  BY DEF TypeOK
<1>2. reported[t] = <<>>
  BY DEF EndInv, Accounted, AtWork, Exited
<1>3. Accounted(t)'
  BY <1>1, <1>2 DEF Accounted
<1> QED BY <1>1, <1>3, OwnStep

\* A thread reports its error and ends, or will connect again.
LEMMA FailsEnds ==
  ASSUME TypeOK, EndInv, NEW t \in Thread, AtWork(t), pc[t] # "retry",
         NEW type \in ErrorType, Fails(t, type), UNCHANGED link
  PROVE  EndInv'
<1>1. /\ pc'[t] \in {"retry", "failed"} /\ UNCHANGED objectVars
      /\ \A u \in Thread \ {t} : pc'[u] = pc[u] /\ reported'[u] = reported[u]
  BY DEF Fails, TypeOK
<1>2. reported[t] = <<>>
  BY DEF EndInv, Accounted, AtWork, Exited
<1>3. \/ Len(reported'[t]) = 1 /\ reported'[t] # <<>>
      \/ /\ reported'[t] = <<>> /\ pc'[t] = "failed"
         /\ errorHandler = "none" \/ destroyed
  <2>1. CASE reported' = [reported EXCEPT ![t] = Append(@, type)]
    <3>1. reported'[t] = Append(<<>>, type)
      BY <1>2, <2>1 DEF TypeOK
    <3>2. Len(Append(<<>>, type)) = 1 /\ Append(<<>>, type) # <<>>
      OBVIOUS
    <3> QED BY <3>1, <3>2
  <2>2. CASE /\ errorHandler = "none" \/ destroyed
             /\ pc' = [pc EXCEPT ![t] = "failed"] /\ UNCHANGED reported
    BY <1>2, <2>2 DEF TypeOK
  <2> QED BY <2>1, <2>2 DEF Fails
<1>4. Accounted(t)'
  BY <1>1, <1>3 DEF Accounted, Exited, objectVars
<1> QED BY <1>1, <1>4, OwnStep

\* connect() starts a thread when none is at work, or the one that is ends.
LEMMA StartEnds ==
  ASSUME TypeOK, EndInv, Connect \/ \E t \in Thread : Retry(t)
  PROVE  EndInv'
<1>0. CASE UNCHANGED <<objectVars, pc, reported, link>>
  BY <1>0 DEF EndInv, Unstarted, Alone, AtWork, Accounted, Exited, objectVars
<1> SUFFICES ASSUME ~UNCHANGED <<objectVars, pc, reported, link>> PROVE EndInv'
  BY <1>0
<1>1. /\ started' = started + 1 /\ started < MaxThreads
      /\ UNCHANGED <<reported, link, errorHandler, destroyed>>
  BY DEF Connect, Retry, Starts, brokerVars, outputVars, objectVars
<1>2. started' \in Thread /\ started \in Nat
  BY <1>1, CountsAssumption DEF TypeOK, Thread
<1>3. pc[started'] = "none"
  BY <1>1, <1>2 DEF EndInv, Unstarted
<1>4. reported[started'] = <<>>
  BY <1>2, <1>3 DEF EndInv, Accounted, Exited
<1>5. CASE Connect
  <2>1. pc' = [pc EXCEPT ![started'] = "setup"] /\ started = 0
    BY <1>5 DEF Connect
  <2>2. \A u \in Thread : pc[u] = "none"
    BY <2>1 DEF EndInv, Unstarted, Thread
  <2>3. \A u \in Thread : pc'[u] = IF u = started' THEN "setup" ELSE "none"
    BY <1>2, <2>1, <2>2 DEF TypeOK
  <2>4. Unstarted' /\ Alone'
    BY <1>1, <1>2, <2>3 DEF Unstarted, Alone, AtWork, Thread
  <2>5. ASSUME NEW u \in Thread PROVE Accounted(u)'
    <3>1. reported[u] = <<>>
      BY <2>2 DEF EndInv, Accounted, Exited
    <3> QED BY <1>1, <2>3, <3>1 DEF Accounted
  <2> QED BY <2>4, <2>5 DEF EndInv
<1>6. CASE \E t \in Thread : Retry(t)
  <2>1. PICK t \in Thread : pc[t] = "retry" /\ pc' = [pc EXCEPT ![t] = "failed", ![started'] = "setup"]
    BY <1>1, <1>6 DEF Retry, TypeOK
  <2>2. t # started' /\ AtWork(t)
    BY <1>3, <2>1 DEF AtWork, Exited
  <2>3. \A u \in Thread : pc'[u] = IF u = t THEN "failed"
                                   ELSE IF u = started' THEN "setup" ELSE pc[u]
    BY <1>2, <2>1, <2>2 DEF TypeOK
  <2>4. \A u \in Thread : u # t => ~AtWork(u)
    BY <2>2 DEF EndInv, Alone
  <2>5. Alone'
    BY <2>3, <2>4 DEF Alone, AtWork, Exited
  <2>6. Unstarted'
    <3>1. t <= started
      BY <1>2, <2>1 DEF EndInv, Unstarted, Thread
    <3> QED BY <1>1, <1>2, <2>3, <3>1 DEF EndInv, Unstarted, Thread
  <2>7. ASSUME NEW u \in Thread PROVE Accounted(u)'
    <3>1. CASE u = t
      <4>1. Accounted(t)
        BY DEF EndInv
      <4>2. reported'[t] # <<>> /\ Len(reported'[t]) = 1 /\ pc'[t] = "failed"
        BY <1>1, <2>1, <2>3, <4>1 DEF Accounted
      <4> QED BY <3>1, <4>2 DEF Accounted, Exited
    <3>2. CASE u = started'
      BY <1>1, <1>4, <2>2, <2>3, <3>2 DEF Accounted, Exited
    <3>3. CASE u # t /\ u # started'
      BY <1>1, <2>3, <3>3 DEF EndInv, Accounted, Exited
    <3> QED BY <3>1, <3>2, <3>3
  <2> QED BY <2>5, <2>6, <2>7 DEF EndInv
<1> QED BY <1>5, <1>6

\* The other steps of a thread.
LEMMA ThreadEnds ==
  ASSUME TypeOK, EndInv, NEW t \in Thread, ThreadStep(t)
  PROVE  EndInv'
<1> USE DEF Locations, AtWork, Exited
<1>1. CASE SetupCall(t)
  <2>1. /\ pc[t] = "setup" /\ UNCHANGED <<objectVars, reported>>
        /\ \A u \in Thread \ {t} : link'[u] = link[u]
    BY <1>1 DEF SetupCall, objectVars, outputVars, TypeOK
  <2>2. pc' = [pc EXCEPT ![t] = "setup"] \/ pc' = [pc EXCEPT ![t] = "head"]
    BY <1>1, <2>1 DEF SetupCall, Advances, TypeOK
  <2> QED BY <2>1, <2>2, GoesOn
<1>2. CASE SetupFails(t)
  <2>1. pc[t] = "setup" /\ UNCHANGED link
    BY <1>2 DEF SetupFails, brokerVars
  <2>2. CASE Fails(t, ErrorOf(Setup[step[t]]))
    <3>1. ErrorOf(Setup[step[t]]) \in ErrorType
      BY DEF ErrorOf, ErrorType
    <3> QED BY <2>1, <2>2, <3>1, FailsEnds
  <2>3. CASE pc' = [pc EXCEPT ![t] = "silent"] /\ UNCHANGED <<objectVars, reported>>
    BY <2>1, <2>3, GoesOn
  <2> QED BY <1>2, <2>2, <2>3 DEF SetupFails
<1>3. CASE Retry(t)
  BY <1>3, StartEnds
<1>4. CASE LoopHead(t)
  <2>1. pc[t] = "head" /\ UNCHANGED <<objectVars, link, reported>>
        /\ \E l \in {"consume", "cleanup"} : pc' = [pc EXCEPT ![t] = l]
    BY <1>4 DEF LoopHead, objectVars, brokerVars, outputVars
  <2> QED BY <2>1, GoesOn
<1>5. CASE Consume(t)
  <2>1. pc[t] = "consume" /\ UNCHANGED <<objectVars, link, reported>>
        /\ \E l \in {"head", "wait"} : pc' = [pc EXCEPT ![t] = l]
    BY <1>5 DEF Consume, objectVars
  <2> QED BY <2>1, GoesOn
<1>6. CASE WaitFrame(t)
  <2>1. pc[t] = "wait" /\ UNCHANGED <<objectVars, link, reported>>
        /\ pc' = [pc EXCEPT ![t] = "cleanup"]
    BY <1>6 DEF WaitFrame, objectVars, outputVars
  <2> QED BY <2>1, GoesOn
<1>7. CASE CleanupCall(t)
  <2>1. pc[t] = "cleanup" /\ UNCHANGED <<objectVars, reported>>
    BY <1>7 DEF CleanupCall, objectVars, outputVars
  <2>2. CASE UNCHANGED <<pc, link>>
    <3>1. pc' = [pc EXCEPT ![t] = "cleanup"]
      BY <2>1, <2>2 DEF TypeOK
    <3> QED BY <2>1, <2>2, <3>1, GoesOn
  <2>3. CASE pc' = [pc EXCEPT ![t] = "clean"] /\ link' = [link EXCEPT ![t] = "none"]
    <3>1. link'[t] = "none" /\ \A u \in Thread \ {t} : link'[u] = link[u]
      BY <2>3 DEF TypeOK
    <3> QED BY <2>1, <2>3, <3>1, GoesOn
  <2> QED BY <1>7, <2>2, <2>3 DEF CleanupCall
<1>8. CASE CleanupFails(t)
  <2> DEFINE type == IF Cleanup[step[t]] = "destroy" THEN "status" ELSE "rpc"
  <2>1. type \in ErrorType /\ Fails(t, type)
    BY <1>8 DEF ErrorType, CleanupFails
  <2>2. pc[t] = "cleanup" /\ UNCHANGED link
    BY <1>8 DEF CleanupFails, brokerVars
  <2> HIDE DEF type
  <2> QED BY <2>1, <2>2, FailsEnds
<1> QED BY <1>1, <1>2, <1>3, <1>4, <1>5, <1>6, <1>7, <1>8 DEF ThreadStep

LEMMA EndInvariant == Spec => []EndInv
<1>1. Init => EndInv
  BY DEF Init, EndInv, Unstarted, Alone, AtWork, Accounted
<1>2. EndInv /\ TypeOK /\ [Next]_vars => EndInv'
  <2> SUFFICES ASSUME EndInv, TypeOK, [Next]_vars PROVE EndInv'
    OBVIOUS
  <2>1. CASE UNCHANGED <<started, errorHandler, pc, reported, link>> /\ (destroyed => destroyed')
    BY <2>1 DEF EndInv, Unstarted, Alone, AtWork, Accounted, Exited
  <2>2. CASE Destroy \/ (\E e \in 1..Events : Publish(e)) \/ (\E t \in Thread : BrokerEnds(t))
             \/ UNCHANGED vars
    BY <2>1, <2>2 DEF Destroy, Publish, BrokerEnds, vars, objectVars, brokerVars, outputVars
  <2>3. ASSUME NEW t \in Thread, LinkLost(t) PROVE EndInv'
    <3>1. /\ ~Exited(t) /\ link' = [link EXCEPT ![t] = "lost"]
          /\ UNCHANGED <<started, errorHandler, destroyed, pc, reported>>
      BY <2>3 DEF LinkLost, objectVars, outputVars
    <3>2. \A u \in Thread : pc[u] = "clean" => link'[u] = link[u]
      BY <3>1 DEF Exited, TypeOK
    <3> QED BY <3>1, <3>2 DEF EndInv, Unstarted, Alone, AtWork, Accounted, Exited
  <2> QED BY <2>2, <2>3, StartEnds, ThreadEnds DEF Next
<1> QED BY <1>1, <1>2, TypeCorrect, PTL DEF Spec

\* However the AMQP calls of a thread end, and whatever its error handler does: it has
\* called the handler at most once, only because a call failed, and while the object lives
\* for each call that failed (connect(), broker.cc).  Of a thread that the broker ended
\* nothing is reported.
THEOREM EndsCorrect == Spec => []EveryFailureReported
<1>1. EndInv => EveryFailureReported
  BY DEF EndInv, Accounted, EveryFailureReported
<1> QED BY <1>1, EndInvariant, PTL

\* Over any number of retries, each of which starts a thread from the one that
\* failed, at most one thread is at work on the object.
THEOREM OneThreadCorrect == Spec => []OneThreadAtWork
<1>1. EndInv => OneThreadAtWork
  <2> SUFFICES ASSUME Alone PROVE OneThreadAtWork
    BY DEF EndInv
  <2> DEFINE W == {t \in Thread : pc[t] # "none" /\ ~Exited(t)}
  <2>1. CASE W = {}
    BY <2>1, FS_EmptySet DEF OneThreadAtWork
  <2>2. CASE W # {}
    <3>1. PICK t \in Thread : W = {t}
      BY <2>2 DEF Alone, AtWork
    <3>2. Cardinality({t}) = 1
      BY FS_Singleton
    <3> QED BY <3>1, <3>2 DEF OneThreadAtWork
  <2> QED BY <2>1, <2>2
<1> QED BY <1>1, EndInvariant, PTL
----------------------------------------------------------------------------
(* The messages: NothingSkipped.  It needs that nothing is routed to a      *)
(* thread before its connection is opened, and that this happens once.      *)

\* A thread that has still to open its connection.
Early(t) == pc[t] = "none" \/ (pc[t] = "setup" /\ step[t] <= 2)

NoneYet(t) == link[t] = "none" /\ handled[t] = <<>> /\ stream[t] = <<>> /\ routed[t] = <<>>

\* NothingSkipped for one thread.
Whole(t) ==
  ~destroyed /\ link[t] = "up" =>
    handled[t] \o stream[t] \in {routed[t], Append(routed[t], EndMethod)}

SkipInv == \A t \in Thread : (Early(t) => NoneYet(t)) /\ Whole(t)

\* What is taken from the front of one sequence goes to the end of the other.
LEMMA TakesHead ==
  ASSUME NEW S, NEW h \in Seq(S), NEW s \in Seq(S), s # <<>>
  PROVE  Append(h, Head(s)) \o Tail(s) = h \o s
<1> DEFINE a == Append(h, Head(s)) \o Tail(s)
           b == h \o s
<1>1. Len(s) \in Nat /\ Len(s) >= 1 /\ Head(s) = s[1] /\ Head(s) \in S /\ Tail(s) \in Seq(S)
  OBVIOUS
<1>2. a \in Seq(S) /\ b \in Seq(S) /\ Len(a) = Len(b)
  BY <1>1
<1>3. ASSUME NEW i \in 1..Len(b) PROVE a[i] = b[i]
  BY <1>1
<1> HIDE DEF a, b
<1> QED BY <1>2, <1>3, SeqEqual

\* A sequence r, perhaps with a method e after it, was split in h and s: with e
\* not in s, it is r.
LEMMA NoEndYet ==
  ASSUME NEW M, NEW e, e \notin M, NEW h \in Seq(M), NEW r \in Seq(M),
         NEW s \in Seq(M \cup {e}), h \o s \in {r, Append(r, e)}, \A i \in DOMAIN s : s[i] # e
  PROVE  h \o s = r
<1>0. /\ h \in Seq(M \cup {e}) /\ r \in Seq(M \cup {e})
  OBVIOUS
<1>1. /\ Len(h \o s) = Len(h) + Len(s)
      /\ \A i \in 1..Len(h) : (h \o s)[i] = h[i] /\ h[i] \in M
      /\ \A i \in 1..Len(s) : (h \o s)[Len(h) + i] = s[i]
  BY <1>0
<1>2. /\ Len(Append(r, e)) = Len(r) + 1 /\ Append(r, e)[Len(r) + 1] = e
      /\ \A i \in 1..Len(r) : Append(r, e)[i] = r[i] /\ r[i] \in M
  BY <1>0
<1> SUFFICES ASSUME h \o s = Append(r, e) PROVE FALSE
  OBVIOUS
<1> DEFINE k == Len(r) + 1
<1>3. (h \o s)[k] = e /\ k \in 1..(Len(h) + Len(s))
  BY <1>1, <1>2
<1>4. k \in 1..Len(h) \/ (k - Len(h) \in 1..Len(s) /\ k = Len(h) + (k - Len(h)))
  BY <1>3
<1> HIDE DEF k
<1> QED BY <1>1, <1>3, <1>4

\* With e at the front of s, nothing follows it.
LEMMA TakesEnd ==
  ASSUME NEW M, NEW e, e \notin M, NEW h \in Seq(M), NEW r \in Seq(M),
         NEW s \in Seq(M \cup {e}), h \o s \in {r, Append(r, e)}, s # <<>>, Head(s) = e
  PROVE  h \o Tail(s) = r
<1>0. /\ h \in Seq(M \cup {e}) /\ r \in Seq(M \cup {e})
  OBVIOUS
<1>1. /\ Len(h \o s) = Len(h) + Len(s)
      /\ \A i \in 1..Len(h) : (h \o s)[i] = h[i] /\ h[i] \in M
      /\ \A i \in 1..Len(s) : (h \o s)[Len(h) + i] = s[i]
  BY <1>0
<1>2. /\ Len(Append(r, e)) = Len(r) + 1 /\ Append(r, e)[Len(r) + 1] = e
      /\ \A i \in 1..Len(r) : Append(r, e)[i] = r[i] /\ r[i] \in M
  BY <1>0
<1>3. 1 \in 1..Len(s) /\ s[1] = e
  OBVIOUS
<1>4. (h \o s)[Len(h) + 1] = e /\ Len(h) + 1 \in 1..(Len(h) + Len(s))
  BY <1>1, <1>3
<1>5. h \o s = Append(r, e) /\ Len(h) + 1 = Len(r) + 1
  <2>1. h \o s # r
    BY <1>1, <1>2, <1>4
  <2>2. h \o s = Append(r, e)
    BY <2>1
  <2> QED BY <1>1, <1>2, <1>4, <2>2
<1>6. Len(s) = 1 /\ Len(h) = Len(r)
  <2>1. Len(h) \in Nat /\ Len(s) \in Nat /\ Len(r) \in Nat
    OBVIOUS
  <2>2. Len(h \o s) = Len(Append(r, e))
    BY <1>5
  <2>3. Len(h) + Len(s) = Len(r) + 1
    BY <1>1, <1>2, <2>2
  <2>4. Len(h) + 1 = Len(r) + 1
    BY <1>5
  <2> DEFINE a == Len(h)
             b == Len(s)
             c == Len(r)
  <2>5. a \in Nat /\ b \in Nat /\ c \in Nat /\ a + b = c + 1 /\ a + 1 = c + 1
    BY <2>1, <2>3, <2>4
  <2> HIDE DEF a, b, c
  <2>6. b = 1 /\ a = c
    BY <2>5
  <2> QED BY <2>6 DEF a, b, c
<1>7. Tail(s) = <<>>
  BY <1>6
<1>8. \A i \in 1..Len(r) : h[i] = r[i]
  BY <1>1, <1>2, <1>5, <1>6
<1>9. h = r
  BY <1>6, <1>8, SeqEqual
<1> QED BY <1>7, <1>9

\* A step that starts no thread's connection and touches no message.
LEMMA QuietSkip ==
  ASSUME SkipInv, UNCHANGED <<handled, stream, routed>>, destroyed => destroyed',
         \A t \in Thread : Early(t)' => Early(t),
         \A t \in Thread : link'[t] = link[t] \/ (link'[t] # "up" /\ ~Early(t)')
  PROVE  SkipInv'
BY DEF SkipInv, NoneYet, Whole

\* Opening the connection, of which nothing was known, and the rest of the setup.
LEMMA SetupSkip ==
  ASSUME TypeInv, SkipInv, NEW t \in Thread, SetupCall(t)
  PROVE  SkipInv'
<1>1. /\ pc[t] = "setup" /\ Advances(t) /\ UNCHANGED <<stream, routed, handled, destroyed>>
      /\ link' = IF Setup[step[t]] = "tcp" THEN [link EXCEPT ![t] = "up"] ELSE link
  BY DEF SetupCall, outputVars, objectVars
<1>2. step[t] \in 1..Len(Setup) /\ Len(Setup) \in Nat /\ Len(Setup) >= 6
  BY StepTypes, SetupCalls, CountsAssumption DEF TypeInv, TypeOK
<1>3. /\ \A u \in Thread \ {t} : Early(u)' => Early(u)
      /\ Early(t)' => step[t] <= 1
  <2>1. CASE step[t] < Len(Setup)
    BY <1>1, <1>2, <2>1 DEF Advances, Early, TypeInv, TypeOK
  <2>2. CASE ~(step[t] < Len(Setup))
    BY <1>1, <1>2, <2>2 DEF Advances, Early, TypeInv, TypeOK
  <2> QED BY <2>1, <2>2
<1>4. Setup[step[t]] = "tcp" => step[t] = 2
  BY <1>2, SetupCalls
<1>5. step[t] <= 2 => NoneYet(t)
  BY <1>1 DEF SkipInv, Early
<1>6. CASE step[t] = 2
  <2>1. NoneYet(t) /\ ~Early(t)'
    BY <1>3, <1>5, <1>6
  <2>2. handled'[t] \o stream'[t] = routed'[t]
    BY <1>1, <2>1 DEF NoneYet
  <2>3. \A u \in Thread \ {t} : link'[u] = link[u]
    BY <1>1 DEF TypeInv, TypeOK
  <2> QED BY <1>1, <1>3, <2>1, <2>2, <2>3 DEF SkipInv, NoneYet, Whole
<1>7. CASE step[t] # 2
  <2>1. link' = link /\ (Early(t)' => Early(t))
    BY <1>1, <1>2, <1>3, <1>4, <1>7 DEF Early
  <2> QED BY <1>1, <1>3, <2>1, QuietSkip
<1> QED BY <1>6, <1>7

\* The loop takes the front of the stream, and gives it to the handler if it is
\* a message.
LEMMA LoopSkip ==
  ASSUME TypeInv, SkipInv, NEW t \in Thread, Consume(t) \/ WaitFrame(t)
  PROVE  SkipInv'
<1> DEFINE All == Message \cup {EndMethod}
<1>1. /\ stream[t] \in Seq(All) /\ handled[t] \in Seq(Message) /\ routed[t] \in Seq(Message)
      /\ handled[t] \in Seq(All)
  BY DEF TypeInv, TypeOK
<1>2. /\ UNCHANGED <<link, step, routed, destroyed>> /\ pc[t] \in {"consume", "wait"}
      /\ \E l \in {"head", "wait", "cleanup"} : pc' = [pc EXCEPT ![t] = l]
  BY DEF Consume, WaitFrame, objectVars
<1>3. \A u \in Thread : (Early(u)' => Early(u)) /\ ~Early(t)'
  BY <1>2 DEF Early, TypeInv, TypeOK
<1>4. CASE UNCHANGED <<handled, stream>>
  BY <1>2, <1>3, <1>4, QuietSkip
<1>5. CASE /\ stream' = [stream EXCEPT ![t] = Tail(@)]
           /\ \A u \in Thread \ {t} : handled'[u] = handled[u]
           /\ Whole(t)'
  <2>1. \A u \in Thread \ {t} : stream'[u] = stream[u]
    BY <1>5 DEF TypeInv, TypeOK
  <2> QED BY <1>2, <1>3, <1>5, <2>1 DEF SkipInv, NoneYet, Whole
<1>6. CASE Consume(t) /\ ~UNCHANGED <<handled, stream>>
  <2>1. /\ stream[t] # <<>> /\ HandleMessage(t, Head(stream[t]))
        /\ stream' = [stream EXCEPT ![t] = Tail(@)]
    BY <1>6 DEF Consume
  <2>2. CASE handled' = [handled EXCEPT ![t] = Append(@, Head(stream[t]))]
    <3>1. /\ handled'[t] = Append(handled[t], Head(stream[t])) /\ stream'[t] = Tail(stream[t])
          /\ \A u \in Thread \ {t} : handled'[u] = handled[u]
      BY <2>1, <2>2 DEF TypeInv, TypeOK
    <3>2. Append(handled[t], Head(stream[t])) \o Tail(stream[t]) = handled[t] \o stream[t]
      BY <1>1, <2>1, TakesHead
    <3>3. Whole(t)'
      BY <1>2, <3>1, <3>2 DEF SkipInv, Whole
    <3> QED BY <1>5, <2>1, <3>1, <3>3
  <2>3. CASE destroyed /\ UNCHANGED handled
    <3>1. Whole(t)'
      BY <1>2, <2>3 DEF Whole
    <3> QED BY <1>5, <2>1, <2>3, <3>1
  <2> QED BY <2>1, <2>2, <2>3 DEF HandleMessage
<1>7. CASE WaitFrame(t)
  <2>1. /\ pc[t] = "wait" /\ stream' = [stream EXCEPT ![t] = Tail(@)] /\ handled' = handled
        /\ stream[t] # <<>> /\ Head(stream[t]) = EndMethod
    BY <1>7 DEF WaitFrame, outputVars, TypeInv, WaitsOnEnd
  <2>2. stream'[t] = Tail(stream[t])
    BY <2>1 DEF TypeInv, TypeOK
  <2>3. EndMethod \notin Message
    BY DEF EndMethod, Message
  <2>4. Whole(t) => Whole(t)'
    <3> DEFINE e == EndMethod
               M == Message
               s == stream[t]
               h == handled[t]
               r == routed[t]
    <3>1. /\ e \notin M /\ h \in Seq(M) /\ r \in Seq(M) /\ s \in Seq(M \cup {e})
          /\ s # <<>> /\ Head(s) = e
      BY <1>1, <2>1, <2>3
    <3>2. Whole(t) = (~destroyed /\ link[t] = "up" => h \o s \in {r, Append(r, e)})
      BY DEF Whole
    <3>3. Whole(t)' = (~destroyed /\ link[t] = "up" => h \o Tail(s) \in {r, Append(r, e)})
      BY <1>2, <2>1, <2>2 DEF Whole
    <3> HIDE DEF e, M, s, h, r
    <3>4. ASSUME h \o s \in {r, Append(r, e)} PROVE h \o Tail(s) = r
      BY <3>1, <3>4, TakesEnd
    <3> QED BY <3>2, <3>3, <3>4
  <2> QED BY <1>5, <2>1, <2>4 DEF SkipInv
<1> QED BY <1>4, <1>6, <1>7

\* The broker appends, to the streams it still sends on.
LEMMA BrokerSkip ==
  ASSUME TypeInv, SkipInv, \/ \E e \in 1..Events : Publish(e)
                           \/ \E t \in Thread : BrokerEnds(t) \/ LinkLost(t)
  PROVE  SkipInv'
<1>0. EndMethod \notin Message
  BY DEF EndMethod, Message
<1>1. ASSUME NEW u \in Thread
      PROVE  /\ stream[u] \in Seq(Message \cup {EndMethod}) /\ handled[u] \in Seq(Message)
             /\ routed[u] \in Seq(Message)
             /\ Sends(u) => ~Early(u) /\ (~destroyed => handled[u] \o stream[u] = routed[u])
  <2>1. /\ stream[u] \in Seq(Message \cup {EndMethod}) /\ handled[u] \in Seq(Message)
        /\ routed[u] \in Seq(Message)
    BY DEF TypeInv, TypeOK
  <2>2. ASSUME Sends(u) PROVE ~Early(u)
    BY <2>2 DEF Sends, SkipInv, NoneYet
  <2>3. ASSUME Sends(u), ~destroyed PROVE handled[u] \o stream[u] = routed[u]
    <3>1. handled[u] \o stream[u] \in {routed[u], Append(routed[u], EndMethod)}
      BY <2>3 DEF Sends, SkipInv, Whole
    <3>2. \A i \in DOMAIN stream[u] : stream[u][i] # EndMethod
      BY <2>3 DEF Sends
    <3> DEFINE e == EndMethod
               M == Message
               s == stream[u]
               h == handled[u]
               r == routed[u]
    <3>4. /\ e \notin M /\ h \in Seq(M) /\ r \in Seq(M) /\ s \in Seq(M \cup {e})
          /\ h \o s \in {r, Append(r, e)} /\ \A i \in DOMAIN s : s[i] # e
      BY <1>0, <2>1, <3>1, <3>2
    <3> HIDE DEF e, M, s, h, r
    <3>5. h \o s = r
      BY <3>4, NoEndYet
    <3> QED BY <3>5 DEF s, h, r
  <2> QED BY <2>1, <2>2, <2>3
<1>2. ASSUME NEW u \in Thread, NEW x \in Message \cup {EndMethod}
      PROVE  handled[u] \o Append(stream[u], x) = Append(handled[u] \o stream[u], x)
  <2> DEFINE All == Message \cup {EndMethod}
             h == handled[u]
             s == stream[u]
  <2>1. h \in Seq(All) /\ s \in Seq(All) /\ x \in All
    <3>1. h \in Seq(All)
      BY <1>1, SeqMonotonic
    <3> QED BY <1>1, <1>2, <3>1
  <2> HIDE DEF All, h, s
  <2>2. h \o Append(s, x) = Append(h \o s, x)
    BY <2>1
  <2> QED BY <2>2 DEF h, s
<1>3. ASSUME NEW e \in 1..Events, Publish(e) PROVE SkipInv'
  <2>1. UNCHANGED <<pc, step, link, handled, destroyed>> /\ published' \in Message
    BY <1>3, CountsAssumption DEF Publish, outputVars, objectVars, TypeInv, TypeOK, Message
  <2>2. ASSUME NEW u \in Thread
        PROVE  \/ stream'[u] = stream[u] /\ routed'[u] = routed[u]
               \/ /\ Sends(u) /\ stream'[u] = Append(stream[u], published')
                  /\ routed'[u] = Append(routed[u], published')
    BY <1>3 DEF Publish
  <2>3. ASSUME NEW u \in Thread PROVE (Early(u)' => NoneYet(u)') /\ Whole(u)'
    <3>1. CASE stream'[u] = stream[u] /\ routed'[u] = routed[u]
      BY <2>1, <3>1 DEF SkipInv, Early, NoneYet, Whole
    <3>2. CASE /\ Sends(u) /\ stream'[u] = Append(stream[u], published')
               /\ routed'[u] = Append(routed[u], published')
      BY <1>1, <1>2, <2>1, <3>2 DEF Early, Whole
    <3> QED BY <2>2, <3>1, <3>2
  <2> QED BY <2>3 DEF SkipInv
<1>4. ASSUME NEW t \in Thread, BrokerEnds(t) PROVE SkipInv'
  <2>1. /\ Sends(t) /\ stream' = [stream EXCEPT ![t] = Append(@, EndMethod)]
        /\ UNCHANGED <<pc, step, link, routed, handled, destroyed>>
    BY <1>4 DEF BrokerEnds, outputVars, objectVars
  <2>2. /\ stream'[t] = Append(stream[t], EndMethod)
        /\ \A u \in Thread \ {t} : stream'[u] = stream[u]
    BY <2>1 DEF TypeInv, TypeOK
  <2>3. (Early(t)' => NoneYet(t)') /\ Whole(t)'
    BY <1>1, <1>2, <2>1, <2>2 DEF Early, Whole
  <2> QED BY <2>1, <2>2, <2>3 DEF SkipInv, Early, NoneYet, Whole
<1>5. ASSUME NEW t \in Thread, LinkLost(t) PROVE SkipInv'
  <2>1. /\ link[t] = "up" /\ link' = [link EXCEPT ![t] = "lost"]
        /\ \A u \in Thread \ {t} : stream'[u] = stream[u]
        /\ UNCHANGED <<pc, step, routed, handled, destroyed>>
    BY <1>5 DEF LinkLost, outputVars, objectVars, TypeInv, TypeOK
  <2>2. link'[t] = "lost" /\ \A u \in Thread \ {t} : link'[u] = link[u]
    BY <2>1 DEF TypeInv, TypeOK
  <2>3. ~Early(t)
    BY <2>1 DEF SkipInv, NoneYet
  <2> QED BY <2>1, <2>2, <2>3 DEF SkipInv, Early, NoneYet, Whole
<1> QED BY <1>3, <1>4, <1>5

\* The steps that neither open a connection nor touch a message.
LEMMA OtherSkip ==
  ASSUME TypeInv, EndInv, SkipInv,
         \/ Connect \/ Destroy
         \/ \E t \in Thread : \/ SetupFails(t) \/ Retry(t) \/ LoopHead(t)
                              \/ CleanupCall(t) \/ CleanupFails(t)
  PROVE  SkipInv'
<1> USE DEF TypeInv
<1>1. CASE UNCHANGED <<pc, step, link, handled, stream, routed>> /\ (destroyed => destroyed')
  BY <1>1, QuietSkip DEF Early
<1>2. CASE Starts /\ (Connect \/ \E t \in Thread : Retry(t))
  <2>1. UNCHANGED <<step, link, handled, stream, routed, destroyed>> /\ started' = started + 1
        /\ started < MaxThreads
    BY <1>2 DEF Connect, Retry, Starts, brokerVars, outputVars
  <2>2. started' \in Thread /\ pc[started'] = "none"
    <3>1. started' \in Thread /\ started' > started
      BY <2>1, CountsAssumption DEF TypeOK, Thread
    <3> QED BY <3>1 DEF EndInv, Unstarted
  <2>3. \A u \in Thread : pc'[u] = pc[u] \/ pc'[u] = "failed" \/ u = started'
    <3>1. CASE Connect
      BY <3>1 DEF Connect, TypeOK
    <3>2. ASSUME NEW t \in Thread, Retry(t)
          PROVE  \A u \in Thread : pc'[u] = pc[u] \/ pc'[u] = "failed" \/ u = started'
      <4>1. CASE pc' = [pc EXCEPT ![t] = "failed", ![started'] = "setup"]
        BY <4>1 DEF TypeOK
      <4>2. CASE pc' = pc
        BY <4>2
      <4> QED BY <3>2, <4>1, <4>2 DEF Retry
    <3> QED BY <1>2, <3>1, <3>2
  <2>4. \A u \in Thread : Early(u)' => Early(u)
    BY <2>1, <2>2, <2>3 DEF Early
  <2> QED BY <2>1, <2>4, QuietSkip
<1>3. ASSUME NEW t \in Thread,
             SetupFails(t) \/ LoopHead(t) \/ CleanupCall(t) \/ CleanupFails(t)
      PROVE  SkipInv'
  <2>1. UNCHANGED <<handled, stream, routed, destroyed>>
    BY <1>3 DEF SetupFails, LoopHead, CleanupCall, CleanupFails, Fails,
                brokerVars, outputVars, objectVars
  <2>2. \A u \in Thread : link'[u] = link[u] \/ (link'[u] # "up" /\ ~Early(u)')
    BY <1>3 DEF SetupFails, LoopHead, CleanupCall, CleanupFails, brokerVars, TypeOK, Early
  <2>3. /\ pc'[t] \notin {"none", "setup"}
        /\ \A u \in Thread \ {t} : pc'[u] = pc[u] /\ step'[u] = step[u]
    <3>1. CASE CleanupCall(t)
      BY <1>3, <3>1 DEF CleanupCall, TypeOK
    <3>2. CASE ~CleanupCall(t)
      <4>1. /\ step' = step
            /\ \E l \in {"retry", "failed", "silent", "consume", "cleanup"} :
                 pc' = [pc EXCEPT ![t] = l]
        BY <1>3, <3>2 DEF SetupFails, LoopHead, CleanupFails, Fails
      <4> QED BY <4>1 DEF TypeOK
    <3> QED BY <3>1, <3>2
  <2>4. \A u \in Thread : Early(u)' => Early(u)
    BY <2>3 DEF Early
  <2> QED BY <2>1, <2>2, <2>4, QuietSkip
<1>4. ASSUME NEW t \in Thread, Retry(t), ~Starts PROVE SkipInv'
  BY <1>1, <1>4 DEF Retry, brokerVars
<1>5. Destroy => SkipInv'
  BY <1>1 DEF Destroy, brokerVars, outputVars
<1>6. Connect => Starts
  BY DEF Connect
<1> QED BY <1>2, <1>3, <1>4, <1>5, <1>6

LEMMA SkipInvariant == Spec => []SkipInv
<1>1. Init => SkipInv
  BY DEF Init, SkipInv, NoneYet, Whole
<1>2. SkipInv /\ TypeInv /\ EndInv /\ [Next]_vars => SkipInv'
  <2> SUFFICES ASSUME SkipInv, TypeInv, EndInv, [Next]_vars PROVE SkipInv'
    OBVIOUS
  <2>1. CASE UNCHANGED vars
    BY <2>1, QuietSkip DEF vars, objectVars, brokerVars, outputVars, Early
  <2>2. CASE Next
    BY <2>2, SetupSkip, LoopSkip, BrokerSkip, OtherSkip DEF Next, ThreadStep
  <2> QED BY <2>1, <2>2
<1> QED BY <1>1, <1>2, TypeInvariant, EndInvariant, PTL DEF Spec

\* While the object and a thread's connection live, every message routed to the thread's
\* queue is one it gave to the messageHandler or can still read, in order and each once,
\* for any number of threads, events and messages (the loop of connect()).
THEOREM SkipCorrect == Spec => []NothingSkipped
<1>1. SkipInv => NothingSkipped
  BY DEF SkipInv, Whole, NothingSkipped
<1> QED BY <1>1, SkipInvariant, PTL
----------------------------------------------------------------------------
(* Publisher.                                                              *)

\* After connect() the thread is somewhere, and only a success lets it run.
LEMMA AfterTypes ==
  ASSUME NEW r \in Result
  PROVE  /\ After(r) \in {"connect", "sleep", "run", "exit"}
         /\ After(r) = "run" => r = "ok"
BY DEF After, Result

\* The last call is the declaration of the exchange.
LEMMA CallsTypes ==
  /\ DOMAIN ConnectCalls = 1..6 /\ Len(ConnectCalls) = 6
  /\ ConnectCalls[1] = "new" /\ ConnectCalls[6] = "exchange"
  /\ \A i \in 2..5 : ConnectCalls[i] \notin {"new", "exchange"}
  /\ Len(CloseCalls) = 3
BY DEF ConnectCalls, CloseCalls

\* Past its first call, connect() has a connection.
HasConn == calling > 1 => nconn > 0

ReadyInv == PublisherTypeOK /\ HasConn /\ ReadyBeforePublish

\* The thread starts before its first connection.
LEMMA StartsReady == PublisherInit => ReadyInv
<1> SUFFICES ASSUME PublisherInit PROVE ReadyInv
  OBVIOUS
<1>1. nconn \in 0..MaxConnects /\ calling \in DOMAIN ConnectCalls /\ calling = 1
  BY MaxAssumption, CallsTypes DEF PublisherInit
<1>2. ignoring \in BOOLEAN /\ events \subseteq Types /\ place = "connect"
  BY FirstAssumption DEF PublisherInit
<1>3. /\ links \in [Conn -> {"none", "made", "up", "lost", "closed"}]
      /\ channel \in [Conn -> BOOLEAN] /\ declared \in [Conn -> BOOLEAN]
  BY DEF PublisherInit
<1>4. offered \in Seq(Packet) /\ delivered \in Seq(Types)
  BY DEF PublisherInit
<1> QED BY <1>1, <1>2, <1>3, <1>4 DEF ReadyInv, PublisherTypeOK, HasConn, ReadyBeforePublish

\* A new connection is the next one.
LEMMA NewConnectionReady == ReadyInv /\ NewConnection => ReadyInv'
<1> SUFFICES ASSUME ReadyInv, NewConnection PROVE ReadyInv'
  OBVIOUS
<1>1. /\ calling = 1 /\ calling' = 2 /\ nconn' = nconn + 1
      /\ nconn' \in 1..MaxConnects /\ place' = "connect"
  BY CallsTypes, MaxAssumption DEF NewConnection, ReadyInv, PublisherTypeOK
<1>2. UNCHANGED <<ignoring, events, channel, declared, offered, delivered>>
  BY DEF NewConnection
<1>3. links' \in [Conn -> {"none", "made", "up", "lost", "closed"}]
  BY DEF NewConnection, ReadyInv, PublisherTypeOK
<1>4. calling' \in DOMAIN ConnectCalls /\ nconn' \in 0..MaxConnects
  BY <1>1, CallsTypes
<1> QED BY <1>1, <1>2, <1>3, <1>4 DEF ReadyInv, PublisherTypeOK, HasConn, ReadyBeforePublish

\* Only the declaration of the exchange, made on the last connection, ends in ok.
LEMMA ConnectCallReady == ReadyInv /\ ConnectCall => ReadyInv'
<1> SUFFICES ASSUME ReadyInv, ConnectCall PROVE ReadyInv'
  OBVIOUS
<1> DEFINE call == ConnectCalls[calling]
<1>1. /\ calling \in 2..6 /\ place = "connect" /\ nconn \in 1..MaxConnects /\ nconn \in Conn
  BY CallsTypes, MaxAssumption DEF ConnectCall, ReadyInv, PublisherTypeOK, HasConn, Conn
<1>2. /\ links' = IF call = "tcp" THEN [links EXCEPT ![nconn] = "up"] ELSE links
      /\ channel' = IF call = "channel" THEN [channel EXCEPT ![nconn] = TRUE] ELSE channel
      /\ declared' = IF call = "exchange" THEN [declared EXCEPT ![nconn] = TRUE] ELSE declared
      /\ UNCHANGED <<nconn, offered, delivered>>
  BY DEF ConnectCall
<1>3. /\ links' \in [Conn -> {"none", "made", "up", "lost", "closed"}]
      /\ channel' \in [Conn -> BOOLEAN] /\ declared' \in [Conn -> BOOLEAN]
  <2> HIDE DEF call
  <2> QED BY <1>2 DEF ReadyInv, PublisherTypeOK
<1>4. CASE calling < Len(ConnectCalls) /\ calling' = calling + 1 /\ UNCHANGED <<place, ignoring, events>>
  <2>1. calling' \in DOMAIN ConnectCalls
    BY <1>1, <1>4, CallsTypes
  <2> QED BY <1>1, <1>2, <1>3, <1>4, <2>1
          DEF ReadyInv, PublisherTypeOK, HasConn, ReadyBeforePublish
<1>5. CASE calling = Len(ConnectCalls) /\ Returns("ok")
  <2>1. declared'[nconn] = TRUE
    BY <1>1, <1>2, <1>5, CallsTypes DEF ReadyInv, PublisherTypeOK
  <2>2. /\ place' \in {"connect", "sleep", "run", "exit"} /\ calling' = 1
        /\ ignoring' \in BOOLEAN /\ UNCHANGED events
    BY <1>5, AfterTypes DEF Returns, Result
  <2>3. calling' \in DOMAIN ConnectCalls
    BY <2>2, CallsTypes
  <2> QED BY <1>1, <1>2, <1>3, <2>1, <2>2, <2>3
          DEF ReadyInv, PublisherTypeOK, HasConn, ReadyBeforePublish
<1> QED BY <1>4, <1>5 DEF ConnectCall

\* A failed connect() is never taken for one that is ready.
LEMMA ConnectFailsReady == ReadyInv /\ ConnectFails => ReadyInv'
<1> SUFFICES ASSUME ReadyInv, ConnectFails PROVE ReadyInv'
  OBVIOUS
<1>1. PICK r \in {"other", "socket"} : Returns(r)
  BY DEF ConnectFails
<1>2. /\ place' \in {"connect", "sleep", "exit"} /\ calling' = 1
      /\ ignoring' \in BOOLEAN /\ UNCHANGED events
  BY <1>1, AfterTypes DEF Returns, Result
<1>3. UNCHANGED <<nconn, links, channel, declared, offered, delivered>>
  BY DEF ConnectFails, connVars
<1>4. calling' \in DOMAIN ConnectCalls
  BY <1>2, CallsTypes
<1> QED BY <1>2, <1>3, <1>4 DEF ReadyInv, PublisherTypeOK, HasConn, ReadyBeforePublish

\* Publishing only adds to what was handed over.
LEMMA PublishReady == ASSUME ReadyInv, NEW p \in Packet, Publishes(p) PROVE ReadyInv'
<1>1. UNCHANGED <<place, calling, ignoring, events, nconn, links, channel, declared>>
  BY DEF Publishes, callVars, connVars
<1>2. p.t \in Types
  BY DEF Packet
<1>3. offered' \in Seq(Packet) /\ delivered' \in Seq(Types)
  BY <1>2 DEF Publishes, ReadyInv, PublisherTypeOK
<1> QED BY <1>1, <1>3 DEF ReadyInv, PublisherTypeOK, HasConn, ReadyBeforePublish

\* Closing does not undeclare the exchange.
LEMMA CloseReady == ReadyInv /\ (CloseCall \/ CloseFails) => ReadyInv'
<1> SUFFICES ASSUME ReadyInv, CloseCall \/ CloseFails PROVE ReadyInv'
  OBVIOUS
<1>1. /\ place = "close" /\ place' \in {"close", "end"}
      /\ UNCHANGED <<ignoring, events, nconn, declared, offered, delivered>>
  BY DEF CloseCall, CloseFails, connVars
<1>2. /\ links' \in [Conn -> {"none", "made", "up", "lost", "closed"}]
      /\ channel' \in [Conn -> BOOLEAN]
  BY DEF CloseCall, CloseFails, connVars, ReadyInv, PublisherTypeOK
<1>3. calling \in 1..6 /\ (calling' = 1 \/ (calling < 3 /\ calling' = calling + 1))
  BY CallsTypes DEF CloseCall, CloseFails, ReadyInv, PublisherTypeOK
<1>4. calling' \in DOMAIN ConnectCalls
  BY <1>3, CallsTypes
<1> QED BY <1>1, <1>2, <1>4 DEF ReadyInv, PublisherTypeOK, HasConn, ReadyBeforePublish

\* Neither the broker nor the network does.
LEMMA BrokerReady ==
  ASSUME ReadyInv, NEW c \in Conn, ChannelClosed(c) \/ ConnLost(c)
  PROVE  ReadyInv'
<1>1. UNCHANGED <<place, calling, ignoring, events, nconn, declared, offered, delivered>>
  BY DEF ChannelClosed, ConnLost, callVars
<1>2. /\ links' \in [Conn -> {"none", "made", "up", "lost", "closed"}]
      /\ channel' \in [Conn -> BOOLEAN]
  BY DEF ChannelClosed, ConnLost, ReadyInv, PublisherTypeOK
<1> QED BY <1>1, <1>2 DEF ReadyInv, PublisherTypeOK, HasConn, ReadyBeforePublish

LEMMA ReadyInvariant == PublisherSpec => []ReadyInv
<1>1. ReadyInv /\ [PublisherNext]_publisherVars => ReadyInv'
  <2> SUFFICES ASSUME ReadyInv, [PublisherNext]_publisherVars PROVE ReadyInv'
    OBVIOUS
  <2>1. CASE UNCHANGED publisherVars
    BY <2>1 DEF publisherVars, callVars, connVars, ReadyInv, PublisherTypeOK, HasConn, ReadyBeforePublish
  <2>2. CASE Wake \/ GatewayReturns
    <3>1. /\ place' \in {"connect", "close"}
          /\ place' = "connect" => place = "sleep"
          /\ place' = "close" => place = "run"
          /\ UNCHANGED <<calling, ignoring, events, nconn, links, channel, declared,
                         offered, delivered>>
      BY <2>2 DEF Wake, GatewayReturns, connVars
    <3> QED BY <3>1 DEF ReadyInv, PublisherTypeOK, HasConn, ReadyBeforePublish
  <2> QED BY <2>1, <2>2, NewConnectionReady, ConnectCallReady, ConnectFailsReady,
             PublishReady, CloseReady, BrokerReady DEF PublisherNext
<1> QED BY <1>1, StartsReady, PTL DEF PublisherSpec

\* Types, over any attempts: among the rest, every connect() begins at its
\* first call, and the destructor's calls are as many as it has.
THEOREM PublisherTypeCorrect == PublisherSpec => []PublisherTypeOK
<1>1. ReadyInv => PublisherTypeOK
  BY DEF ReadyInv
<1> QED BY <1>1, ReadyInvariant, PTL

\* The gateway never publishes on a connection that is not set up, for any
\* number of attempts, whichever of their calls failed, and whether or not the
\* first result is ignored.
THEOREM ReadyCorrect == PublisherSpec => []ReadyBeforePublish
<1>1. ReadyInv => ReadyBeforePublish
  BY DEF ReadyInv
<1> QED BY <1>1, ReadyInvariant, PTL
----------------------------------------------------------------------------
(* The packets: NothingLost.                                               *)

\* The gateway hands nothing over before the publisher is connected.
NothingYet == place \in {"connect", "sleep"} => offered = <<>> /\ delivered = <<>>

LostInv == NothingYet /\ NothingLost

\* publish() lets the packets through that broker.h speaks of.
LEMMA PassesWanted == \A p : Passes(p) <=> Wanted(p)
BY DEF Passes, Wanted

\* Before the first packet there is nothing to lose.
LEMMA EmptyInOrder == offered = <<>> /\ delivered = <<>> => WantedInOrder
<1> SUFFICES ASSUME offered = <<>>, delivered = <<>> PROVE WantedInOrder
  OBVIOUS
<1>1. DOMAIN offered = {} /\ DOMAIN delivered = {}
  OBVIOUS
<1>2. [i \in {} |-> 0] \in [DOMAIN delivered -> DOMAIN offered]
  BY <1>1
<1> QED BY <1>1, <1>2 DEF WantedInOrder

\* WantedInOrder, of any two sequences and the set W of the wanted packets.
InOrder(o, d, W) ==
  \E at \in [DOMAIN d -> DOMAIN o] :
    /\ \A i, j \in DOMAIN d : i < j => at[i] < at[j]
    /\ \A i \in DOMAIN d : d[i] = o[at[i]].t
    /\ \A k \in DOMAIN o : o[k] \in W <=> \E i \in DOMAIN d : at[i] = k

\* One more packet, not wanted and not delivered.
LEMMA UnwantedInOrder ==
  ASSUME NEW o \in Seq(Packet), NEW d \in Seq(Types), NEW W,
         NEW p \in Packet, p \notin W, InOrder(o, d, W)
  PROVE  InOrder(Append(o, p), d, W)
<1>1. PICK at \in [DOMAIN d -> DOMAIN o] :
        /\ \A i, j \in DOMAIN d : i < j => at[i] < at[j]
        /\ \A i \in DOMAIN d : d[i] = o[at[i]].t
        /\ \A k \in DOMAIN o : o[k] \in W <=> \E i \in DOMAIN d : at[i] = k
  BY DEF InOrder
<1> DEFINE m == Len(o)
           o2 == Append(o, p)
<1>2. /\ m \in Nat /\ DOMAIN o = 1..m /\ DOMAIN o2 = 1..(m + 1)
      /\ o2[m + 1] = p /\ \A k \in 1..m : o2[k] = o[k]
  OBVIOUS
<1>3. \A i \in DOMAIN d : at[i] \in 1..m
  BY <1>2
<1> HIDE DEF m, o2
<1>4. at \in [DOMAIN d -> DOMAIN o2]
  <2>1. \A k \in 1..m : k \in 1..(m + 1)
    BY <1>2
  <2> QED BY <1>2, <1>3, <2>1
<1>5. \A i \in DOMAIN d : d[i] = o2[at[i]].t
  BY <1>1, <1>2, <1>3
<1>6. ASSUME NEW k \in DOMAIN o2
      PROVE  o2[k] \in W <=> \E i \in DOMAIN d : at[i] = k
  <2>1. CASE k \in 1..m
    BY <1>1, <1>2, <2>1
  <2>2. CASE k = m + 1
    <3>1. \A i \in DOMAIN d : at[i] # m + 1
      BY <1>2, <1>3
    <3> QED BY <1>2, <2>2, <3>1
  <2> QED BY <1>2, <2>1, <2>2
<1>7. InOrder(o2, d, W)
  BY <1>1, <1>4, <1>5, <1>6 DEF InOrder
<1> QED BY <1>7 DEF o2

\* One more packet, wanted and delivered.
LEMMA WantedNextInOrder ==
  ASSUME NEW o \in Seq(Packet), NEW d \in Seq(Types), NEW W,
         NEW p \in Packet, p \in W, InOrder(o, d, W)
  PROVE  InOrder(Append(o, p), Append(d, p.t), W)
<1>1. PICK at \in [DOMAIN d -> DOMAIN o] :
        /\ \A i, j \in DOMAIN d : i < j => at[i] < at[j]
        /\ \A i \in DOMAIN d : d[i] = o[at[i]].t
        /\ \A k \in DOMAIN o : o[k] \in W <=> \E i \in DOMAIN d : at[i] = k
  BY DEF InOrder
<1> DEFINE m == Len(o)
           n == Len(d)
           o2 == Append(o, p)
           d2 == Append(d, p.t)
           at2 == [i \in 1..(n + 1) |-> IF i = n + 1 THEN m + 1 ELSE at[i]]
<1>2. /\ m \in Nat /\ DOMAIN o = 1..m /\ DOMAIN o2 = 1..(m + 1)
      /\ o2[m + 1] = p /\ \A k \in 1..m : o2[k] = o[k]
  OBVIOUS
<1>3. /\ n \in Nat /\ DOMAIN d = 1..n /\ DOMAIN d2 = 1..(n + 1)
      /\ d2[n + 1] = p.t /\ \A i \in 1..n : d2[i] = d[i]
  <2>1. p.t \in Types
    BY DEF Packet
  <2> QED BY <2>1
<1>4. \A i \in 1..n : at[i] \in 1..m
  BY <1>2, <1>3
<1> HIDE DEF m, n, o2, d2
<1>5. /\ at2[n + 1] = m + 1 /\ \A i \in 1..n : at2[i] = at[i]
      /\ \A i \in 1..(n + 1) : i = n + 1 \/ i \in 1..n
      /\ \A k \in 1..(m + 1) : k = m + 1 \/ k \in 1..m
      /\ \A k \in 1..m : k \in 1..(m + 1) /\ k < m + 1
      /\ \A i \in 1..n : i \in 1..(n + 1) /\ i < n + 1
      /\ n + 1 \in 1..(n + 1) /\ m + 1 \in 1..(m + 1)
  BY <1>2, <1>3
<1>6. at2 \in [DOMAIN d2 -> DOMAIN o2]
  BY <1>2, <1>3, <1>4, <1>5
<1> HIDE DEF at2
<1>7. \A i, j \in DOMAIN d2 : i < j => at2[i] < at2[j]
  <2> SUFFICES ASSUME NEW i \in 1..(n + 1), NEW j \in 1..(n + 1), i < j
               PROVE  at2[i] < at2[j]
    BY <1>3
  <2>1. i \in 1..n
    BY <1>3
  <2>2. CASE j = n + 1
    BY <1>4, <1>5, <2>1, <2>2
  <2>3. CASE j \in 1..n
    BY <1>1, <1>3, <1>5, <2>1, <2>3
  <2> QED BY <1>5, <2>2, <2>3
<1>8. \A i \in DOMAIN d2 : d2[i] = o2[at2[i]].t
  BY <1>1, <1>2, <1>3, <1>4, <1>5
<1>9. ASSUME NEW k \in DOMAIN o2
      PROVE  o2[k] \in W <=> \E i \in DOMAIN d2 : at2[i] = k
  <2>1. CASE k \in 1..m
    BY <1>1, <1>2, <1>3, <1>5, <2>1
  <2>2. CASE k = m + 1
    BY <1>2, <1>3, <1>5, <2>2
  <2> QED BY <1>2, <1>5, <2>1, <2>2
<1>10. InOrder(o2, d2, W)
  BY <1>6, <1>7, <1>8, <1>9 DEF InOrder
<1> QED BY <1>10 DEF o2, d2

\* One more packet, which is delivered exactly if it is wanted.
LEMMA OneMoreInOrder ==
  ASSUME PublisherTypeOK, WantedInOrder, NEW p \in Packet, UNCHANGED events,
         offered' = Append(offered, p),
         delivered' = IF Wanted(p) THEN Append(delivered, p.t) ELSE delivered
  PROVE  WantedInOrder'
<1> DEFINE W == {q \in Packet : q.op = "dispatch" /\ (events = {} \/ q.t \in events)}
<1>1. /\ offered \in Seq(Packet) /\ delivered \in Seq(Types) /\ p.t \in Types
      /\ offered' \in Seq(Packet)
  BY DEF PublisherTypeOK, Packet
<1>2. p \in W <=> Wanted(p)
  BY DEF Wanted
<1>3. \A k \in DOMAIN offered : offered[k] \in Packet
  BY <1>1
<1>4. \A k \in DOMAIN offered : offered[k] \in W <=> Wanted(offered[k])
  BY <1>3 DEF Wanted
<1>5. InOrder(offered, delivered, W)
  BY <1>4, Zenon DEF WantedInOrder, InOrder
<1>6. InOrder(offered', delivered', W)
  <2> HIDE DEF W
  <2>1. CASE Wanted(p)
    BY <1>1, <1>2, <1>5, <2>1, WantedNextInOrder
  <2>2. CASE ~Wanted(p)
    BY <1>1, <1>2, <1>5, <2>2, UnwantedInOrder
  <2> QED BY <2>1, <2>2
<1>7. \A k \in DOMAIN offered' : offered'[k] \in Packet
  BY <1>1
<1>8. \A k \in DOMAIN offered' :
        offered'[k] \in W <=> /\ offered'[k].op = "dispatch"
                              /\ events' = {} \/ offered'[k].t \in events'
  BY <1>7
<1> HIDE DEF W
<1>9. PICK at \in [DOMAIN delivered' -> DOMAIN offered'] :
        /\ \A i, j \in DOMAIN delivered' : i < j => at[i] < at[j]
        /\ \A i \in DOMAIN delivered' : delivered'[i] = offered'[at[i]].t
        /\ \A k \in DOMAIN offered' :
             offered'[k] \in W <=> \E i \in DOMAIN delivered' : at[i] = k
  BY <1>6 DEF InOrder
<1>10. \A k \in DOMAIN offered' :
         /\ offered'[k].op = "dispatch"
         /\ events' = {} \/ offered'[k].t \in events'
         <=> \E i \in DOMAIN delivered' : at[i] = k
  BY <1>8, <1>9
<1> QED BY <1>9, <1>10 DEF WantedInOrder, Wanted

\* A calling that touches no packet and brings nothing up while the gateway runs.
LEMMA QuietLost ==
  ASSUME LostInv, UNCHANGED <<events, offered, delivered>>,
         place' \in {"connect", "sleep"} => place \in {"connect", "sleep"},
         place' = "run" => \/ place = "connect"
                        \/ /\ place = "run" /\ nconn' = nconn
                           /\ links'[nconn] = "up" => links[nconn] = "up"
                           /\ channel'[nconn] => channel[nconn]
  PROVE  LostInv'
<1>1. NothingYet'
  BY DEF LostInv, NothingYet
<1>2. WantedInOrder' = WantedInOrder
  BY DEF WantedInOrder, Wanted
<1>3. NothingLost'
  BY <1>2, EmptyInOrder DEF LostInv, NothingYet, NothingLost
<1> QED BY <1>1, <1>3 DEF LostInv

\* While the connection made last and its channel are up, the broker has every
\* wanted packet the gateway handed over, in order, once, and nothing else,
\* for any number of packets and any events (publish(), broker.cc:89-118).
THEOREM LostCorrect == PublisherSpec => []NothingLost
<1>1. PublisherInit => LostInv
  BY DEF PublisherInit, LostInv, NothingYet, NothingLost
<1>2. LostInv /\ ReadyInv /\ [PublisherNext]_publisherVars => LostInv'
  <2> SUFFICES ASSUME LostInv, ReadyInv, [PublisherNext]_publisherVars PROVE LostInv'
    OBVIOUS
  <2>1. CASE UNCHANGED publisherVars
    BY <2>1, QuietLost DEF publisherVars, callVars, connVars
  <2>2. CASE NewConnection \/ ConnectCall \/ ConnectFails \/ Wake
    <3>1. place \in {"connect", "sleep"} /\ UNCHANGED <<events, offered, delivered>>
      BY <2>2 DEF NewConnection, ConnectCall, ConnectFails, Wake, Returns
    <3>2. place' = "run" => place = "connect"
      BY <2>2 DEF NewConnection, ConnectCall, ConnectFails, Wake
    <3> QED BY <3>1, <3>2, QuietLost
  <2>3. CASE GatewayReturns \/ CloseCall \/ CloseFails
    <3>1. place' \in {"close", "end"} /\ UNCHANGED <<events, offered, delivered>>
      BY <2>3 DEF GatewayReturns, CloseCall, CloseFails
    <3> QED BY <3>1, QuietLost
  <2>4. ASSUME NEW c \in Conn, ChannelClosed(c) \/ ConnLost(c) PROVE LostInv'
    <3>1. /\ UNCHANGED <<place, events, nconn, offered, delivered>>
          /\ links \in [Conn -> {"none", "made", "up", "lost", "closed"}]
          /\ channel \in [Conn -> BOOLEAN]
          /\ \/ links' = links /\ channel' = [channel EXCEPT ![c] = FALSE]
             \/ links' = [links EXCEPT ![c] = "lost"] /\ channel' = channel
      BY <2>4 DEF ChannelClosed, ConnLost, callVars, ReadyInv, PublisherTypeOK
    <3>2. \A d \in Conn : /\ links'[d] = "up" => links[d] = "up"
                          /\ channel'[d] => channel[d]
      BY <3>1
    <3>3. place = "run" => nconn \in Conn
      BY MaxAssumption DEF ReadyInv, PublisherTypeOK, ReadyBeforePublish, Conn
    <3> QED BY <3>1, <3>2, <3>3, QuietLost
  <2>5. ASSUME NEW p \in Packet, Publishes(p) PROVE LostInv'
    <3>1. /\ place = "run" /\ offered' = Append(offered, p)
          /\ UNCHANGED <<place, events, nconn, links, channel>>
          /\ links[nconn] = "up" /\ channel[nconn] =>
               delivered' = IF Wanted(p) THEN Append(delivered, p.t) ELSE delivered
      BY <2>5, PassesWanted DEF Publishes, callVars, connVars
    <3>2. links[nconn] = "up" /\ channel[nconn] => WantedInOrder'
      BY <3>1, OneMoreInOrder DEF LostInv, NothingLost, ReadyInv
    <3> QED BY <3>1, <3>2 DEF LostInv, NothingYet, NothingLost
  <2> QED BY <2>1, <2>2, <2>3, <2>4, <2>5 DEF PublisherNext
<1>3. LostInv => NothingLost
  BY DEF LostInv
<1> QED BY <1>1, <1>2, <1>3, ReadyInvariant, PTL DEF PublisherSpec
=============================================================================
