# Verification of libspectacles

libspectacles is a C++ library, and one tool built on it, that connects to the
Discord gateway over a WebSocket and passes what it receives through an AMQP
broker.  Its lint step (`make lint`, run by `travis/test.sh`) is `cpplint.py`,
which the repository carries.  This directory holds TLA+ models of the library,
of the tool's use of it and of the stateful core of the checker, the
configurations that model-check them with TLC, and proofs that TLAPS checks.

## 1. Inventory

| part | source | state it keeps | operations | modelled by |
|---|---|---|---|---|
| gateway connection | `src/gateway.cc`, `include/gateway.h` | `ws`, `open`, `session`, `seq`, `tries`, `acked`, `heartbeatStarted`, `heartbeatOpen` | `connect`, `disconnect`, `reconnect`, `destroy`, `send`, `identify`, `resume`, `heartbeat`, the four hub handlers, the heartbeat thread | `Gateway` |
| consumer | `src/broker.cc:120-396`, `include/broker.h` | `open`; one AMQP connection per thread | `connect` (starts a detached thread), destructor, `handleMessage` | `Consumer` |
| publisher | `src/broker.cc:20-118` | `conn`, `group`, `events` | `connect`, `publish`, destructor | `Publisher` |
| docker tool | `tools/docker.cc` | shards, publishers, one consumer | start-up, retry loops, routing between the three classes | the consumer's retry policy (`Consumer`), a shard's thread around its publisher (`Publisher`) |
| ETF values | `include/etf/data.h` | tagged union | constructors, `operator<`, accessors | no: see section 12 |
| ETF decoder | `include/etf/decoder.h` | offset, `isInvalid` | `unpack` and one function for each tag | no: see section 12 |
| ETF encoder | `include/etf/encoder.h`, `encode_func.h` | buffer, length, allocated size | `pack`, `erlpack_buffer_write` | `Encoder`, without the bytes |
| byte order macros | `include/etf/sysdep.h` | none | loads and stores | no: compiler intrinsics |
| AMQP printing | `src/utils.c`, `include/utils.h` | none | `die*`, dumps; nothing calls them | no: printing only |
| checker: nesting | `cpplint.py`, `NestingState` | `stack`, `pp_stack`, `previous_stack_top` | `Update`, `UpdatePreprocessor`, `CheckCompletedBlocks`, the checks that read the stack | `Nesting`, `Blocks`, `PlainNesting` |
| checker: files | `cpplint.py`, `_CppLintState`, `_line_length`, `_error_suppressions` | filters and their backup, line length, suppressions, count of errors | `ProcessFile`, `ProcessConfigOverrides`, `ParseNolintSuppressions`, `Error`, `CheckForHeaderGuard` | `LintFiles` |
| checker: includes | `cpplint.py`, `_IncludeState` | `_section`, `_last_header`, `include_list` | `CheckIncludeLine`, `ResetSection`, `CheckForIncludeWhatYouUse`, `CheckHeaderFileIncluded` | `Includes` |
| checker: brackets | `cpplint.py`, `CloseExpression` | a stack of brackets | the scans forward and backward | `Brackets` |
| checker: cleansing | `cpplint.py`, `CleansedLines`, `_FunctionState` | four copies of the lines, the function being counted | `RemoveMultiLineComments`, `CleanseRawStrings`, `CleansedLines`, `CheckForMultilineCommentsAndStrings`, `CheckForFunctionLengths` | `Cleanse` |
| checker: style checks | the rest of `cpplint.py` | none | regular expressions on a line | no: see section 12 |

How they interact: the tool gives the gateway's `onMessage` a handler that
publishes, on the thread that runs the gateway's hub, and the consumer's
`onMessage` a handler that sends on the gateway, on the consumer's thread.
Nothing is locked or atomic anywhere.

What is hard in this code:

* `reconnect()` calls `connect()` from inside the handlers of the hub it
  replaces, and `ws->close()` calls `onDisconnection` synchronously, which
  reconnects in turn.  Every connection is therefore nested in the one before:
  code after a `reconnect()` runs, if at all, after all later connections ended.
* The heartbeat thread reads and writes the same fields as the handlers, and
  when it times out it runs a whole hub of its own on the same object.
* The consumer's thread is detached and blocks without a timeout; the destructor
  only clears a flag.
* AMQP errors leave the loop, or spin in it, depending on their type.
* The checker is sequential, but reads a file once, line by line, and carries
  what it has understood in mutable state: stacks that are copied and put back
  at conditionals, module-wide filters and suppressions that each file changes,
  texts from which one kind of token is removed before the next is looked for.
  Its guesses (is a `<` a bracket, is a declaration a definition) are taken
  back later.

What makes each part correct: gateway - the flag `open` agrees with the
socket, dispatches are delivered once and in order, the resume point is exact,
a heartbeat is only missed when the server did not answer, the thread stops
when told; consumer - nothing routed is skipped, every failure is reported once, a
retry replaces its thread, a destroyed consumer goes quiet; publisher - what
passes the filter is published, once connected; tool - each shard's packets
reach that shard; ETF - decoding what was encoded gives the value back, and no
read or write passes the end of a buffer; checker - what it reports of a line
depends on the code that is in effect there and on the options of that file,
and on nothing that was seen in a dead branch, in another file or in a comment.

The hazards, each at its line, are listed in `PROJECT.json`.

## 2. Plan

The modules, in the order of their importance, and what of each is done:

1. `Gateway`, with its threads, hubs and the server, and `GatewayProofs`.
2. `Consumer`, of the broker's two halves the one with threads.
3. `Publisher`; `BrokerProofs` has what is proved of both.
4. `Encoder` and `EncoderProofs`: the recursion of `pack()`, its errors and the
   growth of the buffer.
5. `Nesting`, with the abstract `PlainNesting` that it implements, over the
   operators of `Blocks`; `NestingProofs`.
6. `LintFiles` and `LintFilesProofs`.
7. `Includes` and `IncludesProofs`.
8. `Brackets` and `BracketsProofs`.
9. `Cleanse` and `CleanseProofs`.

Each property of the passing runs that is not about liveness is a theorem, for
all values of the constants.  An invariant is
proved from a stronger, inductive one, with a lemma for each action; the sections
below say what the stronger one adds and why.  What is left is in section 12.

Each component has one run of its invariants and, where the runs can share
their bounds, of its liveness; the refinement is checked in the run of the
detailed module.  The modules of the library and those of the checker do not
interact; within the checker, `Cleanse` gives the lines that `Nesting`,
`Includes` and `Brackets` start from, and `LintFiles` judges what all of them
find, any error at any line.

## 3. Gateway

**State.**  `connVars` are the members of `Connection`, under their names; a
session is named by the number of the connection its READY arrived on.
`stack` has, for each thread, the calls in progress (`Dial`, `Run`, `Closing`,
`Disconnected`, `Handing`, `Destroying`); this is where nesting is modelled.
`sock` is each hub's socket; `hb` is the heartbeat thread's place in its loop;
`phase`, `sess`, `pos`, `due`, `ended`, `refused` are the server's side: `ended`
are the sessions it ended with a close code, `refused` those an op 9 refused.
`handed` records what reached the `messageHandler`.

**Actions.**  One for each opcode of `onMessage` (op 0 in two, READY and the
others), each other hub handler, each call from the application's handler, each
return of a call, and each read or write of the heartbeat thread.  A message's
handler is one step up to the call that blocks: `reconnect()` pushes `Dial`,
and what follows it happens when the frame is popped.  After the `reconnect()`
of an op 7 or op 9 that is the `messageHandler` (`Handing`), called when that
connection is long gone.  What the heartbeat thread does after it finds a
heartbeat unacknowledged is several steps, as the other thread may be anywhere:
it reads `acked` (`HbWake`), then `open` (`HbTimesOut`), closes whatever socket
`ws` is by then and clears the flag (`HbCloses`), and forgets the session and
dials (`HbForgets`).

**Outside the repository.**  uWebSockets v0.14.5 (the tag `CMakeLists.txt`
builds): a hub has a loop of its own; `close(code)` calls the disconnection
handler before the socket is marked as shutting down, and then finishes
(`CloseReturns`); a close frame or a drop calls it too (1006 for a drop); a
failed attempt calls the error handler; `run()` returns when no socket is left.
The gateway server sends HELLO first, READY after an IDENTIFY, dispatches from
the resumed sequence number after a RESUME, op 9 instead of either, op 7 and
op 1 when it likes, and one op 11 for each heartbeat; codes 4003, 4007 and 4009
end the session, and so does an op 9 that says the session is not resumable:
nothing is dispatched in it any more.

**Undefined behaviour.**  `bool d = d["d"]` in op 9 (line 201) reads itself
uninitialised: both branches are possible, whatever the message.  A session that
the server refused may therefore be kept, and be resumed on a later connection;
`ResumePointExact` says so, and says of `ended` alone that no such session is
kept.  The data races on the flags are modelled by single reads and writes that
interleave; the two assignments with which a session is forgotten (lines 140-141)
are one step.  `ws->close()` on a socket that uWS has closed, and may have freed,
does what it does on a live one, nothing, or ends the process.

**Left out.**  Contents of packets; handlers other than `messageHandler`
calling back; use of the object from other threads; a close frame lost in
transit (the server then drops the connection, which is modelled).

### Runs

| run | bounds | shows |
|---|---|---|
| `gateway_sessions` | 3 connections, 2 dispatches per session, codes 1006, 4004, 4007, one heartbeat due at a time, up to a timeout | `OpenFlagHonest`, `ExactlyOnce`, `ResumePointExact` |
| `gateway_threads` | 2 connections, op 1, codes 1006 and 4004, every handler call, past a timeout, fair | `TypeOK`, `UnackedIsOutstanding`, `NoConnectReturned`, `HeartbeatStops`, `KeepsBeating` |
| `gateway_destroy_stops` | 2 connections | violated: the header's lines on `destroy()` and the heartbeat thread |

Three connections are the least with a `reconnect()` inside a `reconnect()`
whose outer call is still pending; two are enough for a hub on each thread.
Two dispatches distinguish READY from what follows it and let a resume start in
the middle.  The invariants of sessions and of the flag are stated up to the
first timeout: from there on two hubs run on one object and they no longer hold
(the stale hub's `onDisconnection` clears `open` for the new one), until
`std::terminate()` ends the process.  `gateway_sessions` does not explore
further (`BeforeTimeout`); `gateway_threads` does.  `gateway_sessions` also
stops where two heartbeats of one connection are unanswered (`OneHeartbeatDue`):
a second one changes nothing for the session until it is the timeout that
`BeforeTimeout` excludes.  Deadlock is not checked:
`connect()` may return, the process may end, and `MaxConns` ends the nesting.

**Fairness.**  Weak fairness of the heartbeat thread and of each thread's own
steps (sleeps end, calls return, attempts succeed or fail).  None for the
server: it may be silent for ever.

### Findings

`destroy()` on an open connection reconnects before it reaches
`heartbeatOpen = false`: `disconnect()` closes with 1000, whose default case is
`reconnect()`.  The heartbeat thread goes on (`gateway.h:173-175`); this is
`gateway_destroy_stops`.

Two more can be read off the model and have no run of their own.  Of `onError`
the documentation (`gateway.h:113`) says "The client will not automatically
reconnect when this is called."; it does, exactly when a handler is set
(`gateway.cc:105-108`), from the handler of the hub that failed (`Retries`).  And after a fatal code
a pending outer `reconnect()`, from an op 7 say, dials again once the destroyed
connection has unwound, without heartbeats, as `heartbeatStarted` is never reset
(`gateway.cc:244`).

### Proofs (`GatewayProofs`)

Each is proved from the assumptions on the constants, and for any number of
connections, dispatches and heartbeats.

`TypeCorrect`: `Spec => []TypeOK`.

`UnackedCorrect`: `Spec => []UnackedIsOutstanding`.  The property is not
inductive: that a sent heartbeat counts needs that `ws` is open when the flag
says so (`OpenReceives`), and that a connection just opened cannot inherit the
debt of another needs that its handshake has not begun (`FreshIsNew`).
`OpenReceives` needs that only `main` has calls in progress before a timeout
(`OneThread`), and that the thread is started once (`StartedOnce`).  Their
conjunction with `TypeOK` is `HeartbeatInv`.

`FlagCorrect`: `Spec => []OpenFlagHonest`.  One half is `OpenReceives`; the other,
that what receives is what the object sends on (`ReceivesOpen`), depends on the
stack below its top.  When a call returns, the hub under it comes up again, and
must not receive: `Buried` says that an outer `hub.run()` whose socket is still
open lies below its own `Closing` frame, which ends the socket on the way.

`ExactlyOnceCorrect` and `ResumeCorrect`: `ExactlyOnce` and `ResumePointExact`,
together, as neither is inductive without the other.  `SessionInv` adds that
where dispatches may arrive the server and the object agree on session and
position (`InStep`), that sessions are only attached and ended once they have
begun (`Begun`, `Known`), and that nothing ever counts `tries` up (`NeverTried`):
were it 5, a session reset would be skipped.

`NestingCorrect`: `NoConnectReturned`, also past a timeout, with two threads.  Its
invariant says that the innermost call of each thread is one that cannot unwind
(`Busy`): a hub with a live socket, a dial, or `destroy()`; and that the two
threads never run the same hub (`Apart`).

## 4. Consumer

**State.**  `open` is the object's flag, `destroyed` whether the destructor
ran.  For each thread that a `connect()` started: `pc` and `step`, its place;
`link`, its connection; `bound`, the events its queue is bound to; `stream`,
what the broker sent and it has not read; what it `handled`, and `late`, how
much of that after the destructor; what it `reported`.  `errorHandler` is what
`onError()` was given: nothing, a handler that returns, or one of the two of
`tools/docker.cc`, which retries after a socket error and ends the process after
any other (lines 81-92), or always ends it (124-127).

**Actions.**  `Connect` and `Destroy` of the application; the calls before the
loop (`SetupCall`, `SetupFails`: one call of `Setup` at a time, a bind and a
consume for each event); `LoopHead`, `Consume` and `WaitFrame` of the loop; the
calls after it; `Retry`, the error handler of `tools/docker.cc:84-87` when it
wakes up; and the broker: `Publish`, `BrokerEnds`, `LinkLost`.

**Outside the repository.**  rabbitmq-c 0.8.0: `amqp_consume_message` without a
timeout blocks for a delivery; a method it cannot use is put back and reported
as `AMQP_STATUS_UNEXPECTED_STATE`; once the link is lost each call fails at
once.  The branches for `basic.ack` and `basic.return` (lines 268-286) are not
reachable, because the thread's own connection publishes nothing, and neither
is line 264, because the frame that was put back is already there.

**Undefined behaviour.**  A thread uses the members of the object after it is
gone.  It reads `open`: either value when `MemoryReused`, the one the destructor
left otherwise.  `messageHandler` and `errorHandler` are destroyed with it: a call
is made all the same, or not, or ends the process.  So `NothingSkipped` is stated up to
the destructor, and `AtMostOneLate` bounds the calls that are made.

| run | bounds | shows |
|---|---|---|
| `consumer_threads` | 2 threads, 2 events, 3 messages, any error handler, fair | `TypeOK`, `NothingSkipped`, `AtMostOneLate`, `EveryFailureReported`, `OneThreadAtWork`, `LeavesLoop` |
| `consumer_link_loss` | 1 thread | violated: a lost link is never reported and the thread spins (`broker.h:101`) |

Two threads are one retry; three messages are one before, one across and one
after the destructor.  Fairness: each thread is scheduled and its calls other
than a consume return.  The application is under no obligation and may destroy
the consumer or not; neither are the broker and the network.  `LeavesLoop` has
its hypothesis, something to read, because without it the destructor does not
stop the thread: it stays in `amqp_consume_message` (`broker.h:84` says it
closes the connection).

`EveryFailureReported` is about the AMQP calls that fail.  Of the other ways in
which a thread stops receiving none is reported: a lost link, in which it spins
(`consumer_link_loss`), an end that the broker makes, after which it cleans up as
if it had been told to (the place `clean`), and a queue name that cannot be
copied, after which it returns (`silent`).  The second has no run of its own: a
`channel.close` or `connection.close`, which the broker sends after an exception,
breaks out of the loop (`broker.cc:284-302`), where `broker.h:101` says of the
handler "Called when there is an error".

**Proofs** (in `BrokerProofs`), for any number of threads, events and messages.
`TypeCorrect` needs that a thread that waits for a frame has the method that ends
it before it (`WaitsOnEnd`).  `LateCorrect` proves `AtMostOneLate`; `LateInv` says
where a thread that was late may be: anywhere but the setup and the consume,
because the flag agrees with the life of the object, and a started thread is
fresh.  `EndsCorrect` and `OneThreadCorrect` prove `EveryFailureReported` and
`OneThreadAtWork` from one invariant, `EndInv`: what each place of a thread has
reported and freed (`Accounted`), and that the thread that retries is the one at
work (`Alone`), so that its successor takes its place.  `SkipCorrect` proves
`NothingSkipped`: `SkipInv` adds that nothing is routed to a thread before it has
opened its connection, which is what makes a new thread begin with nothing.

## 5. Publisher

**State.**  `place` and `calling` are the place of a shard's thread: in `connect()`,
asleep before the next attempt, running the gateway, in the destructor.
`nconn` numbers the connections, of which `Publisher::conn` is the last;
`links`, `channel` and `declared` are what the broker knows of each.  `offered`
and `delivered` are the packets given to `publish()` and the events the broker
took.

**Actions.**  `NewConnection`, `ConnectCall` and `ConnectFails`: one AMQP call
of `connect()` at a time; `After` is what the tool does with its result (break,
sleep five seconds, `exit(1)`, or nothing for the first call of a sharded
thread, `docker.cc:40`).  `Publishes` is `publish()` from the gateway's
`messageHandler`.  `GatewayReturns`, `CloseCall` and `CloseFails` are the end of
the thread and the destructor.  `ChannelClosed` and `ConnLost` are the broker
and the network.

**Outside the repository.**  A call of rabbitmq-c that waits for a reply fails
once the link or the channel is gone.  `amqp_basic_publish` waits for none: on a
closed channel it may succeed, and the packet is lost; the tool does not look at
the result.  A connection that was overwritten stays open until its process
ends.

| run | bounds | shows |
|---|---|---|
| `publisher_safety` | 3 attempts, 3 packets, 2 types, the first result ignored | `PublisherTypeOK`, `ReadyBeforePublish`, `NothingLost` |

Three attempts are the ignored one, one that fails and one that succeeds; three
packets of two types have a packet of each operation and each side of the
filter.  The sets of events are all subsets of the types, the empty one, which
lets everything through, included.  Deadlock is not checked: the thread ends.
After a failed close of the channel the destructor returns with the connection
open (`broker.cc:77`, against `broker.h:50`): `CloseFails` has the return.

**Proofs** (in `BrokerProofs`), for any number of attempts and packets and any
set of events.  `PublisherTypeCorrect`; `ReadyCorrect` for `ReadyBeforePublish`, whose
invariant `ReadyInv` adds that a thread past the first call of `connect()` has a
connection (`HasConn`); `LostCorrect` for `NothingLost`: nothing was offered
before the gateway runs (`NothingYet`), and each packet extends the matching of
what was delivered with what was wanted by one pair or by none.

## 6. Encoder

**State.**  A value is a node of a finite graph with a kind, children and a
size; what the encoder writes is a sequence of parts (the version, a term, a
header, the body of a string, the tail of a list), each with its length.
`calls` is the recursion of `pack()`, one frame for each call in progress with
its `limit`; `ret` is the member of that name; `length` and `allocated` are of
the buffer.

**Actions.**  `Write` is one write to the buffer, which grows it by `realloc`
when it must and may fail; `Call` is a recursive call, which throws below the
limit, and for an array or a map with more elements or entries than `MaxCount`
(2^32 - 2, lines 165 and 187), before anything of the value is written; `AfterCall` is the test of `ret` after it.  Sizes are computed modulo
`SizeRange`, 2^w for a `size_t` of w bits.

**Undefined behaviour.**  For a `uint` `pack()` reads `sint`, which was not set
(`encoder.h:129`): the term has the length of a small integer or its own.

**Left out.**  The bytes of the parts; the `malloc` of the constructor, which is
taken to succeed; a string's length beyond 32 bits;
`erlpack_append_atom`, strings and tuples, which it does not use.

| run | bounds | shows |
|---|---|---|
| `encoder_pack` | 13 values up to four deep, a limit of 3, at most 3 elements or entries, a buffer of 4 bytes, sizes modulo 64 | `TypeOK`, `Fits`, `HoldsPrefix`, `ResultTells` |

The values have every kind, the empty ones, one nested deeper than the
limit, an array and a map that are too large, and an array with one inside; the
buffer is so small that most values grow it, some more than once, and
the sizes so narrow that the product of line 98 wraps around.  A value is packed
and the run ends, so deadlock is not checked.  `HoldsPrefix` and `ResultTells`
compare with `Term`, what a value is in the external term format, `Depth`, and
`Within`, the values inside of a value.
These are constants that satisfy the equations of the format
(`FormatAssumption`, `DepthAssumption`, `WithinAssumption`), which determine them for values without
cycles; the run takes them from recursive definitions (`MCEncoder`) and TLC
evaluates the assumptions.

**Proofs** (`EncoderProofs`), for any values, sizes and limit.
`TypeCorrect` and `BufferCorrect` prove `TypeOK` and `Fits`.  `TypeOK` alone is
not inductive: a frame must be at one of its steps (`AtAStep`), also when a child
has returned to it.  `Fits` needs that a buffer once too large for the hypothesis
stays too large, as it never shrinks.

`PrefixCorrect` and `ResultCorrect` prove `HoldsPrefix` and `ResultTells`.
`Remaining(n, k)` is what the steps of a value write from the k-th on;
`RemainingAll`, `RemainingStep` and `RemainingNone` say that it is the term at
first, loses what each step writes, and is empty at last.  `Owes` adds up what the
calls in progress have left, from the innermost out.  `PrefixInv` says that what
was written and what is owed make the encoding; that after a failed write
something is missing; and that then `ret` is not 0 and every call is returning, so
that none writes again.  An error that was dropped on the way up would break the
last part.  `DepthInv` relates the `limit` of each call to how deep its value is,
and says that each value being packed is within the whole.

## 7. Nesting of blocks

`cpplint.py` keeps, for the line it is at, the blocks that are open: classes,
namespaces, `extern "C"`, and all others.  What follows a line depends on it.

**State.**  `stack` and `pp_stack` are those of `NestingState`, the innermost
first.  A block is a record with the fields that any modelled check reads.
`previous` is `previous_stack_top`: how deep it was, and whether that object is
still on the stack, which is what the comparison with `stack[-2]` (line 2898)
tells: the copies of `UpdatePreprocessor()` are other objects.  `rest` is what is
left of the line; `reports` the errors of the last step.  `braces`, `matched`,
`declared` and `complete` are history, of the text alone: how many braces are
open, whether each that was closed had been opened, whether a declaration waits for
what follows it, and whether each got it.  A line (`Blocks.tla`) is what the regular expressions of `Update()`
find in it: a directive, a change in parentheses, namespaces, a class, an access
keyword, and a sequence of braces, semicolons and closed parentheses.

**Actions.**  `BeginsLine` is `Update()` up to the parentheses, with
`UpdatePreprocessor()` in its four cases (`SavesCopy`, `Restores`, `Drops`,
`Passes`); `TakesNamespace`, `TakesClass` and `TakesToken` are its loops;
`EndsLine` is the rest of `ProcessLine()` that reads the stack (indentation in
namespaces, access of DISALLOW macros); `CompletesFile` is
`CheckCompletedBlocks()`.

**Abstract specification.**  `PlainNesting` is a file without `#else`: one stack,
and a count of conditionals.  While it is `skipping` it takes no line.  The
comment of `UpdatePreprocessor()` (lines 2396-2402) assumes that a condition is
true up to the first `#else` and false from there to `#endif`, and says that the
lines in between "do not affect nesting stack".  `SkipsElse` says that `Nesting`
implements this, with `CountingStack` for the stack: what the outermost
conditional in its `#else` has saved.

| run | bounds | shows |
|---|---|---|
| `lint_nesting` | 6 lines of 15 kinds, namespaces long from 2 lines | `TypeOK`, `EveryBraceCounted`, `SkipsElse` |

Six lines are a conditional in a branch of another with both ended, or a
declaration, its braces and what it contains across a conditional.  Every kind
of line is there: each declaration with and without its brace, abandoned by a
semicolon and by a parenthesis, assembly, a struct among the
arguments of a function.  `EveryBraceCounted` has two hypotheses, both of the
text and neither of the stack: that no brace closes what none opened (`matched`),
and that a declaration of a class or namespace is followed by `{`, `;` or `)`
before the next declaration or a `}` (`complete`), as in C++ without macros.
Without the second the scanner does miscount: of `{`, `class a`, `}` it keeps a
block, where a comment (lines 2271-2272) says "An object is pushed whenever we see a
"{", and popped when we see a "}"."  The reports of indentation and of the
access of macros have no property but `TypeOK`.  Deadlock is not checked: a file ends.

**Proofs.**  `NestingProofs`, for any lines and any bound: `TypeCorrect`, and
`ElseIsSkipped` for the refinement.  Its invariant `Inv` adds to the types that
of the conditionals in their `#else` one is outermost, and that there is
something left of a line only in it.  The step of each directive is proved of a
`View` of the two stacks (how many conditionals are below and above the
outermost, and what it saved), which is then what the refinement mapping gives.
`BracesCorrect` proves `EveryBraceCounted`: each token changes the number of open
blocks as it changes the count of braces, and `#endif` puts back what was counted
when the outermost `#else` put it aside.  A `}` pops a block whose brace was seen
because a block without one is only ever on top, right after its declaration
(`HeadsInv`).

**Left out.**  `_ClassInfo.CheckEnd`, `is_derived`, the indentation of access
keywords; `InTemplateArgumentList()` is the field `argument` of a line.

## 8. Files, filters and suppressions

**State.**  The module-wide variables, under their names: `filters` and
`filters_backup`, `line_length`, `suppressions` and `global`, `error_count`.
`pc`, `index`, `level`, `option` and `looking` are the place in `ProcessFile()`
and `ProcessConfigOverrides()`; `judged` is the last error that was found.  A
filter stands for the set of categories that begin with its text.

**Actions.**  From the backup of the filters (`StartsFile`) through the
directories (`SkipsDirectory`, `OpensConfig`, `ReadsOption`, `ClosesConfig`) to
the filters being added in reverse, an option at a time (`AddsFilters`, and
`AppliesConfig` when none is left); then a file that is left
(`SkipsFile`) or read (`ReadsFile`), its header guard step by step, as it parses
the comments of two lines early (`ChecksGuard`, `Misnamed`, `ChecksEndif`,
`Unclosed`), and its lines.  `FindsError` is any check: any category, confidence
and line, before the lines, at one, or after them.

| run | bounds | shows |
|---|---|---|
| `lint_files` | five files in a run: a header two directories down, an excluded source, a file under `set noparent`, an ignored extension, a header without CPPLINT.cfg; each kind of option and comment | `TypeOK`, `FiltersAreOwn`, `FiltersPutBack`, `EveryErrorJudged` |

`OwnFilters` says which filters decide on a category for a file, from the
directories above it alone: those of the nearest CPPLINT.cfg that mentions it, or
the command line's.  `EveryErrorJudged` compares each verdict of `Error()` with that, with
the file's global directives and with its NOLINT comments: an error is printed only if all of
them that were parsed when it was found allow it, and it is printed if they and the
comments still to come do.  An error at a comment that is still to come is left open
(see below).  The files are in an order where
each could leave something to the next.  The run of the program ends, so
deadlock is not checked.

**Proofs** (`LintFilesProofs`), for any files, directories, options and comments.
`TypeCorrect` needs that the file, directory and option looked at exist
(`PlaceInv`).  `FiltersRestored` proves `FiltersPutBack`: from the backup on
`filters_backup` is what the command line gave, and nothing but the backup is put
back (`Saved`).  `OwnCorrect` proves `FiltersAreOwn`.  `LookInv` says what
`keep_looking` stands for; `OwnInv` follows the list of filter options: while
directories are read it holds what was passed, in order (`Lists`), and while it is
emptied from its end, what is left is nearer than all that was added, and what
was added decides as it should (`Applying`).  `JudgedCorrect` proves the action
property `EveryErrorJudged` from that and `SupInv`: the suppressions are those of
the comments parsed so far, of this file.

**What the code does that one may not expect.**  A NOLINT comment is parsed when
its line is processed, so that it does not silence an error that an earlier
line's check finds at it, as that of an empty body does (lines 3904-3915), where
the usage (lines 73-75) says that the comment "suppresses errors of all categories on that
line".  `FindsError` has such errors.  Several `filter=` lines of one file
count in reverse.  `linelength` of a directory sets a global that is never put
back, and as the files are read from the nearest up, the parent's wins, where
the text at lines 168-169 says the nested one does.  An option without sign
raises `ValueError`.

## 9. Includes

**State.**  `section`, `last_header` and `include_list` are those of
`_IncludeState`; a header is its name, and `last_header` its place in
alphabetical order.  `branches`, `starts` and `group` are history: what is
included in each branch that is open, and the includes since the last
conditional.  A path has what `FileInfo` and `_ClassifyInclude()` find in its
text.

**Actions.**  `NextLine`: an include (with the checks of `CheckIncludeLine()` in
their order), `#if`, `#else` or `#elif`, `#endif`, or another line.
`CompletesFile` is `CheckForIncludeWhatYouUse()` and `CheckHeaderFileIncluded()`,
for whatever the file uses.  Conditionals are closed only where one is open:
the code does not look, and a compiler would not accept it.

| run | bounds | shows |
|---|---|---|
| `lint_includes` | 6 lines, a source file with a header of its own and six names: that header, two C++ ones, `x.h`, `lua.h`, an `x.cc` | `TypeOK`, `InEffectListed`, `NothingInEffectAsked`, `OrderReported`, `AlphaReported` |

Six lines hold a conditional in a branch with includes on both sides, or three
sections and a return to the first.

`ResetSection()` empties the last list at `#else` and never drops one at
`#endif`, so that after a nested conditional it is the inner list that is
emptied, and a header of the outer branch stays: it may be reported as already
included in the other branch.  What can be relied on is the other direction,
which is `InEffectListed`.  It is stated of the headers that the code lists
(`Ordinary`): a third party's header (`lua.h` and the like), or a `.cc` of another
directory, returns before it is, and a duplicate of the former does go by unseen.
`#else` also drops what the first branch included,
so that a header included there alone may be asked for.

`AlphaReported` says which header an include is compared with: the last one that was
looked at since the last conditional.  It may be lines above, when only duplicates
and third parties' headers are between, and it may be of an earlier section, when it was
itself out of order, as the section then stays and the header is kept (line 4491), where
the comment (lines 768-769) says that the last header is reset "If previous section is
different from current section".

**Proofs.**  `IncludesProofs` proves all five, for any paths and any file.
`InEffectIsListed` needs where each open branch began in `include_list`
(`starts`): they increase, and each branch's headers are in a list from there
on, so that the list `#else` empties is never one of an enclosing branch's.
`OrderIsReported` and `AlphaIsReported` need that `section` is the greatest rank
among the includes since the last conditional, and `last_header` that of the
last of them (`Ordering`).

## 10. Brackets

**State.**  `text` is what the scan has read, a character chosen when it is first
read; `stack` is the scan's; `i` the place of the scan back; `plain` and `legal`
are history, a stack of `(`, `[` and `{` alone.

**Actions.**  `ReadsOn` is one character of `FindEndOfExpressionInLine()`, with
the end of a line as a character, and `GivesUp` the end of the file.  From the
place that is found, `PassesOver` and `ReadsBack` are
`FindStartOfExpressionInLine()`.  `Passes` and `Shift` are what each of the two
takes for no bracket; they differ, as in the code: the forward scan looks for the
word operator in `line[0:i - 1]`, one character less than it means.

| run | bounds | shows |
|---|---|---|
| `lint_brackets` | every text of up to 6 characters of 12 | `TypeOK`, `EndsAsCounted`, `GoesBack` |

The text begins at the bracket.  What is before it on its line, which both scans
read and the scan back may run into, is not modelled, and neither is the return of
`CloseExpression()` for a `<` that begins `<<` or `<=` (line 1556).
Six characters are a bracket, a pending `<`, a nested pair and a shift or an
arrow within it.  Square brackets are treated like the others by every branch
and are left out of the alphabet.  `GoesBack` is stated of `<` only without the
word operator, a spaced `>=` and three `<` in a row (`ReadAlike`): with them the
scans disagree.  Of `<<<` the scan forward takes the first two for a shift, and
the scan back the last two.

**Proofs** (`BracketsProofs`), for texts of any length.
`CountedCorrect` proves `EndsAsCounted` and `BackCorrect` proves `GoesBack`.  The
stack of a scan is described without the scan (`Shape`): what is on it besides `<`
or `>` are the brackets that are open (`Skeleton`), and at its bottom hang as many
`<` as are open below all of them (`Hanging`).  `History` is a table of both for
each place of the text.  It is built as the scan reads on (`Forward`), and at each
place of the way back it says what the other stack must be, closing brackets for
open ones (`Backward`), so that the stack is empty at the first character and
nowhere before it.

## 11. Cleansing, and the lengths of functions

**State.**  A line is a sequence of lexemes: texts, and what begins or ends a
comment, a string or a raw string.  `lines` is `raw_lines`, then
`lines_without_raw_strings`, then `lines`; `elided` is the copy without strings;
`pending` is a raw string that has not ended; `function` is `_FunctionState`.

**Actions.**  Those of `RemoveMultiLineComments()` on the whole file, of
`CleanseRawStrings()` for one line or one raw string, `Cleanses` for
`CleansedLines`, and then, for each line, `CheckForFunctionLengths()` (five
actions) and `CheckForMultilineCommentsAndStrings()`.

| run | bounds | shows |
|---|---|---|
| `lint_cleanse` | files of one line of 5 lexemes, of two lines of 3 and up to 2 (7 kinds of lexeme), raw strings of up to three lines, and functions of 5 or 6 lines before a `}`; triggers 1 and 2, verbosity 1 | `TypeOK`, `NothingMisread`, `LongReported` |

`Read` is how C++ reads the same lexemes.  `NothingMisread` compares: if there is
no warning of a multi-line comment or string, what is left of each line is what
C++ takes for code.  It has a hypothesis, `Understood`, each part of which
excludes a file that the code misreads in silence: a quote in a comment, on a
line that is not one of a comment of several lines (a `//` may follow and be
taken for text of a string); an `R"(` in a string; a `*/` in code; code that
follows the end of a comment of several lines, which is lost; and a line in a raw
string that begins as such a comment does, whose lines are removed before raw
strings are looked for.  Without any one of them TLC finds such a file.
`LongReported` says that a function is reported exactly when more lines than its
trigger have code and are counted, and with a confidence that the verbosity lets through,
though trigger and confidence are computed apart.  What is counted is the code's
own choice, and not quite the body: it begins after the last line that was taken for
a head with a body, so the lines of a head of several lines, after its first, are
in it; and a line that begins as a head does, with names and a parenthesis at the
margin, is not, though it has code: `f(x);` at the margin of a body is one, which the
docstring (line 2918) does not exempt.
A comment without an end is reported at the line after the one it begins on
(line 1336, where the docstring at 1155 says "The number of the line containing the
error."), which for one that begins on the last line is not in the file;
`TypeOK` has the line after the last for it.

**Proofs** (`CleanseProofs`), for files of any length and lines of any length, any
triggers and any verbosity.  `TypeCorrect` needs that the line checked for strings
is one of the file (`TypeInv`).  `MisreadCorrect` proves `NothingMisread` and
`LongCorrect` proves `LongReported`.  The argument is in three layers.

*Operators.*  What C++ reads, what the two regular expressions cut and what is
code are functions defined by recursion along a line.  `FoldExists`, `FoldUnique`
and `SeqInduction` give, for each, the equation that adds one lexeme
(`ReadAppend`, `CutUpToAppend`, `CodeOfAppend`) and the one that joins two pieces
(`ReadConcat`, `ClearConcat`, `QuotedConcat`).

*One line.*  `Scanned` goes along a line with the code and C++ at once: as long as
no `//` was seen, the two are in the same kind of place (`NotSeen`), and after one
either the rest is a comment for both or the comment left over will be warned of
(`Seen`).  So a line that is `Clear`, has no raw string and is not `Warned` of is
elided to its code (`Elided`).  `RawTaken`, `RawPends` and `RawEnds` say the same
of taking out one raw string: the new line and the old are read `Alike`.
`ScannedShown` and `BlankShown` follow `CleanseComments()` alone, which leaves the
strings: a line is blank afterwards exactly when C++ sees no code and no quote.

*The file.*  `FileInv` has a part for each pass, which ties its lines to the file
up to line `n` and says that the rest is untouched: the comments of several lines
that were cleared are those that `Commented` names, which is defined of the file
alone (`CommentsInv`); of each line the raw strings are out, with a flag that says
whether it begins in one (`RawInv`, `LineSo` for the line at hand and `LineDone`
for those behind); the copies are made of such lines, and none behind was warned
of (`ElidedInv`).  `FileRead` then shows, line by line, that C++ is where the flag
and `Commented` say it is.  For `LongCorrect`, `LengthInv` adds that
`function.lines` is the number of the lines since the head that are not blank, and
that no later line has a report yet; `LevelIs` relates the confidence, a
logarithm, to the trigger, a power.

**Left out.**  Character literals, escapes and digit separators; the delimiters of
raw strings, of which there is one; `#include` lines, whose strings are kept;
assembly.

## 12. Only model-checked, and not modelled

Liveness under fairness is checked by TLC only; it is out of the prover's reach:
`HeartbeatStops`, `KeepsBeating`, `LeavesLoop`.  Everything else that a passing run
checks is proved.  The two properties that are violated, `DestroyStopsHeartbeat` and
`LinkLossReported`, need no proof: each run shows a behaviour.

No proof uses the library's induction theorems, whose parameter is an operator;
where a fact needs induction over numbers or lines (`CleanseProofs`), it is
stated of a set: the numbers, or the lines, of which it holds (`SetInduction`,
`SeqInduction`, both from the least element of a set of numbers).

Not modelled: `utils.c` and `sysdep.h`, for the reasons of section 1; the values
and the decoder of the ETF format, which have no state but an offset, and whose
hazards (narrowing, lengths that are taken from the input) lie in the bytes;
the start-up of the docker tool and its composition of shards, publishers and
consumer, where a copy of each connection is taken before it is connected; the
contents of gateway packets.  Of `cpplint.py`, the checks that look at one line,
or a few, by regular expressions: they keep no state, and a model would be the
expressions again.
