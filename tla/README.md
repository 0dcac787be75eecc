# ferrijs in TLA+

ferrijs embeds QuickJS in a Rust host. A *realm* (`Runtime`) owns one engine,
one thread of JavaScript and the tasks around it; a host makes *runs* on it, from
any thread, each with a budget of time and memory, its own console and a verdict
on whether the realm may be used again. Around the engine stands a library of web
and Node interfaces written in Rust: streams, fetch, events, keys, files, buffers.
These modules model that machinery: how work reaches the engine, how it is
stopped, how a run ends and what it leaves behind, and what the library promises
the scripts that use it. Paths below are relative to `src/crates/`.

## The system

### Parts, state and operations

| Part | State it keeps | Operations | What makes it correct |
|---|---|---|---|
| VM loop, `ferrijs/src/vm.rs` | the job channel, the admission counter, parked jobs, the shutdown signal | `reserve`, `with_parked`, one poll of a job, drop of a caller, `VmShutdown` | permits neither lost nor doubled; a dropped caller's job unwinds; a parked job blocks nobody; shutdown answers everyone |
| Interrupt deadlines, `TimeoutState` in `ferrijs/src/limits.rs` | armed budgets by token, their cached minimum, `cancelled`, `timed_out` | `arm`, `disarm`, `arm_host`, `disarm_host`, `cancel`, `expired` | the minimum is exact; a halt is for a budget that ran out, pauses given back; one that ran out is noticed |
| Backstop, `Budget` in `limits.rs`, `Parked` in `vm.rs` | the limit, its start, the pause reading, the parked signal and its waker | `run`, `run_once_parked`, `Parked::raise`, `poll_parked` | no lost wake; never too early, never not at all |
| Run bracket, `Runtime::run` in `ferrijs/src/runtime.rs` | `poisoned`, the armed token, the console slot | `run`, `finish`, `finish_backstop`, `RunGuard` | every run is answered; a force-halt is reported and poisons; a poisoned realm takes no new run |
| Uncaught exceptions, `ferrijs/src/uncaught.rs` | `Watch`: active, failed, the error, the body's waker | `begin`, `end`, `take`, the handler, `Guarded` | an exception fails the run it happened in, at once, and no other |
| Limits of a run, `apply_limits` in `runtime.rs` | `AppliedLimits` and the engine's own ceilings | `apply_run_options`, the three setters | a skipped setter never leaves a run under another's limit |
| Realm pool, `ferrijs/src/pool.rs` | ready realms, builds in flight | `acquire`, `refill`, `fill` | never over target; tops itself up; a failed build gives its place back |
| Console, `console.rs`, `console_fmt.rs` | one slot per realm, entries and bytes captured; groups, counters, timers | `retarget`, `push`, `drain`, `clear`, the methods | what a run logs is in its capture, within its limits; runs start clean |
| Script cache, `script_cache.rs` | a bounded table with recency | `get`, `put` | bounded; evicts the least recent; never the wrong script |
| Bytecode cache, `ferrijs-bundle/src/cache.rs` | stored bytecode and the stamps of its inputs, on disk | `load`, `store` | a hit is what compiling now would give, whoever else writes or dies |
| Modules, `ferrijs/src/modules`, `node/require_resolve.rs` | the table of native modules with its index, reserved names and aliases; the realm's instances | `register`, `alias`, `retain`, `import`, `require`, `require.resolve` | a name is served by the module the table says |
| Lazy globals, `ferrijs-std/src/lazy.rs` | which groups of globals are installed | touching, assigning and deleting a name | the script finds its own changes again |
| Permissions, `ferrijs-permissions` | grants and denials of one realm, behind one lock | `check_*`, `has`, `revoke`, `deny`, `drop` | deny wins; a realm's permissions only narrow |
| Fetch engine, `ferrijs-fetch` | per request: hops, cookies, budget, challenges | `send`, `send_hop`, `rewrite` | bounded hops; credentials do not follow to another origin; deadline kept |
| Fetch glue, `ferrijs/src/fetch` | the socket, the body stream over it, the pump under a request, the lists of headers | `fetch`, `body`, `text`, `clone`, `abort` | a body arrives whole or fails; its socket is not kept |
| Streams, `ferrijs-std/src/stream_web` | queue, state, pending pulls, reads and writes | controllers, readers, writers, `pipeTo`, `tee`, transforms, iteration | chunks in order, each once; one pull at a time; everyone learns of the end |
| Abort and events, `ferrijs-std/src/abort`, `events` | reason, listeners, dependent signals | `abort`, `any`, `dispatchEvent`, `emit` | whoever listens is told, once |
| Timers, `ferrijs-std/src/web/timers.rs` | tasks by id, nesting level | `setTimeout`, `setInterval`, `clear*`, firing | a cleared timer does not fire again; nesting clamps; no bursts |
| Keys, `ferrijs-std/src/crypto/subtle` | a key: algorithm, usages, extractability, material | generate, import, export, wrap, derive, sign, encrypt | a key does what its usages say; a secret stays in |
| Buffers, `ferrijs-std/src/buffer`, `node/buffer.rs` | array buffers, views, blobs | the calls of `Buffer` and `Blob` | a view is of its place; a blob never changes |
| Text, lists, paths, values | a decoder's bytes, lists of pairs with their iterators; mostly none | decoding, `URLSearchParams`, `FormData`, `node:path`, JSON, `inspect` | what goes in comes out |
| File handles, `ferrijs-std/src/fs/file_handle.rs`; timeline, `web/performance.rs` | cursor, size; marks and measures | read, write, truncate; `mark`, `measure` | the file is what was written |

### How they interact

A host task calls `Runtime::run`. It looks at `poisoned`, takes a permit of the
VM loop (`reserve`), applies its limits under the engine's lock, arms its
deadline in `TimeoutState`, points the console slot at its capture, marks the
uncaught-exception watch active, and sends a job through the loop's channel.
The loop spawns the job on the engine's scheduler, in the same task that drives
promises, timers and everything else. Each poll of the job looks at its reply
channel first, which is how a dropped caller stops it. While JavaScript executes,
QuickJS calls the interrupt handler, which reads `TimeoutState` from the VM's
thread without any lock. When the job parks on host I/O it raises `Parked`, and
only then does the waiting caller start a timer, the backstop. The end of the run
(reply, backstop, or the host dropping it) disarms the deadline, ends the watch
and classifies the outcome, and may poison the realm. A `RealmPool` builds
realms ahead of need on background tasks.

The library's objects live on the VM's thread. A script calls them, they call the
script back in the middle of an operation (`size`, `pull`, listeners, getters) and
in promise jobs later, and some wait for tasks of the runtime: a socket, a timer, a
thread that writes a file. `fetch` stands on streams (a response's `.body`, the
pump under a request), signals (abort) and the engine; `pipeTo` and transforms on
both kinds of stream; `tee` and the iterator on readers.

### What is hard here

* Two threads: host tasks change `TimeoutState`, the watch, the console slot,
  the permit counter and the parked signal while the VM's thread reads them,
  several loads in a row, with no lock across them.
* Cancellation by drop: a Rust future may be dropped at any await, so every
  operation with an await in it has a partial version nobody wrote.
* A wake has to come from somewhere: the parked signal, the reply, the watch, the
  closed reply channel. A wake lost is a run that hangs.
* Overlapping runs share one watch, one console slot, one set of limits and one
  interrupt handler.
* Re-entrancy: the script runs in the middle of stream, event and lazy-global
  operations and may call the same object.
* Order: what a promise job still finds depends on the jobs before it.
* Caches that outlive what they were made from, and processes that share them.
* Time that does not count: a host that stops the process in a debugger gets its
  budgets back.
* Builds, bodies, sources and sinks that fail, panic or never end.

The hazards, each at its line with the properties that cover it, are listed in
`PROJECT.json`.

## The modules

| Module | Models | Depends on |
|---|---|---|
| `JobService` | what the VM promises a caller, abstractly | |
| `VmLoop` | `vm.rs`: permits, channel, job polls, loop, shutdown; with the proofs | refines `JobService` |
| `Deadlines` | `TimeoutState`, the interrupt handler, the host's slot; its inductive invariant | |
| `Backstop` | `Budget`, `Parked`; its inductive invariant | |
| `RunBracket` | `Runtime::run` with `uncaught.rs`, the interrupt handler's halts, callbacks; with the proofs | |
| `RunLimits` | `apply_limits`; its inductive invariant | |
| `RealmPool` | `pool.rs` | |
| `Permissions` | policies that narrow, and the inductive invariant; what rules on hosts and paths cover | |
| `Readable`, `Writable` | the operations of both kinds of stream with default controllers, as operators on a record | |
| `ReadableStream`, `WritableStream`, `WritableStream_proofs` | those operations in the hands of a script; the proofs about the latter | `Readable`, `Writable` |
| `Transform`, `Pipe` | `TransformStream`; `pipeTo` | `Readable`, `Writable` |
| `Tee`, `AsyncIteration` | `tee()`; `ReadableStream.from` and the asynchronous iterator | `Readable` |
| `ByteStream`, `ByteTee` | byte controllers, BYOB readers; `tee()` over them | `ByteTee` on `ByteStream` |
| `FetchEngine` | `send` of the engine: redirects, challenges, retries, the cookie jar; its inductive invariant | |
| `FetchBody`, `RequestBody` | the body of a response; the body that is sent; their inductive invariants | `Readable` |
| `AbortSignals`, `Emitters` | signals and their listeners; event emitters; their inductive invariants | |
| `Timers` | timers; the inductive invariant | |
| `CryptoKeys` | the rules on keys, and keys in the hands of a script; the inductive invariant | |
| `Buffers` | what calls on buffers compute, and who shares whose bytes | |
| `ConsoleCapture`, `ConsoleMethods` | the buffered capture; counters, timers and groups | |
| `ScriptCache`, `BytecodeCache` | the two caches of compiled code | |
| `LazyGlobals`, `Modules` | globals on first touch; the module table | |
| `TextChunks`, `NameLists`, `Paths`, `FileHandles`, `Timeline` | decoders; lists of pairs; paths and `require.resolve`; file handles; performance entries | |
| `ValueWalks`, `Inspecting` | serde, `to_json` and `JSON.stringify`; `inspect`, `format`, `table` and deep equality | |
| `MCHost`, `MCFetch`, `MCRealm`, `MCStreams`, `MCWeb` | the instances TLC checks of parts that share no state. Where a part has theorems the module takes its constants from the configuration and has them: `MCHost` about `RealmPool`, `Backstop`, `RunLimits` and `Deadlines`; `MCFetch` about `FetchEngine`, `FetchBody` and `RequestBody`; `MCStreams` about `ReadableStream`, and what follows for it from those about `WritableStream`; `MCWeb` about `Permissions`, `Timers` and `CryptoKeys`, and what follows for it from those of `MCListeners` | the above |
| `MCListeners` | the instances of `AbortSignals` and `Emitters` that `MCWeb` checks, the lemmas on parts of sequences, and the proofs about both | `AbortSignals`, `Emitters` |

Each `MC` module holds several parts. Its variable `subject`, chosen by the initial
state, says which part a behaviour is about; the variables of the others stay in
one state. An initial state is thus an initial state of one part, a step a step of
that part, and a property of the form `subject = "x" => ...` is the part's own
property. Parts that share the slots `s1`, `s2`, ... get them by the `INSTANCE`'s
substitution.

`RunBracket` sits on the other components of a run and abstracts each by
what their modules check of it: an armed deadline lapses at some moment
(`Deadlines`), the backstop fires at some moment after that and never loses its
wake (`Backstop`), a job is admitted and polled again when it is woken
(`VmLoop`), limits do not matter to how a run ends (`RunLimits`).

Operators named `X_Something`, each commented `Variant:`, are defects of the kind
this code could have had, one per property; they are not part of any
specification. Replacing the body of `X` with `X_Something` has TLC find the
property violated, which is how we know the property says something of the code.

### VmLoop

A call is a call of `with_parked`, at most once. `caller[c]` is where its future
is (reserved, waiting, answered, dropped), `job[c]` where the closure it sent is.
One poll of a job is several steps, because the caller lives on another thread
and may be dropped between any two instructions: `JobStart` (the look at
`tx.is_closed()` before the body is called), `JobEnter` (`f(ctx)`), `JobCheck`
(the look at the start of every poll), `JobBodyReady` or `JobBodyPending`,
`JobPark` (`poll_closed`, which registers the waker that `CancelWakes` stands
for), `JobRelease` (future and permit dropped), `JobReply`. Between `JobStart` and
the end of a poll nothing else executes on the VM's thread. `LoopReceive`,
`LoopBreak` and `LoopEnd` are the `select` loop; its end drops the receiver and
the queued jobs with it. `RuntimeDropped` is the engine going away with the
parked jobs, modelled from how `vm.rs` relies on it. A permit is held by a
reservation or by a job, so the counter of `reserve` is `available`.

`JobService` has no channel, no permit and no poll: calls are admitted up to a
bound or refused at it, work begins, completes or is abandoned, and only a call
whose work completed is answered. The mapping is `ClientOf`, `WorkOf` and
`Service` at the end of `VmLoop`.

### Deadlines, Backstop

Time is in ticks. `armed` is the table of `TimeoutState`, `earliest` the atomic
beside it; both change together, under the lock. `expired()` is five steps, one
per load: `CheckCancelled`, `CheckMinimum`, `CheckElapsed`, `CheckParked`,
`CheckScan`; runs and the host arm and disarm between any two of them. Whether the
clock can be held (`never_parks`) is the host's choice when it builds the realm,
so `Init` chooses. `Start` and `Arm` are separate because the limits are applied
in between.

`task[r]` is the caller's task inside `run_once_parked` and `run_until`: it polls
its future, registers its waker, looks at the signal again, then sleeps without a
timer or with one. `JobParks` and `JobWakes` are the two halves of `Parked::raise`.
A waker that fires while the task is being polled is kept in `notified`, as the
executor does.

### RunBracket, RunLimits, RealmPool

`pc[r]` is the host's task in `Runtime::run`; `job[r]` its body; `vm` what the VM's
thread executes, one thing at a time: a body, a callback some body left behind, or
the handler of an uncaught exception, which reads the watch (`CallbackThrow`) and
stores to it (`Report`) in two steps with the host's `end()` and `take()` possibly
between. Deadlines lapse at any moment once armed (`Lapse`); then whatever
JavaScript executes can be halted, and a halted body either fails or is left
waiting for ever. `thrown` and `halted` record history for the properties and are
read by no action. The session's shutdown is not here: a run borrows the `Runtime`
that owns the `VmShutdown`.

Each of the three limits is looked at, recorded as applied and then set, and the
setter waits for the engine's lock: other steps, and the drop of the run, come in
between. `applied` is the record and `ceiling` what the engine holds.

A take of the pool is `Pop`, `Refill` (under the lock) and, when there was nothing
ready, `InlineBuild`. A refill counts what is missing into `building` and spawns that
many tasks one by one; each builds, fails or panics, and then gives its place up under
the lock. Takes borrow the pool, so it cannot be dropped under them; it can under
its builds. `failures` and `panics` count background builds, for the properties.

### Streams

A stream is a record, and an operation of the code an operator from the record before
to the record after, so that `Transform`, `Pipe`, `Tee`, `FetchBody` and
`RequestBody` compose streams by composing operators. Where the code calls the script
in the middle of an operation and goes on afterwards, the operator is split there:
`sizing` (inside `size()`) and `frames` (inside `size()` and the listeners of the
controller's signal) hold what the code keeps on its stack. `pull()` ends the operation
that calls it, and the script's re-entrant call is simply the next action, save in a read
that is served from the queue (`pull_steps`): its chunk is dequeued, `pull()` runs, and
only then is its promise settled. `ReadableStream` keeps such a read in `settling` until
`pull()` returns (`PullReturns`), and its `answers` are in the order in which the stream
decides them, which for such a read is when its chunk is taken. A `pull()` that reads and
enqueues there settles the later read first, so the properties about order go by the reads
and not by their promises. The other owners of a readable stream take a read as one step:
their `pull()` is native (`Transform`, `FetchBody`), or native code reads from a script's
stream, one chunk at a time (`Tee`, `Pipe`, `RequestBody`), or nothing is queued ahead
(`AsyncIteration`). `ByteStream` does as well: with a mark of 0, the one its run uses, a
read from the queue calls no `pull()`; for higher marks its order of settling is not
modelled.

Promise reactions are actions of their own. In `Pipe` their order matters for what a
shutdown still finds, so a job also says after how many turns of the engine's queue
its promise settles (`hops`); in `Tee`, `ByteTee` and `AsyncIteration` jobs run in any
order, except that a read's chunk comes before its stream's rejection. The branches
of a tee keep the reader they are given first; a release is in `ReadableStream` and
`ByteStream`.

`FetchBody` has the three ways to a response's bytes: the socket, the stream over
it, whose every pull is a task that holds the socket's lock, and `text()`, which
holds the response. `RequestBody` has the pump that reads the script's stream into
a channel of one chunk. `text()` over a stream (`drain_stream`) has one read out at a
time; `text.read` is the place of its answer among the answers of the stream, which are
kept in the order they were given (`NextAnswer`).

### Requests, permissions, keys

`FetchEngine` takes one request hop by hop; servers answer anything, a shared jar
changes between hops, time passes in retries. `Permissions` is the lock-protected
policy: `Revoke`, `Deny`, and `drop()` in two steps, for it narrows to a copy it took
before. In `CryptoKeys` one suite of algorithms at a time is chosen and keys are made,
imported, exported, wrapped, unwrapped, derived and cloned in any order; what the
script has in clear text is `plain`.

### What a realm keeps

`BytecodeCache` separates names from files, since the temporary file is named for
the process and two of its threads share the name; `Crash` may strike a process between
any two steps and loses its tasks, not its files. `LazyGlobals` runs an install as one
operation that asks for other groups in its middle. `Modules` has the table's set-up by
extensions and policy first, then imports and requires by the script. `Buffers` keeps
for every view the places of its store it is meant to be of, and for every blob what it
was made of.

### Data

`TextChunks`, `Paths`, `ValueWalks`, `Inspecting` and the first half of
`Buffers` are operators checked over all inputs of a bound against a definition of
what they are for: the whole text, the walk through directories, what JSON.stringify
is to find, the places where a needle is. Characters, segments, values are members
of small sets. Where the code is known to differ from its reference the property
says in which cases it may (the exceptions are listed under the divergences below).

## What the runs check

| Run | Instance | Shows | Seconds |
|---|---|---|---|
| `VmLoop` | 3 calls, 2 permits | `CallsAndJobsAgree`, `RefusedOnlyWhenFull`, and that `VmLoop` implements `JobService` | 5 |
| `RunBracket` | 2 runs one after the other, fair | an uncaught exception fails its run, wakes a parked body, is not heard by the host's hook and does not outlive its run; the console is the run's; every run ends; the body of a dropped run stops | 25 |
| `MCHost` | pool: 3 takes, target 2, 2 failures; backstop: 1 run, 5 ticks, limits of 1 and 2; limits: 3 runs in turn, 2 limits, 2 values; loop: 2 calls, 2 permits; deadlines: 2 runs and the host's slot, both kinds of clock, 2 ticks, timeouts of 1 and of more than can be represented | the pool is never over target, tops up and settles full; the untimed wait loses no wake, the timed one gives up when due and then only; only a drop in a setter misleads a later run; a cancelled call is undone and every call moves on; `BudgetsAreExact`; on a clock that can be held a halt is for a dropped run or a budget that is due (`HaltedOnlyWhenDue`); due budgets and dropped runs are noticed (`OverrunsHalt`) | 130–200 |
| `MCFetch` | a request over 3 urls, 2 redirects, 1 retry; a response of 4 chunks and `text()` of 3; a request body of 4 chunks, high-water marks 0 to 2 | a request keeps its cookies, limits, payload and deadline (`RequestsAreGoverned`); bodies arrive whole or fail, and let go of their sockets (`BodiesAreWhole`) | 20 |
| `MCRealm` | 2 overlapping runs; and one instance each of `BytecodeCache`, `ScriptCache`, `ConsoleCapture`, `ConsoleMethods`, `LazyGlobals`, `Modules`, `Buffers`, `TextChunks`, `NameLists`, `Paths`, `ValueWalks`, `Inspecting`, `FileHandles`, `Timeline`, the calls of `Buffers` | a force-halted body never passes for a finished one, and poisons; a poisoned realm submits no body; what is kept is right (`KeptIsRight`); what a script puts into the library comes back out (`DataComesBack`) | 120–180 |
| `MCStreams` | 3 chunks, 2 reads, 2 readers; 2 writes, 2 writers, callbacks 2 deep, high-water marks 0 and 1 to read and 0 to 2 to write; a tee over 3 chunks; 4 calls of an iterator over 2 | chunks once and in order, no algorithm after it was cleared, demand pulled for, backpressure, the end told; every call is answered; a tee's and an iterator's source is shared fairly | 110 |
| `Transform` | 2 writes, 2 reads, high-water marks 0 and 1 | chunks pass, failures reach the writable side, no standoff between a read and a write | 60–90 |
| `Pipe` | 2 chunks, every choice of options, either end failing or a signal at any job | chunks are handed over in order under backpressure; a pipe that settled is over; it settles and lets go | 130–190 |
| `MCWeb` | one instance each of `Permissions`, `ByteStream` (high-water mark 0), `ByteTee`, `Timers`, `AbortSignals`, `Emitters`, `CryptoKeys` | the policy only narrows; and `BytesReachTheirReads`, `TimersKeepTime`, `AbortsAreHeard`, `KeysAreSound` | 65–110 |
| `RunBracketLateReport`, `TransformCancelled`, `ByteStreamStale` | as above | violations: what the docs or the code's own assertions say and the code does not do (below) | |

A property named in a run is the conjunction of what its part promises; the parts
of the conjunction are stated, each with its own comment, in the part's module.

### Bounds, and why they are enough

* *Calls and runs.* The components have no state that grows with the number of
  calls beyond the queue and one record per call. Three calls for two permits is
  the smallest instance with a call that is refused, one that takes up a freed
  permit and one that is still in flight. Two runs are enough for one to leave
  something to the next (serially) or to disturb another (overlapping); three
  for `RunLimits`, where one drops, one is misled and one repairs.
* *Time.* `MaxTime` cuts the clock off. Two ticks let a budget of one tick be armed,
  be held through its deadline and run out later. The backstop has five, for a
  limit of two, a pause and a second pause while it sleeps. Timeout 9 with
  `DISARMED` = 3 is a timeout whose deadline overflows the clamp, and is clamped to the
  last tick there is. Timers have four
  milliseconds for delays of 0 and 2: an interval of no delay reaches the clamped
  levels at once and waits its first four there, and one of two is overrun.
* *Failures.* `MaxFailures` bounds failing builds in `RealmPool`; two lets both
  builds of a full refill fail. A process dies at any step of `BytecodeCache`; one
  edit of an input, with three tasks in two processes, lets a stale compile meet a
  fresh one.
* *Streams.* One chunk in the queue, one being sized or pulled and one to come is the
  smallest stream in which an overlap can reorder, hence three; two readers let one
  come after a release. `HandOver` lets a writer change hands inside a callback.
  `Sizes` has 0 and 2, for a chunk that fills nothing and one that overfills. In
  `ByteStream` four bytes, elements of two and chunks of one and three leave a rest in
  every place where there can be one.
* *Requests.* Three urls: a site, its plain twin, a host below it; two redirects, one
  retry. *Bodies.* Four chunks, one more than `text()` takes; four reads of the script, so
  that it may leave any number of them to `text()`.
* *Keys.* Two keys and one made; suites pair what wraps with what can be wrapped.
* *Data.* Inputs are all those up to the sizes in the `MC` module: four bytes of text
  with the ends of each range of UTF-8 and UTF-16, paths of four segments, two
  objects that may hold one another, needles of two in five bytes. Depths (`MaxDepth`,
  `StackDepth`, `DetectionDepth`, `PathMax`) are lowered to where small inputs pass them.
* *One uncaught exception at a time* is not a bound: any callback may throw.
* No run uses symmetry.

Runs say `CHECK_DEADLOCK FALSE` because calls, runs, chunks and takes are finitely many
and the system rests when they are over; some subjects of `MCRealm` and `MCWeb` have no step at all.

### Fairness

* `VmLoop` (as the loop of `MCHost`): strong fairness of the loop and of a job that is
  due a poll. The loop task polls `recv` first and the scheduler then serves its wake
  queue in order, with a yield, so neither is passed over for ever by the other. Weak
  fairness of the instructions of a poll and of a caller that has its answer. None of
  bodies (a parked one may wait for ever), of calls being made or dropped, or of the
  session.
* `Deadlines` (in `MCHost`): weak fairness of the handler, because JavaScript that keeps running
  keeps being interrupted. None of the clock or the host.
* `Backstop`: a woken task is polled, a timer that is due fires, the thread that
  raised the signal goes on to wake. None of the job.
* `RunBracket`: host tasks are polled, armed deadlines pass, JavaScript executing
  past a deadline is halted, jobs due a poll get it (strongly: callbacks keep the VM
  busy in between). Bodies and callbacks need never end.
* `RealmPool`: spawned tasks are polled and builds end. Nobody has to take a realm.
* Streams: promise reactions run, because the loop drives the engine's queue until it
  is empty, and a callback that was entered (`size()`, `pull()` in a read) returns. Of a `ReadableStream`'s source the
  fairness assumes in addition that it answers each pull by an enqueue, a close or an
  error: that is its side of the contract, and without it no read has to be answered.
  Of a `WritableStream`'s sink, that the promises it returns settle. `Transform` needs
  the reactions alone.
* `Pipe`: the jobs in the queue run, and source and sink settle what they were asked.
  It is weak fairness, spelled out (`[]<>~enabled \/ []<><<A>>_vars`) with the condition
  that enables each action, which TLC evaluates faster than `ENABLED` here.

In `MCHost` and `MCStreams` the fairness of a part is asked only of behaviours whose
`subject` is that part; of others it asks nothing.

## Where the code and its documentation disagree

Three have a run whose counterexample is the sequence of steps.

* `RunBracketLateReport` (`ferrijs/src/uncaught.rs:76`): the handler reads `active` and
  `failed`, and then stores. A run that ends in between leaves its exception in the
  watch, and the next run fails with it.
* `TransformCancelled` (`stream_web/transform/stream.rs:228`): a write that waited for
  backpressure transforms when it is woken, whatever woke it. After a cancel, an error
  or a terminate the algorithm is gone and its `expect` panics.
* `ByteStreamStale` (`stream_web/readable/stream/mod.rs:594`): the buffer of a default
  read may outlive the read when bytes a BYOB reader left answer it; the commit of that
  buffer finds no request, and its `expect` panics.

The rest were met on the way. A property that would fail for one of them says what it
leaves out, so each is a condition in some formula.

*Runs.* The default clock answers from one load of the minimum, so a halt can land
after the run it belonged to was disarmed (`limits.rs:145-148` says it cannot);
`HaltedOnlyWhenDue` speaks of clocks that can be held. The deadline counts from the
start of `run`, the pause clock from the arming. With `backstop_poisons` false the
backstop path ends the watch without `take()`, and the realm keeps the exception. A
force-halt is reported only by a run that fails: a halted callback whose run answers
`Ok` leaves the realm unpoisoned. A limit is recorded before its setter is awaited, and
a run dropped there leaves the record ahead of the engine. Of two overlapping runs the
second takes the console slot, the first to end switches the watch off for the other,
and limits may be recorded in one order and set in the other: the properties of the
console, the watch and the limits are checked of hosts that make one run at a time. A
continuation of a dropped run that ends before the next interrupt check runs to its end.
A build of the pool that panics keeps its place in `building`. A full pump loses the
message unless the sender looks at the answer.

*Console and caches.* A message longer than `max_entry_bytes` is cut at a byte, which
panics inside a character; the mark that it was cut goes past the limit; after a
truncation nothing is captured even once the console was drained. An input edited
between the bundler's read and the stamping is cached stale, and a deleted one is left
out of the stamps, though `cache.rs:26-28` speaks of every input. Threads of one process
share `tmp.{pid}`.

*Streams.* `releaseLock` forgets the reads that wait, where its comment rejects them.
The writer is read before the sink's `close()`, and one that came since is not told. A
sink's abort of a transform leaves the readable side live. `size()` that re-enters can
strand a read. A pipe still reads once after it began to shut down, and with
`preventClose` may succeed though its last write failed. The iterator forgets the last
call when an earlier one is answered: a call that overtakes may free another reader's
lock, and a `return` with `preventCancel` that does so strands a `next`. Byte streams:
`Float16Array` accepts a `min` up to its byte length, after which the queue is processed
without end; an eager `throw_type` inside `ok_or` leaves an exception pending; a
re-entrant `enqueue` overtakes; `respond()` to a buffer of a released BYOB reader queues
bytes beside a default read that waits. Closing a byte source while a branch of its tee
holds part of an element throws, so that the other branch is never closed and the
cancel promise never resolved (`byte_controller.rs:521-528`). `native_pull` and
`finish_promise` are never called.

*Fetch.* A retry sleeps its backoff whatever the deadline. A streamed request is
refused at a second redirect even when the first made it body-less. `fetch` of a
`Request` with a stream body sends nothing and does not mark the request used;
`new Request(other)` drops the stream, and gives back bytes that were drained through
it; a clone of a partly read one is not disturbed. `text()` after a partial read and a
release resolves with the rest; `bodyUsed` is not set by reading `.body`. An async
method holds the response, so other calls throw meanwhile. A size limit or time-out met by
the stream leaves its reader locked and the socket open; met by `text()` it frees both.
A cancel during a pull keeps the socket until the body is collected, though `streams.rs`
says otherwise. An abort under the pump leaves the script's stream locked and
uncancelled.

*Events and timers.* A composite signal is aborted by each of its sources; one made of an
aborted signal never sends on its channel; a listener that throws before the follower
keeps the composite from aborting; a listener that was removed during a dispatch is
still called; setting `onabort` twice adds a listener; `reason` can be assigned to
(`abort_signal.rs:157-163`) and "abort" dispatched by a script, neither of which aborts. An object that inherits from an
emitter shares its table; `emit("error")` without listeners answers false. A timer that
is cleared when due may fire once. The nesting level is restored before promise
continuations, so a loop of `await sleep(0)` is never clamped.

*Keys.* A generated Ed25519 private key exports no JWK and gives no public key, though
`supports` says it does. AES-KW wraps with keys of other algorithms, and padding is
undone for JWK only. ChaCha20-Poly1305 exports "raw" and does not import it. A generated
pair asked for the public usage alone has a private key without usages. RSA generation
takes fewer lengths than `supports` names. The length of an AES key is reduced modulo
2^16, an EC import from PKCS#8 does not compare the curve, `unwrapKey` skips
`validate_import_algorithm`, a short `alg` in a JWK makes a slice panic, and prepared
errors stay pending.

*Buffers.* An empty fill panics (`i % 0`), so does `toString` with start past end; `copy`
between overlapping ranges is `copy_nonoverlapping` (modelled as either order);
`Buffer.from(Uint8Array)` shares; `concat` pads nothing when the total is longer; native
line endings keep a lone CR; a search in UTF-16 may find or miss the unit it begins in.

*Text, lists and paths.* `StringDecoder` misaligns UTF-16 after a high surrogate that
waits and a unit with a byte D8..DB; `end()` leaves an odd byte for the next text. A
`TextDecoder` strips a byte order mark from a last chunk in mid-text.
`URLSearchParams.set` drops duplicate pairs of other names. `forEach` of `FormData` and
`Headers` throws when its callback changes the list. Resolving loses the root when ".."
comes to it from the working directory; `extname("..")` is "."; `join("a", "/")` drops
the slash.

*Values.* A box whose `valueOf` is not callable makes serde fail where `to_json` answers
`{}`, contrary to its doc. `toJSON` is asked again of what it returned, and not asked of
a root array or box. `JSON.stringify` writes `"a":` with nothing after it, and nothing for
a function in an array; it writes boxes as objects and asks no array for `toJSON`.
Methods that return what holds them recurse until the stack check. Deep equality takes
Maps, Sets and Errors for equal, finds "constructor" on the prototype, and calls graphs
deeper than 64 unequal; a promise rejected with itself is inspected without bound.

*Modules and files.* A lazy install that throws loses its group; after a freeze of
`globalThis`, reading a name recurses without end. Modules evaluated on `require` are new
per call; after `retain` without `fs`, bare `fs` is not reserved while `node:` is; a
hosted module with a relative name resolves against the process's directory. A manifest
that leads back to its directory is followed until the path is too long. A handle's
`write` with an offset takes the end for a length, a `read` shorter than the file
panics, `writeFile` truncates before it looks at the encoding and leaves the cursor. A
write that failed in its thread is reported by the next write only: one at a position then
leaves the cursor there, as an offset past the end does, which panics, and a `writeFile`
has already emptied the file. A mark's name is accepted as a measure's
duration, and durations may be negative.

## What is proved

For every value of the constants, with TLAPS. The theorems are listed in
`PROJECT.json`.

* `VmLoop`: from a finite set of calls and a capacity that is a natural
  number, `CallsAndJobsAgree` (`CallsAgreeWithJobs`: types, permits conserved, answered
  callers hold none, the queue exact) and `RefusedOnlyWhenFull`. None is inductive by
  itself. The permit account has to know that a call not yet submitted has no job;
  that is `CallerAgreesWithJob`, and it needs the queue to hold exactly the queued
  jobs, for `LoopReceive` moves the head. The invariant is the conjunction. The account
  lemmas (`AccountKept`, `AccountTaken`, ...) reduce each step to one call taking or
  giving a permit, or several at once at the loop's end.
* `MCHost`, about `Deadlines`: from a clock that ends below `DISARMED`, `BudgetsAreExact`
  (`BudgetsExact`) and `HaltedOnlyWhenDue` (`HaltJustified`). The minimum follows
  from the table alone (`RecomputedIsMinimum`), given that armed deadlines stay below
  `DISARMED`, which is what the clamp in `deadline_ms` is for. That a halt is
  justified needs `SnapshotsHold`: the elapsed time the handler holds is not in
  the future and, since it is read before the parked time, the time un-held that it
  implies is no more than there is now. Were the two loads swapped this would be
  false.
* `MCHost`, about `RealmPool`: `PoolIsSound` (`PoolCountsRight`), that the pool is
  bounded, and
  `TakeTopsUp`, from `PlacesCounted`: `building` is at least the builds there are and
  exceeds them by no more than the builds that panicked.
* `MCWeb`, about `Permissions`: `PolicyOnlyNarrows` (`PolicyNarrows`), for any kinds, rules and
  resources, from `SubsumesAssumption`: a rule subsumes itself, transitively, and
  covers what the subsumed one covers. TLC evaluates the assumption for the rules on
  hosts and paths of `MCWeb`, with the wildcards, ports and links among them. The
  invariant adds `CopyIsOlder`: since `drop()` copied it, the policy has stayed within
  the copy in every other kind, by the inclusion `Within`, which intersections keep.

* `VmLoop` again: `LoopServesJobs`, that every step of the loop is a step of
  `JobService` or none (`ImplementsJobService`). What the mapping needs beyond `IInv` is
  how a call can end: `EndsAreExplained`. `CancelledEarlyNeverRuns`: a call dropped before
  the look at the start of its job never calls its body, then or later.
* `RunBracket`: of every host, however many runs overlap, `RunsInOrder`
  (`RunsAreInOrder`: how far a run is bounds where its body is, and a halt leaves a trace
  in the outcome), and from it `HaltIsReported` (`ForceHaltIsReported`) and
  `PoisonedStaysShut` (`PoisonedRealmRunsNothingNew`). Of a host that makes one run at a
  time and keeps the default `backstop_poisons`, `FailuresAreTheRuns`
  (`FailuresBelongToTheirRun`) and `WatchIsForItsRun` (`WatchEndsWithItsRun`): by
  `OneAtATime` no body outlives its run beside another one, so the one watch and the one
  console slot are the run's. The two hypotheses are the cases in which the properties are
  true of the code (see *Runs* above).
* `MCHost`, about `Backstop`: `GivesUpRightly` (`GivenUpRightly`), for any runs, limits,
  length of the clock and both kinds of clock. That no wake is lost needs
  `LoadingIsWakeable` (between the registration and the second look there is a waker or a
  wake), `RaisedByItsJob`, and for the moment of giving up `PauseClockRunsSlow`: the pause
  clock never gains on the clock nor reads less than it did when the budget was made.
* `MCHost`, about `RunLimits`: `RunsGetTheirLimits` (`LimitsAreKept`), for any runs,
  limits and values of a host that makes one run at a time. The invariant adds that only
  the run in flight writes the record (`OneRun`, `RecordIsTheRuns`), that a new run starts
  at the first limit, and that engine and record differ only where a setter waits for the
  lock or was dropped (`EngineLagsAtASetter`).
* `MCFetch`, about `FetchEngine`: `RequestsGoRight` (`RequestsAreGoverned`), for any urls,
  cookies, deadline and limits. The strengthening is that an `Authorization` header is for
  the origin it was made for (`HeaderIsForItsOrigin`), that the jar keeps only cookies in
  their setter's domain (`JarIsHonest`), that the hop on the wire is the request's
  (`HopIsTheRequests`), and that a body that is still to be sent is there (`BodyIsThere`);
  the deadline needs `OnTime`, that the clock passes it by one backoff at most.
  Hypotheses: `ConstantsOK`, the types of the constants, and `DoublingGrows`, that powers
  of two are natural numbers and grow, which is arithmetic the provers do not know.
* `MCStreams`, about `ReadableStream`: `ReadersGetTheirChunks`
  (`ReadersAreServed`) and `ReadersHear` (`ReadersAreTold`), for any numbers of chunks,
  reads and readers, any strategies and any depth of calls from `size()`. Neither is
  inductive. `Sound` says of a stream that each read and each chunk is in one place
  (waiting or answered; handed out, queued or inside `size()`) and was really made, that
  the reads that wait and the closed promise go with the state, and, unless `size()` is
  the script's, that chunks are in the order of the reads that got them and no read waits
  beside one; `AllKept` that none of the chunks made is missing while the stream is readable. `PullIsKnown` ties
  the flags `pulling` and `pullAgain` to the pull that runs, without which "demand is
  pulled for" does not survive the return of a pull. Each operation of `Readable` has
  its lemma (it keeps a sound stream sound), which the proofs of a transform, a pipe or
  a tee can cite. When `size()` is the script's and calls the stream again, only what
  still holds is claimed: no chunk is handed out twice. The order claimed is that of the
  reads, not that of their promises (`ByTurn`, `ReadsInTurn`: reads are answered in the
  order they were made, and those that wait are the last): which chunk a read gets is
  decided when it is taken from the queue, and a `pull()` that reads and enqueues before
  that read is settled settles the later one first, with the later chunk.
* `MCFetch`, about `FetchBody` and `RequestBody`: `BodiesArriveWhole` (`BodiesAreWhole`),
  for any number of chunks and of reads, any limit of `text()` and any high water marks,
  from `BodiesAssumption`: the limit and the marks are natural numbers. Both bodies put
  chunks through a stream, and what goes wrong would go wrong at the seam: a chunk that
  was taken from the socket and is in no queue, a read that is answered by the end while a
  chunk is on its way. `InTurn`, of a stream that two readers have one after the other,
  says that its answers are the chunks in order and then the end, that the queue goes on
  where the answers leave off, that no read waits beside a chunk, and whose the answers
  are; each operation of `Readable` has its lemma of it (`EnqueueIs`, `ReadIs`,
  `CloseIs`, `ReleaseIs`, ...), under the strategy that native streams have, where
  `size()` is nobody's. `FetchInv` then ties it to the socket: as long as the body is a stream, what
  was taken is answered or queued, unless a cancel came in between (`OfStream`); a body that
  `text()` reads from the socket leaves the stream empty (`OfSocket`); and what `text()`
  has is what follows the script's share, with one read out (`DrainedFrom`). For a request
  body the chain is longer, stream, pump, channel and wire, and `OnTheWay` accounts for
  each answer the pump heard: it is sent, in the channel or in hand, once, and the end goes
  on the wire only after the end of the source. The lemmas are stated of one of the two
  instances of `Readable` and carried to the other by the equality of their operators
  (`SameTurns`, `SameEnqueues`, ...).
* `WritableStream_proofs`: `SinkServed` (`SinkIsServed`) and `WritersTold`
  (`WritersAreTold`), for any numbers of chunks and writers and any depth of callbacks
  (`size()`, and the listeners of an abort's signal, both of which may write, close,
  abort, release the writer or acquire another), from `ConstantsOK`: that the counts and
  the high water marks are natural numbers. Neither is inductive, and no operation of
  the code keeps an invariant by itself: closing, erroring and finishing are several
  operations in a row, between which queue, flags and promises disagree. So the
  invariant has two levels. `Kept` holds within an operation too: which flags go with
  which state (`FlagsFit`, with it that no assertion fails), that the sink's calls
  settled in turn (`InTurn`), that each write, close and abort is in one place, inside
  `size()`, requested, in flight or settled (`Once`), their order (`InOrder`) and what
  the writer knows (`WriterKnows`). `Sound` holds between operations and adds what an
  operation restores: the queue is the requests, backpressure is the queue's
  (`TakesWrites`, `BackpressureFits`), and an error waits only for what is under way.
  Each operator of `Writable` has its lemma from one level to the other. Two exceptions
  are part of the properties, as they are of the code: order is not claimed once a write
  was made from the `size()` of another, and nothing is claimed for a writer that came
  from a callback or while the sink closed, to whom operations that were under way owe
  nothing. `MCStreams` states both of the specification that the run checks
  (`SinkGetsItsCalls`, `WritersHear`).
* `MCWeb`, about `Timers`: `TimersAreInTime` (`TimersKeepTime`), for any number of
  timers, any `Delays` of whole milliseconds (`DelaysAssumption`: they are `u64`), any
  clock and any nesting that is free. That a timer does not fire early is about the
  moment of the firing; what makes it true is said of the moments before. `OnTime` says
  that `next`, once set, is no sooner than the delay after the arming and, from the sixth
  link of a chain on, 4 ms later for each link since the root, that an interval that was
  overrun waits from the end of its callback, and that a callback runs only once `next`
  is reached. A chain is counted by `level`, which has to agree with the `depth` the
  task was spawned at (`NestingIsTheCallbacks`, and `CurrentRuns`, that the one
  callback that runs is that of `current`). `Quiet` says how often a timer fires after it
  was cleared: once if it already waited, else never.
* `MCWeb`, about `CryptoKeys`: `KeysHoldTheirSecrets` (`KeysAreSound`), for any
  suites, any number of keys and any encodings of other libraries, from `KeysAssumption`:
  names are of the algorithms there are, and what is given is well formed and not of a
  key made here. A script can derive, wrap, unwrap, export and import in any order, so
  that the secret of a sealed key stays sealed has to be said of all that is outside
  keys too: the encodings the script has seen (`plain`) and those that are wrapped. A
  wrapped encoding keeps no flag, so `wrapped` must not hold a sealed secret at all. That
  what is exported comes back (`KeyComesBack`) needs no induction: it follows from
  the shapes `import_key` gives to each name and half, and is the case analysis over
  forms and names that a test would sample.
* `MCListeners`, about `AbortSignals` and `Emitters`, and `MCWeb` from it:
  `ListenersHearOfAborts` (`AbortsAreHeard`), for any sources, events, callbacks, depth of
  calls and number of listeners, from `AbortsAssumption`: the composite of
  `AbortSignal.any` is none of its sources. Both parts keep lists that are changed while a
  dispatch walks a copy, and the invariants relate the three: what was registered, the
  lists (`ListsAreTheirs`, `TablesHold`) and the rests of the dispatches that run
  (`stack`). `Uncalled` and `OnceUncalled` say that who listens for once was not called as
  long as it waits anywhere, and waits in one dispatch only; `DueAreHeard` and `EmitsHold`
  that whoever was registered when a dispatch began was called, is in its rest or was
  removed. `AbortsPassOn` is what makes a composite follow: while a source is not aborted
  its list holds the follower, after that the follower has run, is about to, or was
  collected with its signal (`missed`). `Picked`, the part of a list that passes a test,
  is a recursive function; what the proofs need of it (it is a subsequence, in order, and
  holds just what passes: `PickedIs`, `PickedWithin`) is shown by well-founded induction
  over the length, with `Least` for the step. `IndexIs`, `RemoveAtWithin`,
  `AppendWithin`, ... do the same for the operators of `SequencesExt`.

Only model-checked:

* Liveness and what `ENABLED` says: out of the prover's reach.
* The safety of byte streams (`BytesReachTheirReads`), of tees and iterators
  (`SourceIsShared`), transforms (`ChunksPass`, `FailureReachesTheWritable`) and pipes
  (`ChunksAreHandedOver`, `SettledPipeIsOver`). The lemmas on the operations of `Readable`
  and `Writable` are there; what is missing is, for each, the invariant that relates two
  streams between promise jobs.
* The caches, consoles and modules (`KeptIsRight`) and the data (`DataComesBack`).
  `MCRealm`, where they are put together, reaches recursive operators, beside which the
  provers have no arithmetic.
* What recursive operators compute (`ValueWalks`, `Inspecting`, `LazyGlobals`, the
  `require.resolve` of `Paths`): induction over data.
* `RunsAndBodiesEnd` is checked of hosts that make one run at a time.

## What is not modelled

* *Libraries.* Ciphers and digests, compression, URL parsing, TLS and HTTP, name
  resolution, the bundler, QuickJS, tokio: bound to, not written here. The interrupt
  handler's pace is QuickJS's: it calls every so many instructions.
* *Conversions without state.* Options and arguments read from script values, error
  classes, redaction, source maps, the parsing of permission rules, multipart bodies,
  deserialising into script values, the wording of formats.
* *Set-up.* Building a realm, the `eval_*` entry points, which wrap a body and call
  `run`, and the class definitions of the library run once or forward.
* *File system* operations other than a handle's are one call of the operating system
  behind a permission check; `os`, `process` and `tty` answer from it.
* *Host API.* The pump is a bounded channel of the runtime, the slots a map behind a
  lock. *Reuse list*: used nowhere in the repository. *Command line*: arguments around
  one run. *readable-stream*: vendored JavaScript.
* *Next to what is modelled*: `setImmediate`, the promises of `node:timers`, the hook and
  audit of permissions, proxies and clients of the fetch engine, `EventTarget` set-up,
  the loader of ES modules with its transpiling. Of abort signals, a script's own
  `dispatchEvent` of "abort" and its assignments to `reason`: `AbortsAreHeard` is about
  signals to which neither was done. Of byte streams, the order in which promises settle
  when a read calls `pull()` with its bytes in hand, which takes a mark over 0.

## Plan

1. Theorems: on the lemmas per operation of `Readable` and `Writable`, the chunks of
   `Transform` and of `Pipe`; on those of `InTurn`, what the branches of `Tee` are given.
2. Abstract specifications for a stream (a queue with an end) and for
   a tee (two of them), with `Readable` and `Tee` shown to implement them.
3. `Transform` with a `size()` of either side, `Pipe` with a byte stream as its source.
4. The loader of ES modules beside `Modules`: a cycle of imports while one fails.
