# A verification project for pystorm-a8c

TLA+ modules of the Python side of Apache Storm's multi-lang protocol
(`src/pystorm_a8c`), of the DSL for topologies and of the commands that pack
and submit one, TLC runs of small instances of them, and theorems that TLAPS
checks for every instance.
`PROJECT.json` lists which lines of the source each definition stands for.

## 1. The system

A Storm worker starts a component (a bolt or a spout) as a subprocess and
talks to it over stdin and stdout: JSON messages, each followed by a line
`end`. A bolt gets tuples and answers each with an `ack` or a `fail`; a spout
gets `next`, `ack` and `fail` commands and answers each with one `sync`. Apart
from this, a command-line tool packs a source tree into a jar and submits a
topology, written in a small DSL, to Nimbus over Thrift.

| Component | State | Operations | Works with |
|---|---|---|---|
| `Bolt` (bolt.py) | `_current_tups`, `auto_ack`, `auto_fail`, `auto_anchor` | `read_tuple`, `_run`, `ack`, `fail`, `emit`, `_handle_run_exception` | the run loop of Component, user `process` |
| `BatchingBolt` (bolt.py) | `_batches`, `_current_key`, `_tick_counter` | `process`, `process_tick`, `process_batches`, its own handler | user `group_key` and `process_batch`, tick tuples from Storm |
| `TicklessBatchingBolt` (bolt.py) | `_batch_lock`, `exc_info`, the batcher thread | `_batch_entry`, `_run`, the SIGUSR1 handler | two threads that share the state of BatchingBolt |
| `Spout`, `ReliableSpout` (spout.py) | `unacked_tuples`, `failed_tuples` | `_run`, `ack`, `fail`, `emit` | user `next_tuple`, Storm's message timeout |
| `Component` (component.py) | `_pending_commands`, `_pending_task_ids`, the reader and writer locks, `exit_on_exception` | `run`, `read_handshake`, `read_command`, `read_task_ids`, `emit`, `raise_exception`, `_exit` | the serializer; the base of bolts and spouts |
| `JSONSerializer` (serializer.py) | the streams, `_blank_lines_read` | `read_message`, `send_message`, replacing integers out of range | both locks; warns through logging |
| `StormHandler`, `LogStream` (component.py) | a logging handler's lock, a line buffer | `emit`, `write` | the serializer, from any thread |
| `submit` (cli/submit.py) | options, topology, the connection, the upload | option checks and merge, `resolve_parallelism`, `_upload_jar`, `_kill_existing_topology`, `_submit_topology` | Nimbus; other runs of the same command |
| Configuration, Nimbus client (util.py) | none; it reads files and the cluster | `get_config`, `get_topology_definition`, `get_env_config`, `get_nimbus_client`, `get_storm_workers`, `set_topology_serializer` | `submit` |
| `jar` (cli/jar.py) | a zip file | `_collect`, `build_jar` | the file system |
| DSL (dsl/) | specs, streams, groupings, Thrift structures | `ComponentSpec`, `TopologyType` | `submit` |
| `run.py`, `exceptions.py`, `cli/__init__.py`, `storm/` | none | import and start a class, one exception, dispatch, generated Thrift | |

What is hard, and which properties make the parts correct:

* **A bolt** has to settle every tuple exactly once over any sequence of
  heartbeats, ticks, batches, exceptions of user code, exceptions of reads and
  a broken pipe. The state that says which tuples an exception belongs to
  (`_current_tups`, `_current_key`) changes in the middle of loops that user
  code can leave at any iteration.
* **The batcher thread** of the tickless bolt shares that state with the main
  thread under a lock that the exception handler does not take, and reports
  its exceptions through a signal that interrupts the main thread anywhere.
* **Two kinds of messages share one pipe.** Task IDs carry no request id; a
  reader that gets the wrong kind leaves it in a deque for another thread.
* **A reliable spout** has to track exactly what Storm has not resolved,
  replay a tuple `max_fails` times, and answer each command with one sync on
  every path, exceptions included.
* **Four locks** are taken by several threads, in user code, in logging and in
  a signal handler: the reader and the writer lock of the serializer, the
  logging handler's and the batch lock. A print statement is a message to
  Storm, and an except clause in the logging handler takes in what was meant
  for others.
* **Submitting** is a sequence of calls between which other commands act,
  leaders change, and calls time out without one knowing whether they count.
* **The jar** is built over a tree with symbolic links, loops included, at a
  path that every command started in one directory shares.
* **The DSL** works on objects that are mutable, shared, hashed by what they
  contain, and used again after a class statement has changed them.

The hazards are listed one by one, with their lines and the properties that
cover them, in `PROJECT.json`; where nothing covers one, or a property holds
only in part of the configurations, a note says why.

## 2. Modules

| Module | Stands for | Proofs |
|---|---|---|
| `StormInputs` | what Storm sends a bolt and what becomes of each message | |
| `Settlement` | abstract: each tuple is settled once; a process that exits on an error has settled all it read | |
| `Bolt` | `Bolt` in the run loop; implements `Settlement` | `BoltProofs` |
| `BatchingBolt` | `BatchingBolt` in the run loop; implements `Settlement` | `BatchingBoltProofs` |
| `TicklessBatchingBolt` | both threads, the lock, the signal | `TicklessBatchingBoltProofs` |
| `Replay` | abstract: in flight until acked or failed `max_fails + 1` times | |
| `ReliableSpout` | `Spout` and `ReliableSpout`; implements `Replay` | `ReliableSpoutProofs` |
| `Multilang` | `read_command`, `read_task_ids`, `emit`, the deques, the two locks | `MultilangProofs` |
| `Worker` | the threads and the locks of a process through its whole life: handshake, set-up, run loop, logging, the signal handler, exit | `WorkerProofs` |
| `TopologyDsl` | `spec()`, `spec["stream"]` and the class statement of a topology | |
| `Jar` | `_collect` and `build_jar`, and commands that share an archive | `JarProofs` |
| `SubmitOptions` | the merge and the checks of options, blobs, parallelism, commands | |
| `Submit` | runs of `pystorm-a8c submit` against one cluster; uses `SubmitOptions` | `SubmitProofs` |
| `MC*` | an instance of each for TLC, with one `.cfg` per run | |

Every component module has a constant `Configs` (for `Submit`, `Requests`): the
settings of the class, chosen in `Init` and never changed, so that one run
covers several. Some are settings of the code (`exit_on_exception`,
`auto_ack`, `group_key`), some say what user code or the pipe may do
(`readMayRaise`, `emitMayRaise`, `emptyBatchMayRaise`, `mayRaise`, `garbled`,
`prompt`).
A few definitions are marked "mutated form": plausible bugs, named in
`PROJECT.json`, against which each property was tried. `TypeOK` documents what
every variable holds; section 4 says where it is proved.

### How state and steps correspond to the code

**Bolt, BatchingBolt.** One thread; a step ends where user code runs or can
raise, so `pc` is "read", "group" (in `group_key`), "inBatch" (in
`process_batch`), "handle" and so on. `outcome[m]` is Storm's view of message
m: unread, open, acked, failed, a heartbeat to sync, or "rejected" when an ack
or fail arrives for a message that waits for none. `batch[k]`, `currentTups`,
`currentKey` and `tickCounter` are the fields of the object; the counter of the
code has no bound, that of the model stops at `TicksBetweenBatches + 1`, beyond
which no comparison tells values apart. A
loop of acks or fails over one batch is a single step: only a broken pipe can
end it half way, and then the process ends too. In `Bolt` a tick is a tuple
like any other; in `BatchingBolt` it is one value that returns. A message that
holds no tuple is a read that raises. The handler, the test of
`exit_on_exception` and `sys.exit` are the steps `HandleException` and
`ExitOrContinue`.

**TicklessBatchingBolt.** `mpc` and `bpc` are the two threads, `lock` the
batch lock. Reading takes two steps, the line of a message and the `end` after
it. A signal is pending from `os.kill` on and is handled between any two steps
of the main thread, taking the lock first. It has three outcomes: nothing, if
there is no exception behind it; the exception is swallowed by the except clause
of `StormHandler.emit`, where the main thread may be logging; or it is raised,
and leaves what the main thread is in. If that is a read after its first line,
the rest of the message is the next thing in the pipe (`rest`), and the next
read raises. The exception handler runs without the lock, one key at a time
(which tuples a key holds, then their fails), so that the batcher can get
between; `grown` records that a dict changed its size under an iteration.

Nothing keeps the batcher from the batches while the handler is at work, and
then both settle the same tuples; a read that raises fails the tuples of an
earlier exception again. So much is true of the code, and the properties say
what holds until then: the history variable `mishaps` records that the two
overlapped, that a read raised, or that an exception was swallowed, and
`Disturbed` is what the guarantees about tuples except. Each of its cases is
needed: with any of them left out TLC finds a tuple that is settled twice.

**Multilang.** A thread is at one of the points of `read_command` or `emit`.
The locks have owners. A message is read, parsed and put in a deque in one step
under the reader lock; sends that take only the writer lock are one step. Storm
answers emits in order and expects commands to be handled in order. Exceptions
are those the calls raise themselves: a tuple that cannot be encoded, which
`emit` raises before anything is sent, and a garbled message, which raises in
whichever thread reads it. The thread goes on after either. The signal of the
tickless bolt is no part of this module, as no `emit` of that bolt reads
(bolt.py:335).

**ReliableSpout.** A step per command; `ack` and `fail` are atomic because
nothing else runs. `outstanding` is Storm's view of what is in flight; `owed`
the syncs it waits for.

**Submit.** A step per call of Nimbus. `topology[s]` is what the command has
prepared, `uploads`, `topologies` and `leader` are the cluster's. A request that
names no Nimbus host fails at the first connection, and one whose local jar is
missing when the upload has begun. A call times
out before or after Nimbus got it: the command ends either way, and a kill or
a submit then stays in `late` until Nimbus carries it out, or for ever. A kill
marks a topology, which is gone only after `Quit`.

**Worker.** A thread is a program, `todo[t]`: the locks it will acquire, the
messages it will write, the points where it waits for Storm or runs user code.
The operations of the code are the programs (`Send`, `Read`, `Log`,
`EmitForIds`, `Runs`, `HelperRuns`, `Handle`), put together as the code nests
its calls, so that the order of the locks comes out of the nesting and is not
written down anywhere. `held[t]` are the locks in the order they were taken; an
exception gives all of them back, or, inside `StormHandler.emit`, those taken
since, because its except clause goes on. `where` is the part of `run` the main
thread is in and decides where an exception leads. What is sent and read is
the business of the other modules, so a run of the loop is the same for all
bolts but the tickless one.

**TopologyDsl.** The state is the specs there are, with names and dicts of
inputs; the lists of fields that belong to Stream objects and are shared by
all specs of a class; the topologies accepted. A key of a dict has a component
id and the id under which it is filed, since a dict finds an entry only under
the hash it had when it was inserted. `MakeBolt` and `MakeSpout` are calls of
`spec()`. One that is given a dict of inputs keeps that dict, with the keys that
are specs replaced in place, at its end; `MakeBoltAlike` is a call that is given
the dict of an earlier one, and two specs with one `dict` have their inputs
changed together. `ClassStatement` is `TopologyType.__new__`: a fold of `Enter` over
the body, then a fold of `AddSpec`, which folds `CleanInput` over the inputs.
What a refused statement has changed stays changed.

**Jar.** A tree is a function from directories and names to directories and
leaves, so that a link is an entry like any other. `stack` is what `os.walk`
has still to visit, `paths` the paths recorded, `entries` the files found. The
archive is one sequence of chunks for all commands: opening it truncates it,
each command writes at its own place in it, and `Upload` reads it from the
start to what is the end by then. `clash` records the commands whose archive
another command was writing to or replaced; nothing in the model depends on
it.

## 3. Runs

| Run | Instance | What it shows |
|---|---|---|
| `bolt` | three tuples or ticks, two heartbeats; exits or goes on | contract kept (settled once, nothing left open by an exit), nothing stays open |
| `batching` | three tuples, two keys, a heartbeat, ticks; exits (with a batch of key None, reads that raise and empty batches that raise) or goes on | nothing forgotten or settled twice, anchors of emits open, only the batch at fault failed, contract kept, every batch processed in the end |
| `spout` | two ids, two payloads, two replays | tracking agrees with Storm, one sync per command, contract kept, everything resolved |
| `tickless` | two tuples, a heartbeat; nothing raises, or `process_batch` does and the process exits or goes on | exceptions reach the handler or are swallowed by logging, and everything is settled but for a tuple the interrupted thread was reading, as long as no mishap happens |
| `tickless_safety` | two tuples and a tick; as before, or anything raises in a process with two keys that goes on | the batch lock excludes and is released on every path, anchors are those of the batch; until the process is disturbed each tuple is settled once, and none is lost but the one being read |
| `multilang` | two commands, one worker, a pipe of two messages, with or without a garbled one | no command lost or out of order, IDs match if nothing is garbled, nobody waits for ever |
| `submit` | two commands, two Nimbus hosts, one timeout, one election; the first may be any of 22 requests, nineteen of which are refused, sixteen of them before the first call, the second is forced, or not, or for another name | jar complete, virtualenv settings agree, options and parallelism as asked, kills only by force, results reported truly, every command ends unless overtaken |
| `worker` | a tickless bolt whose exceptions are handled at once, late, or with two signals of others; a bolt with one or two threads of the user's, with or without warnings | threads wait for each other only in two named situations, every call returns otherwise, the process ends with its Storm |
| `dsl` | three specs of spouts and bolts, two streams, groupings in lists and dicts, dicts used twice, up to two class statements over three variables in any order | inputs lead where the developer meant, also later; the order of the body does not matter; accepted topologies stay |
| `jar` | every tree of three directories with two entries each, links and loops included (up to symmetry of the names), excluded names, directories that cannot be listed; two commands (`jar`, `submit`, `submit --local_jar_path`) on a tree whose files may vanish | each file packed once under each name, the walk ends, whole archives uploaded and left behind |

The state spaces have from 750 to 10 million states and are searched whole.

Why the bounds are enough. Two keys and three tuples, two of one key, give a
batch with two tuples, a batch before and a batch behind the one at fault, and
a round that another exception interrupts. In the tickless bolt two tuples are a
batch in the batcher's hand and a message in the main thread's, or one batch of
two. Two replays separate the first
failure, the last one and the one too many. The multi-lang properties relate
two messages of different kinds and two threads; two serial numbers tell an
emit from the one before it, and a pipe of two lets an answer stand behind a
command. Commands for one name interact in pairs: one is in its wait while
the other submits. The jar of three bytes and the jar of four, with chunks of
two, are the short last chunk and the exact multiple. One timeout and one
election can hit each call of each command.

A deadlock of locks needs two threads; two helpers and the main thread allow a
cycle of three, and one more could only wait. Two stray signals are one while
another is handled. Three specs are an input, a component that has it, and a
namesake; a second class statement is enough for everything a first has left
behind. Three directories give a loop to the parent and to the root, two links
to one directory, and a link into a loop.

### Disagreements

These runs end in a counterexample, on purpose.

| Run | What happens |
|---|---|
| `batching_poison` | the handler leaves an empty batch behind (bolt.py:425); if `process_batch` raises for no tuples, every later round ends at that key and the batches behind it wait for ever |
| `submit_overtaken` | of two forced commands for one name, the second waits for ever if the first submits between two of its polls (submit.py:386) |

Met while modelling, and not runs of their own:

* with `exit_on_exception = False`, a read that fails after a handled exception
  fails the tuple of that exception again; the comment at bolt.py:223 says the
  reset is there to prevent this, but an exception passes it by. (`Bolt` shows
  it with `readMayRaise` set and `exitOnException` not.)
* spout.py:148 says `unacked_tuples` holds exactly what Storm has not resolved;
  `emit` stores the tuple before it is sent (spout.py:231), and one that raises
  leaves its entry for ever in a process that goes on. (`ReliableSpout` shows
  it with `emitMayRaise` set and `exitOnException` not.)
* component.py:468 says both locks keep `send_message` and `read_task_ids` of
  one emit together; an exception between the two (a garbled message that
  `read_task_ids` meets) makes every later `emit` return the IDs of the one
  before;
* an exception of the batcher that interrupts the main thread while it sends a
  log record is swallowed by the except clause of `StormHandler.emit`
  (component.py:69), although bolt.py:531 says it is raised in the main thread;
* a thread that logs a warning about an integer inside an `emit` that waits for
  task IDs holds the writer lock and wants the handler's; one that logs holds
  the handler's and wants the writer lock (serializer.py:25). And a late or
  stray SIGUSR1 makes the main thread want the batch lock while it holds one
  the batcher needs (bolt.py:533). These are the two situations that
  `DeadlockNeedsNesting` names;
* component.py:507 says any exception is caught and logged back to Storm; one
  in the handshake, the set-up or `initialize` is outside the `try`;
* the text at component.py:295 tells Storm that all messages of the configured
  level will be sent; the level is set for the component's logger and for
  "pystorm", which is not the name of the package, and the root logger keeps
  WARNING;
* a class whose `outputs` hold a Stream named `default` and strings has that
  Stream's list grow with every `spec()` (dsl/component.py:161), which changes
  topologies already accepted;
* a class refused because a spec is missing from its body leaves the component
  id None in the inputs (dsl/topology.py:103): stated again with the spec added
  it is refused as well;
* a key obtained by `spec["stream"]` and used in two dicts is renamed for both
  and refiled in one (dsl/topology.py:102), so that the other dict does not
  find it; iterating over it works;
* dsl/stream.py:67 says the grouping of direct streams is DIRECT when none is
  given; for `spec["stream"]` it is SHUFFLE, as dsl/component.py:110 admits;
* jar.py:26 says that a tree that cannot be stat'ed is a broken build; a
  directory that cannot be listed is left out without a word, and a file that
  cannot be read leaves a valid archive of the files before it;
* with the default `group_key`, whose key is `None`, an exception of
  `group_key` or of a tick makes the handler of a process that goes on fail
  and wipe the batch of key `None` (bolt.py:403-426);
* in the tickless bolt, `_current_tups` still names an acked batch while the
  main thread reads (bolt.py:363), a tuple is known to nobody between
  `read_tuple` and the lock (bolt.py:555), a message of which the signal lets only
  the first line be read is lost and makes the next read raise (serializer.py:78),
  the handler settles what a batcher that is awake settles, too (bolt.py:403), and a tick or heartbeat can be
  failed after its answer if the signal comes before the reset;
* a second exception between the handler and the test of `exit_on_exception`
  is outside every `try` (component.py:541);
* README.md:206 of the repository says nothing can override the settings
  derived from the blobstore key and lists `topology.python.path` among them;
  `-o` and `Topology.config` do override that one, and config.json's own value
  for it is dropped (submit.py:277). `topology.debug` overrides the log level
  given by `-o` (submit.py:294);
* a refused topology has some of its parallelism hints replaced
  (submit.py:348), although test_submit.py:154 is named for the contrary;
* the serializer and the name are checked when the old topology is already
  killed (submit.py:426).

### Fairness

* *Bolt, BatchingBolt:* weak fairness of the process's own steps: user code
  returns or raises. Ticks keep coming (`ReadTick`), because Storm sends them
  on a timer. Nothing is assumed of tuples and heartbeats.
* *ReliableSpout:* weak fairness of the process's steps and strong fairness of
  "Storm resolves id i", which Storm's message timeout guarantees for every
  tuple in flight.
* *TicklessBatchingBolt:* weak fairness of both threads, the `end` of a message
  included, which Storm writes together with it, and strong fairness of acquiring
  the lock (for the batcher: after its sleep), which is free again and again,
  and of handling a pending signal. Nothing is assumed of new messages.
* *Multilang:* threads run, locks that are free again and again are acquired,
  Storm answers emits and sends heartbeats. Without heartbeats a command that
  another thread has left in the deque, just after the main thread looked,
  would wait until Storm sends something else; this is what the heartbeat in
  the model is for. The sequence in which commands are handled is asserted
  only where no worker emits, since the same race reorders them.
* *Worker:* threads are scheduled and user code returns or raises; Storm sends
  heartbeats, so a read returns; a lock that is free again and again is
  acquired. Nothing is assumed of signals of others, of helpers' wakings or of
  Storm going away. The liveness properties are asked where exceptions are
  dealt with before the batcher wakes up again (`prompt`): a batcher that
  raises without a pause can interrupt the main thread for ever.
* *Jar:* each command goes on.
* *Submit:* each command goes on, Nimbus stops what was killed. Nothing is
  assumed of late calls and elections.

`CHECK_DEADLOCK` is off where the system may stop: a process exits, all input
has been consumed, or every command has ended. `multilang` checks it.

## 4. Theorems

Each holds for all values of the constants that satisfy the assumptions of its
component's module: all tuples, keys, `group_key`s, tick limits, ids, payloads,
retry limits, threads, pipes, commands, clusters and configurations. Where a
theorem needs more of the configurations, its statement says so (`ASSUME`), and
section 3 says what happens otherwise.

| Module | Theorems | Assumed of the configurations |
|---|---|---|
| `BoltProofs` | `KeepsContract`: Bolt implements `Settlement` | `ReadsAreSafe`, `AutoSettles` |
| `BatchingBoltProofs` | `TypeCorrect`, `NeverSettledTwice`, `AnchorsAlwaysOpen` | `ReadsAreSafe` |
| | `NothingForgotten`; `KeepsContract`: BatchingBolt implements `Settlement` | `ReadsAreSafe`, `AutoSettles` |
| | `FailsOnlyCurrent` | `ReadsAreSafe`, `NoneIsNoKey` |
| `TicklessBatchingBoltProofs` | `LockExcludes`, `NeverSettledTwice`, `AnchorsAlwaysOpen`, `LostInOnePlace` | nothing (the last three say what holds until the process is `Disturbed`) |
| `ReliableSpoutProofs` | `TypeCorrect`, `AlwaysOneSync`; `KeepsReplayContract`: ReliableSpout implements `Replay` | nothing |
| | `HoldsExactlyUnresolved` | `EmitsAreSafe` |
| `MultilangProofs` | `IdsAlwaysMatch`, `NeverLost`, `HandledInOrder` | nothing |
| `WorkerProofs` | `TypeCorrect`, `WaitsOnlyWhenNested` | nothing |
| `JarProofs` | `TypeCorrect`, `AlwaysPacksAll`, `AlwaysArchiveWhole` | nothing |
| `SubmitProofs` | `TypeCorrect`, `JarsAreComplete`, `VirtualenvsAgree`, `AlwaysAsAsked`, `OnlyForceKills`, `ForceAlwaysReplaces`, `AlwaysReportsTruly` | nothing |

* `ReadsAreSafe`: a process whose reads may raise exits at its first exception.
  Without it the bolt settles twice (see Disagreements).
* `AutoSettles`: `auto_ack` and `auto_fail` are on; without them the user
  settles.
* `NoneIsNoKey`: in a process that goes on, `group_key` never returns `None`,
  which is also `_current_key` outside `process_batch`. With the default
  `group_key` the handler fails the batch of `None` for the exception of another
  tuple (see Disagreements).
* `EmitsAreSafe`: an emit that may raise ends the process (see Disagreements).

**Bolt, BatchingBolt.** `SettledOnce` is not inductive, because it says
nothing of what will be settled. The invariant `IInv` of BatchingBolt adds
`BatchedOpen` (while batches are still to be settled, a tuple in one is open
and in the batch of its own key) and `CurrentOK` (what `_current_tups` holds at
each point: the tuple just read and not in any batch, the batch in
`process_batch`, open tuples in the handler, nothing before a read of a
process that exits). That no tuple is in two batches, or both current and in
the batch of another key, is what makes the ack loop and the two fail loops
disjoint. `NothingForgotten` needs `Listed` (a batch with tuples has its key
in the dict's order, so the handler gets to it) and `Tracked` (an open tuple
is in a batch or current). `FailsOnlyCurrent` needs `KeyKnown`:
`_current_key` is `None` whenever the handler is reached from anywhere but
`process_batch`. The refinements follow, each action being a `Receive`, a
`SettleAll`, an `Answer`, an exit or a stutter. Bolt needs only its `CurrentOK`.

**TicklessBatchingBolt.** The lock first: `LockExcludes` comes from the lock's
owner being the thread whose point of the program is between the two ends of
a `with`. The rest of the invariant says which parts of the shared dict each
thread may have changed while it does not hold the lock: a tuple is in a
batch, or in the hand of the main thread, or settled, and `_current_tups` names
open tuples whenever an exception can be on its way. What is inductive is
`Disturbed` or that: `Disturbed` stays, and every step keeps the rest but for the
batcher starting over too soon and a read that raises. That the anchors of an emit
are the batch in hand (`AnchorInv`) needs no such condition, since nobody assigns
`_current_tups` without the lock.

**ReliableSpout.** `DictsAgree` says that an id in flight is saved with its
payload and that only such an id has been counted; `NoLeak` adds, if emits are
safe, that between commands nothing else is saved. The number of attempts of
the abstract specification is the failure count plus one while in flight.

**Multilang.** `IdsMatch` depends on what is in the pipe between the two halves
of an emit. The invariant says that at most one thread, the owner of the
reader lock, has an emit without an answer; that Storm then either still has to
answer or has put exactly one list into the pipe, that thread's; and that
without garbled messages no list is left in the deque, so that `read_command` never
meets task IDs at all. `NeverLost` needs no such condition: each step
takes a command from the deque or the pipe or puts one at an end. One that
`read_task_ids` takes from the pipe is in the deque with the same step, whose two
halves no exception of these calls can part.
`HandledInOrder` adds `MainOnly`: where only the main thread emits, the
deque is empty whenever it reads from the pipe.

**Worker.** What a thread has still to do is a *path*: step by step it leads
from the locks held now to none, acquires each lock in the order batch,
reader, log, writer, but for the two nestings the property names, and gives
back the logging handler's only at "caught". That every program of the module is one is
proved program by program (`SendProgram` to `LandsProgram`), and that what is
left after a step, an exception, or an exception that
`StormHandler.emit` swallows is one again (`RestOfPath`, `SwallowPath`). The
invariant is that, that no lock has two holders, that the signal handler
does not interrupt itself, and `Quiet`: if nobody else sends signals and
exceptions are dealt with in time, a signal finds the batcher at rest. A
set of threads that wait for each other then has nobody who waits for the
writer lock, whose holder could only wait for a lock before it in the order, so
nobody who waits for the handler's, and so on.

**Submit.** `IInv` follows a command through its calls: `Shape` (types),
`Progress` (at each call: that the request passed the checks, what has been
prepared from it, how much of the jar is up), `Underway` (what is late was asked
by a command that has timed out), `Runs` (a topology in the cluster is the one
its command prepared) and `Replaced` (once a forced command gets to the name's
check and the submit, what ran at the start is gone, and does not come back).
The lemmas about dicts (`UpdatedIs`, `GetUpdated` and
others) say what a sequence of `dict.update`s leaves at a key; the theorems
about options follow key by key.

**Jar.** A path along which the walk goes is one on which no directory is met
twice, none is excluded and all can be listed (`Walked`); there are no more
names on it than directories, by the pigeonhole principle, which is what bounds
`Packaged` and the walk. The invariant of one walk (`WalkInv`) speaks of its
stack, the paths visited and the entries found: what is on the stack has been
come to along such a path, and all that is above it has been visited
(`Stacked`); nothing on the stack is below another path on it or above one
visited (`Apart`); what has not been visited is below a path on the stack
(`Covered`); the entries are the files of what has been visited, once each
(`Listed`). `Stacked` makes the comparison with the ancestors that have been
recorded one with all ancestors, so that a path is pruned exactly if it is not
`Walked` (`PushedIs`, `LoopIs`); `Apart` makes the entries of one visit new. With
an empty stack `Covered` and `Listed` are `PacksAll`.

For the archive, the walks of all commands are one sequence of states, of which
each is at some place (`Trace`, `WalksAgree`): builds have the same entries in
the same order, and what they write at one place is the same piece. `Together`
says, as long as no build has failed, that nothing else is in the archive, and
that there is a build whose pieces are all in it, namely any since the last
truncation; when every build has closed the archive, it is whole. `Alone` follows
a command that nobody disturbs: while it writes nobody else does and the archive
is what it has written; while it uploads the archive is whole and what it has
read is the beginning of it.

Each inductive invariant was model-checked on the instance of its run before it
was proved. Some things came out of the proofs. `RunsAsAsked` asked
for the parallelism of the environment given, and now asks for that of the
environment chosen, which is the only one there is if none is given.
`SubmitAssumption`, `WorkerAssumption` and `JarAssumption` name what the modules
took for granted: values that stand for "none" are not names, a tickless bolt
has one batcher, directories are finite in number and names are sorted, each
once. And in `Jar` an archive closed by a build that fails was one case of two
that overlapped, which TLC tells apart by their order and the logic does not;
it is an alternative now.

Only model-checked:

* liveness (`EverythingSettled`, `EverythingResolved`, `ExceptionsReachMain`,
  `EverybodyIsServed`, `EndsUnlessOvertaken`, `EveryCallReturns`,
  `EndsWithStorm`, `EveryCommandEnds`), which is beyond the prover;
* `Wired`, `OrderIrrelevant` and `TopologiesStay` of `TopologyDsl`: a class
  statement is a fold over its body, then one over the components found, which
  folds over the inputs of each while the dicts are filtered and rewritten. What
  the operators `FoldLeft` and `SelectSeq` compute takes an induction over data,
  which the prover cannot do. In `Jar` the one recursion runs along a path, and
  is a recursive function about which one can reason by the least place where a
  claim fails; here there would have to be such an argument for each of the
  nested folds, through states of the dicts in which keys are filed under names
  they no longer have.

## 5. What is not modelled

* the JSON encoding, which integers are out of range and what becomes of
  them, bytes, when blank lines are reported: pure functions with unit tests at
  their boundaries. `Worker` has the warnings they log;
* log formats, the stream attributes of `LogStream`, and text printed before
  stdout is redirected at the end of the set-up;
* `_exit`'s choice between `sys.exit` and `os._exit`: both end the process;
* the constructors of components, and a signal before they have ended;
* user code that settles tuples itself while `auto_ack` is on, that emits with
  an id Storm still waits for, or that starts threads other than the emitting
  ones of `Multilang`;
* `auto_ack` and `auto_fail` off in the runs (the proofs cover them);
* in the DSL: types of arguments, parallelism hints, configurations, custom
  groupings, topologies that inherit, and the Thrift structures that mirror
  the specs;
* in the jar: file contents, the zip format, `--src` and `--output`;
* how the configuration's host and port are parsed (`Submit` has whether there
  is one) and the import of the topology file; the launcher, the argument parsers and the dispatch to a command, which
  decide nothing; the generated Thrift code, a table of field types;
* Nimbus beyond what `submit` can see of it.

## 6. Plan

Done: the bolts, the spout, the pipe between threads, the locks and the life of
a worker, the DSL, the jar, submitting; the proofs of all of them but the DSL.

Next, for `TopologyDsl`: the folds as recursive functions, so that
`TopologiesStay` can be proved, first of the specs that a class statement does
not touch; then `Wired`, whose invariant has to say under which name each key is
filed.
