---------------------------- MODULE BatchingBolt -----------------------------
(***************************************************************************)
(* bolt.BatchingBolt driven by component.Component.run: tuples are grouped *)
(* into batches by group_key, a tick that makes the counter exceed         *)
(* ticks_between_batches has every batch processed and acked, and an       *)
(* exception fails the batch at fault (and every other one if the process  *)
(* is to exit).                                                            *)
(*                                                                         *)
(* One thread; a step ends where user code (group_key, process_batch) runs *)
(* or the loop of run goes round.  Lists of tuples are sets.  A tick       *)
(* carries no data and ticks never stop, so one value, Tick, stands for    *)
(* the latest of them.                                                     *)
(***************************************************************************)
EXTENDS StormInputs, Integers, Sequences

CONSTANTS Tuples,        \* data tuples and heartbeats Storm may send
          Heartbeats,
          Tick,          \* the latest tick tuple
          Keys, NoKey,   \* group keys; NoKey is Python's None
          TicksBetweenBatches,
          Configs        \* the configurations of the process

AllKeys == Keys \cup {NoKey}
Messages == Tuples \cup {Tick}

\* groupKey: what group_key returns for a tuple.  readMayRaise: read_tuple may
\* raise for a message that holds no tuple (it does not parse, say).
\* emptyBatchMayRaise: so may process_batch for an empty batch.
Config == [autoAck : BOOLEAN, autoFail : BOOLEAN, exitOnException : BOOLEAN,
           groupKey : [Tuples -> AllKeys],
           readMayRaise : BOOLEAN, emptyBatchMayRaise : BOOLEAN]

ASSUME BatchingBoltAssumption ==
    /\ Heartbeats \subseteq Tuples
    /\ Tick \notin Tuples
    /\ TicksBetweenBatches \in Nat
    /\ Configs \subseteq Config

VARIABLES conf,         \* the configuration, which does not change
          pc,
          order,        \* keys of self._batches, in insertion order
          batch,        \* self._batches: the tuples of each key
          position,     \* how far process_batches is in that order
          currentTups,  \* self._current_tups
          currentKey,   \* self._current_key
          tickCounter,  \* self._tick_counter
          outcome       \* Storm's side

batches == <<order, batch>>
current == <<currentTups, currentKey>>
vars == <<conf, pc, batches, position, current, tickCounter, outcome>>

PCs == {"read",     \* about to call read_tuple
        "beat",     \* about to answer the current heartbeat
        "group",    \* in group_key of the current tuple
        "batch",    \* in process_batches, at the head of its loop
        "inBatch",  \* in process_batch of the current key
        "handle",   \* in the except clause of run
        "handled",  \* after it, at the exit_on_exception test
        "exit1", "exit2"}

\* tickCounter is only ever compared with TicksBetweenBatches, so it stops
\* one above it.
CounterLimit == TicksBetweenBatches + 1

TypeOK == /\ conf \in Configs
          /\ pc \in PCs
          /\ order \in Seq(AllKeys)
          /\ batch \in [AllKeys -> SUBSET Tuples]
          /\ position \in Nat \ {0}
          /\ currentTups \in SUBSET Messages
          /\ currentKey \in AllKeys
          /\ tickCounter \in 0..CounterLimit
          /\ outcome \in [Messages -> Outcomes]

NoBatches == [k \in AllKeys |-> {}]

Init == /\ conf \in Configs
        /\ pc = "read"
        /\ order = <<>>
        /\ batch = NoBatches
        /\ position = 1
        /\ currentTups = {}
        /\ currentKey = NoKey
        /\ tickCounter = 0
        /\ outcome = [m \in Messages |-> "unread"]

-----------------------------------------------------------------------------
\* Mutated forms, for the mutant runs.
LastKeyOnly(k) == k = currentKey
FailedTwice(tups, failed) == tups
FailedNever(tups, failed) == {}
AnchorsKept(k) == currentTups
KeyTaken(k) == {k}
TickNotCounted(n) == n
WipedAlways(k) == TRUE

-----------------------------------------------------------------------------
\* self._batches[k] comes into being when it is first assigned or read.
WithKey(k) == IF \E i \in DOMAIN order : order[i] = k THEN order
              ELSE Append(order, k)

Emptied(k) == [batch EXCEPT ![k] = {}]

\* A data tuple or a heartbeat arrives.
ReadTuple(m) ==
    /\ pc = "read"
    /\ outcome[m] = "unread"
    /\ outcome' = Take(outcome, m, m \in Heartbeats)
    /\ currentTups' = {m}
    /\ pc' = IF m \in Heartbeats THEN "beat" ELSE "group"
    /\ UNCHANGED <<conf, batches, position, currentKey, tickCounter>>

AnswerHeartbeat ==
    /\ pc = "beat"
    /\ \E m \in currentTups : outcome' = Sync(outcome, m)
    /\ currentTups' = {}
    /\ pc' = "read"
    /\ UNCHANGED <<conf, batches, position, currentKey, tickCounter>>

\* group_key returns and the tuple joins its batch.
GroupReturns ==
    /\ pc = "group"
    /\ \E m \in currentTups :
          /\ batch' = [batch EXCEPT ![conf.groupKey[m]] = @ \cup {m}]
          /\ order' = WithKey(conf.groupKey[m])
    /\ currentTups' = {}
    /\ pc' = "read"
    /\ UNCHANGED <<conf, position, currentKey, tickCounter, outcome>>

GroupRaises ==
    /\ pc = "group"
    /\ pc' = "handle"
    /\ UNCHANGED <<conf, batches, position, current, tickCounter, outcome>>

\* read_tuple raises before _current_tups is assigned.
ReadRaises ==
    /\ conf.readMayRaise
    /\ pc = "read"
    /\ pc' = "handle"
    /\ UNCHANGED <<conf, batches, position, current, tickCounter, outcome>>

Counted(n) == IF n < CounterLimit THEN n + 1 ELSE n

\* A tick arrives: it is counted and acked at once, and process_batches is
\* entered if it is the one that exceeds the limit and there is any batch.
ReadTick ==
    /\ pc = "read"
    /\ outcome' = Ack(Take(outcome, Tick, FALSE), {Tick})
    /\ tickCounter' = Counted(tickCounter)
    /\ IF tickCounter' > TicksBetweenBatches /\ order # <<>>
       THEN pc' = "batch" /\ position' = 1 /\ currentTups' = {Tick}
       ELSE currentTups' = {} /\ UNCHANGED <<pc, position>>
    /\ UNCHANGED <<conf, batches, currentKey>>

\* The tuples that emits of process_batch(k, ...) are anchored to.
BatchTups(k) == batch[k]

StartBatch ==
    /\ pc = "batch"
    /\ position <= Len(order)
    /\ currentKey' = order[position]
    /\ currentTups' = BatchTups(order[position])
    /\ pc' = "inBatch"
    /\ UNCHANGED <<conf, batches, position, tickCounter, outcome>>

\* process_batch returns: the batch is acked and emptied.
BatchReturns ==
    /\ pc = "inBatch"
    /\ outcome' = IF conf.autoAck THEN Ack(outcome, batch[currentKey])
                  ELSE outcome
    /\ batch' = Emptied(currentKey)
    /\ currentKey' = NoKey
    /\ position' = position + 1
    /\ pc' = "batch"
    /\ UNCHANGED <<conf, order, currentTups, tickCounter>>

BatchRaises ==
    /\ pc = "inBatch"
    /\ conf.emptyBatchMayRaise \/ batch[currentKey] # {}
    /\ pc' = "handle"
    /\ UNCHANGED <<conf, batches, position, current, tickCounter, outcome>>

\* The loop is over: process_batches forgets the keys, process_tick resets
\* the counter and _run the current tuples.
EndBatches ==
    /\ pc = "batch"
    /\ position > Len(order)
    /\ order' = <<>>
    /\ batch' = NoBatches
    /\ tickCounter' = 0
    /\ currentTups' = {}
    /\ pc' = "read"
    /\ UNCHANGED <<conf, position, currentKey, outcome>>

\* The batches the handler fails.
Wiped(k) == conf.exitOnException \/ k = currentKey

WipedTups == UNION {batch[k] : k \in {j \in AllKeys : Wiped(j)}}

NotYetFailed(tups, failed) == tups \ failed

\* The current key's batch after the handler, which does not ask whether that
\* key was in self._batches.  Neither the counter nor currentTups is reset,
\* and with auto_fail off nothing is.
HandleException ==
    /\ pc = "handle"
    /\ IF conf.autoFail
       THEN /\ outcome' = Fail(Fail(outcome, WipedTups),
                               NotYetFailed(currentTups, WipedTups))
            /\ batch' = Emptied(currentKey)
            /\ order' = WithKey(currentKey)
            /\ currentKey' = NoKey
       ELSE UNCHANGED <<outcome, batches, currentKey>>
    /\ pc' = "handled"
    /\ UNCHANGED <<conf, position, currentTups, tickCounter>>

ExitOrContinue ==
    /\ pc = "handled"
    /\ pc' = IF conf.exitOnException THEN "exit1" ELSE "read"
    /\ UNCHANGED <<conf, batches, position, current, tickCounter, outcome>>

\* Any read or send may find the pipe closed: StormWentAwayError, exit 2.
StormWentAway ==
    /\ pc \in {"read", "beat", "group", "batch", "inBatch", "handle"}
    /\ pc' = "exit2"
    /\ UNCHANGED <<conf, batches, position, current, tickCounter, outcome>>

\* The steps that wait for nothing but the bolt's own code.
Own == \/ AnswerHeartbeat
       \/ GroupReturns \/ GroupRaises
       \/ StartBatch \/ BatchReturns \/ BatchRaises \/ EndBatches
       \/ HandleException \/ ExitOrContinue

Next == \/ \E m \in Tuples : ReadTuple(m)
        \/ ReadTick
        \/ ReadRaises
        \/ Own
        \/ StormWentAway

\* User code returns, and Storm sends ticks for ever.
Fairness == WF_vars(Own) /\ WF_vars(ReadTick)

Spec == Init /\ [][Next]_vars
FairSpec == Spec /\ Fairness

-----------------------------------------------------------------------------
Exited == pc \in {"exit1", "exit2"}
Batched == UNION {batch[k] : k \in AllKeys}

\* No ack or fail reaches Storm for a message that is not waiting for one,
\* whatever mixture of ticks, batches and exceptions came before: the ack loop
\* of process_batches and the two fail loops of the handler never overlap.
SettledOnce == \A m \in Messages : outcome[m] # "rejected"

\* Whatever process_batch emits is anchored to the tuples of the very batch it
\* was called with, all of them still open: _current_tups and _current_key
\* agree with self._batches while user code runs.
AnchorsOpen ==
    pc = "inBatch" =>
        /\ currentTups = batch[currentKey]
        /\ \A t \in currentTups : outcome[t] = "open"

\* Between two messages every tuple Storm is waiting for is in some batch, and
\* every tuple in a batch is one Storm is waiting for: no path through the
\* loop, the handler included, forgets a tuple or keeps one that is settled.
\* (With auto_ack and auto_fail.)
NoOrphan ==
    pc = "read" => {m \in Messages : outcome[m] = "open"} = Batched

\* When the process is to go on, the handler fails the tuples that were being
\* processed and no others (the comment at the head of its loop).
OnlyCurrentFailed ==
    [][pc = "handle" /\ ~conf.exitOnException =>
         \A m \in Messages \ currentTups : outcome'[m] = outcome[m]]_vars

\* How much of the process's state Storm can see.
Status == IF pc = "exit1" THEN "error" ELSE IF pc = "exit2" THEN "gone"
          ELSE "running"

Contract == INSTANCE Settlement WITH
                outcome <- [m \in Tuples |-> outcome[m]], status <- Status

\* With auto_ack and auto_fail, an exiting process leaves no tuple of any
\* batch open, and never settles anything twice.
ImplementsSettlement == Contract!Spec

\* A tuple that joined a batch is acked or failed before long, or the process
\* exits: it does not stay in self._batches until the message timeout.
EverythingSettled ==
    \A m \in Tuples : outcome[m] = "open" ~> (outcome[m] # "open" \/ Exited)

=============================================================================
