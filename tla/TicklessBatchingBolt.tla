------------------------ MODULE TicklessBatchingBolt -------------------------
(***************************************************************************)
(* bolt.TicklessBatchingBolt: the main thread reads tuples and puts them   *)
(* in batches, a batcher thread wakes up now and then and processes them,  *)
(* and both take the batch lock to do so.  An exception in the batcher is  *)
(* left in exc_info and a SIGUSR1 makes the main thread raise it, wherever *)
(* it is: between two lines of a message too, or inside StormHandler.emit, *)
(* which swallows it.  The exception handler of the main thread runs       *)
(* without the lock.                                                       *)
(*                                                                         *)
(* auto_ack and auto_fail are on, as they are unless a subclass says       *)
(* otherwise, and the root logger has a StormHandler.  The order in which  *)
(* a dict is iterated is left open, and so is how long anything takes.  A  *)
(* broken pipe, which ends the process at once, is left to BatchingBolt.   *)
(***************************************************************************)
EXTENDS StormInputs

CONSTANTS Tuples, Ticks, Heartbeats,  \* messages Storm may send
          Keys, NoKey,    \* as in BatchingBolt
          NoTuple,
          Configs         \* the configurations of the process

AllKeys == Keys \cup {NoKey}
Messages == Tuples \cup Ticks \cup Heartbeats

\* mayRaise: what user code and messages may make raise.
Config == [exitOnException : BOOLEAN, groupKey : [Tuples -> AllKeys],
           mayRaise : SUBSET {"read", "group", "batch"}]

ASSUME TicklessAssumption ==
    /\ Tuples \cap Ticks = {}
    /\ (Tuples \cup Ticks) \cap Heartbeats = {}
    /\ NoTuple \notin Messages
    /\ Configs \subseteq Config

VARIABLES conf,         \* the configuration, which does not change
          mpc,          \* main thread
          tup,          \*   local of read_message and _run: what it is reading
                        \*   or has read last
          rest,         \* what is left of a message that the signal interrupted
                        \* is at the head of the pipe
          hTodo,        \*   locals of the exception handler: keys to visit,
          hBatch,       \*   the batch it has got hold of,
          hFailed,      \*   and what it has failed
          bpc,          \* batcher thread
          bTodo,        \*   locals of process_batches: keys to visit,
          bKey, bBatch, \*   the current key and batch
          lock,         \* holder of self._batch_lock
          present,      \* keys of self._batches
          grown,        \* a key was added while the batcher iterates over them
          batch,        \* self._batches
          currentTups, currentKey,
          excInfo,      \* self.exc_info is not None
          sigPending,   \* a SIGUSR1 has not been handled yet
          outcome,      \* Storm's side
          mishaps       \* history: what has happened so far of
                        \*   "overlap": the batcher went back to the batches when
                        \*     the main thread was not done with an exception
                        \*   "badRead": read_tuple raised
                        \*   "swallowed": an exception of the batcher met
                        \*     StormHandler.emit

handler == <<hTodo, hBatch, hFailed>>
batcher == <<bpc, bTodo, bKey, bBatch>>
dict == <<present, grown, batch>>
current == <<currentTups, currentKey>>
signals == <<excInfo, sigPending>>
vars == <<conf, mpc, tup, rest, handler, batcher, lock, dict, current, signals,
          outcome, mishaps>>

\* The main thread holds the lock at the points of _run's with block.
MainHolds == {"beat", "tick", "group", "done"}
\* It has read some of a message at "half", and all of it at "got".
MainReading == {"half", "got"}
MainRuns == {"read"} \cup MainReading \cup MainHolds
\* The points inside the try of run's except clause.
MainHandles == {"handle", "scan", "fail", "reset"}
\* Where the main thread may log: blank lines, user code in group_key, the
\* report of an exception and of one that interrupts that.
Logging == {"read", "half", "group", "handle", "nested"}
BatcherHolds == {"batch", "inBatch", "acked"}

Init == /\ conf \in Configs
        /\ mpc = "read" /\ tup = NoTuple /\ rest = FALSE
        /\ hTodo = {} /\ hBatch = {} /\ hFailed = {}
        /\ bpc = "sleep" /\ bTodo = {} /\ bKey = NoKey /\ bBatch = {}
        /\ lock = "free"
        /\ present = {} /\ grown = FALSE /\ batch = [k \in AllKeys |-> {}]
        /\ currentTups = {} /\ currentKey = NoKey
        /\ excInfo = FALSE /\ sigPending = FALSE
        /\ outcome = [m \in Messages |-> "unread"]
        /\ mishaps = {}

-----------------------------------------------------------------------------
\* Mutated forms, for the mutant runs.
NoLockNeeded == TRUE
AckForgotten == {}
FailedTwice == currentTups
SignalNotSent == sigPending

-----------------------------------------------------------------------------
(***************************************************************************)
(* The main thread: _run.                                                  *)
(***************************************************************************)
\* read_message reads the line of a message ...
StartReading(m) ==
    /\ mpc = "read"
    /\ ~rest
    /\ outcome[m] = "unread"
    /\ outcome' = Take(outcome, m, m \in Heartbeats)
    /\ tup' = m
    /\ mpc' = "half"
    /\ UNCHANGED <<conf, rest, handler, batcher, lock, dict, current, signals, mishaps>>

\* ... and the "end" after it.
EndReading ==
    /\ mpc = "half"
    /\ mpc' = "got"
    /\ UNCHANGED <<conf, tup, rest, handler, batcher, lock, dict, current, signals,
                   outcome, mishaps>>

ReadRaises ==
    /\ mpc = "read"
    /\ mpc' = "handle"
    /\ rest' = FALSE
    /\ mishaps' = mishaps \cup {"badRead"}
    /\ UNCHANGED <<conf, tup, handler, batcher, lock, dict, current, signals, outcome>>

\* What was left of an interrupted message is no JSON, "end" alone included.
ReadRest == rest /\ ReadRaises
ReadGarbled == ~rest /\ "read" \in conf.mayRaise /\ ReadRaises

LockFree == lock = "free"

\* Only now does the tuple become the current one.
MainLocks ==
    /\ mpc = "got"
    /\ LockFree
    /\ lock' = "main"
    /\ currentTups' = {tup}
    /\ mpc' = IF tup \in Heartbeats THEN "beat"
              ELSE IF tup \in Ticks THEN "tick" ELSE "group"
    /\ UNCHANGED <<conf, tup, rest, handler, batcher, dict, currentKey, signals,
                   outcome, mishaps>>

AnswerHeartbeat ==
    /\ mpc = "beat"
    /\ outcome' = Sync(outcome, tup)
    /\ mpc' = "done"
    /\ UNCHANGED <<conf, tup, rest, handler, batcher, lock, dict, current, signals,
                   mishaps>>

AckTick ==
    /\ mpc = "tick"
    /\ outcome' = Ack(outcome, {tup})
    /\ mpc' = "done"
    /\ UNCHANGED <<conf, tup, rest, handler, batcher, lock, dict, current, signals,
                   mishaps>>

GroupReturns ==
    /\ mpc = "group"
    /\ batch' = [batch EXCEPT ![conf.groupKey[tup]] = @ \cup {tup}]
    /\ present' = present \cup {conf.groupKey[tup]}
    /\ mpc' = "done"
    /\ UNCHANGED <<conf, tup, rest, handler, batcher, lock, grown, current, signals,
                   outcome, mishaps>>

GroupRaises ==
    /\ "group" \in conf.mayRaise
    /\ mpc = "group"
    /\ lock' = "free"
    /\ tup' = NoTuple
    /\ mpc' = "handle"
    /\ UNCHANGED <<conf, rest, handler, batcher, dict, current, signals, outcome,
                   mishaps>>

\* The end of the with block, _current_tups being reset inside it.
MainUnlocks ==
    /\ mpc = "done"
    /\ currentTups' = {}
    /\ lock' = "free"
    /\ tup' = NoTuple
    /\ mpc' = "read"
    /\ UNCHANGED <<conf, rest, handler, batcher, dict, currentKey, signals, outcome,
                   mishaps>>

-----------------------------------------------------------------------------
(***************************************************************************)
(* The main thread: the signal and the exceptions.                         *)
(***************************************************************************)

\* Where an exception raised by the signal handler takes the main thread: to
\* run's except clause, out of the handler that clause was in (its own bare
\* except), or out of run altogether.
Raised == IF mpc \in MainRuns THEN "handle"
          ELSE IF mpc \in MainHandles THEN "nested" ELSE "exit1"

\* _handle_worker_exception needs the lock, which the main thread may hold
\* already.  Its exception meets the except clauses of StormHandler.emit, if
\* that is what the main thread is in, or of run; a signal with no exception
\* behind it is ignored.
HandleSignal ==
    /\ sigPending
    /\ mpc # "exit1"
    /\ lock \in {"free", "main"}
    /\ sigPending' = FALSE
    /\ excInfo' = FALSE
    /\ \/ /\ ~excInfo
          /\ UNCHANGED <<mpc, lock, tup, rest, mishaps>>
       \/ /\ excInfo /\ mpc \in Logging
          /\ mishaps' = mishaps \cup {"swallowed"}
          /\ UNCHANGED <<mpc, lock, tup, rest>>
       \/ /\ excInfo
          /\ mpc' = Raised /\ lock' = "free" /\ tup' = NoTuple
          /\ rest' = (rest \/ mpc = "half")
          /\ UNCHANGED mishaps
    /\ UNCHANGED <<conf, handler, batcher, dict, current, outcome>>

\* _handle_run_exception reports the exception and starts on the batches.
ReportException ==
    /\ mpc = "handle"
    /\ hTodo' = present
    /\ hFailed' = {}
    /\ mpc' = "scan"
    /\ UNCHANGED <<conf, tup, rest, hBatch, batcher, lock, dict, current, signals,
                   outcome, mishaps>>

ScanKey(k) ==
    /\ mpc = "scan"
    /\ k \in hTodo
    /\ hTodo' = hTodo \ {k}
    /\ IF conf.exitOnException \/ k = currentKey
       THEN hBatch' = batch[k] /\ mpc' = "fail"
       ELSE UNCHANGED <<hBatch, mpc>>
    /\ UNCHANGED <<conf, tup, rest, hFailed, batcher, lock, dict, current, signals,
                   outcome, mishaps>>

FailBatch ==
    /\ mpc = "fail"
    /\ outcome' = Fail(outcome, hBatch)
    /\ hFailed' = hFailed \cup hBatch
    /\ hBatch' = {}
    /\ mpc' = "scan"
    /\ UNCHANGED <<conf, tup, rest, hTodo, batcher, lock, dict, current, signals,
                   mishaps>>

NotYetFailed == currentTups \ hFailed

FailCurrent ==
    /\ mpc = "scan"
    /\ hTodo = {}
    /\ outcome' = Fail(outcome, NotYetFailed)
    /\ mpc' = "reset"
    /\ UNCHANGED <<conf, tup, rest, handler, batcher, lock, dict, current, signals,
                   mishaps>>

Forgotten == [batch EXCEPT ![currentKey] = {}]

\* The key may be new to the dict, even one the batcher is iterating over.
ResetBatch ==
    /\ mpc = "reset"
    /\ batch' = Forgotten
    /\ present' = present \cup {currentKey}
    /\ grown' = (grown \/ (bpc \in BatcherHolds /\ currentKey \notin present))
    /\ currentKey' = NoKey
    /\ mpc' = "handled"
    /\ UNCHANGED <<conf, tup, rest, handler, batcher, lock, currentTups, signals,
                   outcome, mishaps>>

ExitOrContinue ==
    /\ mpc \in {"nested", "handled"}
    /\ mpc' = IF conf.exitOnException THEN "exit1" ELSE "read"
    /\ hTodo' = {} /\ hBatch' = {} /\ hFailed' = {}
    /\ UNCHANGED <<conf, tup, rest, batcher, lock, dict, current, signals, outcome,
                   mishaps>>

-----------------------------------------------------------------------------
(***************************************************************************)
(* The batcher thread.  It stops with the process.                         *)
(***************************************************************************)
Alive == mpc # "exit1"

\* The batcher has slept and has got the lock, both of which may take any time.
BatcherLocks ==
    /\ Alive
    /\ bpc = "sleep"
    /\ lock = "free"
    /\ lock' = "batcher"
    /\ bTodo' = present
    /\ bpc' = "batch"
    /\ mishaps' = mishaps \cup IF excInfo \/ mpc \notin MainRuns
                              THEN {"overlap"} ELSE {}
    /\ UNCHANGED <<conf, mpc, tup, rest, handler, bKey, bBatch, dict, current,
                   signals, outcome>>

StartBatch(k) ==
    /\ Alive
    /\ bpc = "batch"
    /\ ~grown
    /\ k \in bTodo
    /\ bTodo' = bTodo \ {k}
    /\ bKey' = k
    /\ bBatch' = batch[k]
    /\ currentTups' = batch[k]
    /\ currentKey' = k
    /\ bpc' = "inBatch"
    /\ UNCHANGED <<conf, mpc, tup, rest, handler, lock, dict, signals, outcome,
                   mishaps>>

AckedTups == bBatch

\* process_batch returns and every tuple of the batch is acked ...
BatchReturns ==
    /\ Alive
    /\ bpc = "inBatch"
    /\ outcome' = Ack(outcome, AckedTups)
    /\ bpc' = "acked"
    /\ UNCHANGED <<conf, mpc, tup, rest, handler, bTodo, bKey, bBatch, lock, dict,
                   current, signals, mishaps>>

\* ... before the batch is emptied.
EmptyBatch ==
    /\ Alive
    /\ bpc = "acked"
    /\ currentKey' = NoKey
    /\ batch' = [batch EXCEPT ![bKey] = {}]
    /\ bKey' = NoKey /\ bBatch' = {}
    /\ bpc' = "batch"
    /\ UNCHANGED <<conf, mpc, tup, rest, handler, bTodo, lock, present, grown,
                   currentTups, signals, outcome, mishaps>>

\* process_batch raises, or the dict has changed size under the iteration.
BatcherRaises ==
    /\ Alive
    /\ \/ bpc = "inBatch" /\ "batch" \in conf.mayRaise /\ bBatch # {}
       \/ bpc = "batch" /\ grown
    /\ lock' = "free"
    /\ bTodo' = {} /\ bKey' = NoKey /\ bBatch' = {}
    /\ grown' = FALSE
    /\ bpc' = "raised"
    /\ UNCHANGED <<conf, mpc, tup, rest, handler, present, batch, current, signals,
                   outcome, mishaps>>

KeysAfter == {}

\* self._batches is bound to a new dict.
EndBatches ==
    /\ Alive
    /\ bpc = "batch"
    /\ ~grown
    /\ bTodo = {}
    /\ batch' = [k \in AllKeys |-> {}]
    /\ present' = KeysAfter
    /\ lock' = "free"
    /\ bpc' = "sleep"
    /\ UNCHANGED <<conf, mpc, tup, rest, handler, bTodo, bKey, bBatch, grown, current,
                   signals, outcome, mishaps>>

StoreException ==
    /\ Alive
    /\ bpc = "raised"
    /\ excInfo' = TRUE
    /\ bpc' = "kill"
    /\ UNCHANGED <<conf, mpc, tup, rest, handler, bTodo, bKey, bBatch, lock, dict,
                   current, sigPending, outcome, mishaps>>

Signalled == TRUE

SendSignal ==
    /\ Alive
    /\ bpc = "kill"
    /\ sigPending' = Signalled
    /\ bpc' = "sleep"
    /\ UNCHANGED <<conf, mpc, tup, rest, handler, bTodo, bKey, bBatch, lock, dict,
                   current, excInfo, outcome, mishaps>>

-----------------------------------------------------------------------------
MainSteps == \/ EndReading \/ ReadRest
             \/ AnswerHeartbeat \/ AckTick \/ GroupReturns \/ GroupRaises
             \/ MainUnlocks
             \/ ReportException
             \/ \E k \in AllKeys : ScanKey(k)
             \/ FailBatch \/ FailCurrent \/ ResetBatch \/ ExitOrContinue

BatcherSteps == \/ \E k \in AllKeys : StartBatch(k)
                \/ BatchReturns \/ EmptyBatch \/ BatcherRaises \/ EndBatches
                \/ StoreException \/ SendSignal

Next == \/ \E m \in Messages : StartReading(m)
        \/ ReadGarbled
        \/ MainLocks
        \/ HandleSignal
        \/ MainSteps
        \/ BatcherLocks
        \/ BatcherSteps

\* Both threads are scheduled, user code returns, sleeps end, and Storm writes a
\* message and its "end" in one piece.  A thread that waits for the lock gets it
\* if it is released again and again: the batcher sleeps between batches, and
\* the main thread waits for input.
Fairness == /\ WF_vars(MainSteps) /\ WF_vars(BatcherSteps)
            /\ SF_vars(MainLocks) /\ SF_vars(BatcherLocks) /\ SF_vars(HandleSignal)

Spec == Init /\ [][Next]_vars
FairSpec == Spec /\ Fairness

-----------------------------------------------------------------------------
Batched == UNION {batch[k] : k \in AllKeys}

\* The lock excludes the with block of _run and process_batches from each
\* other, and is held nowhere else: no path out of either, an exception or a
\* signal included, keeps it.
MutualExclusion ==
    /\ (lock = "main") = (mpc \in MainHolds)
    /\ Alive => (lock = "batcher") = (bpc \in BatcherHolds)
    /\ lock \in {"free", "main", "batcher"}

\* What the guarantees about tuples do not cover.  Before the main thread is done
\* with an exception, and has left the process if it will, the batcher may start
\* on the batches again, as the handler takes no lock (bolt.py:403-427) and
\* empties one batch only: both then settle the same tuples.  And a read that
\* raises makes the handler fail _current_tups, which the last handler may have
\* failed already, as it does not reset them.  So does group_key, and in a
\* process that goes on the handler leaves the tuple it fails in its batch if
\* that is not the batch of the current key: there, all tuples have one key, as
\* with the group_key of BatchingBolt.
Disturbed ==
    \/ mishaps \cap {"overlap", "badRead"} # {}
    \/ "group" \in conf.mayRaise
    \/ "batch" \in conf.mayRaise /\ ~conf.exitOnException
          /\ \E t, u \in Tuples : conf.groupKey[t] # conf.groupKey[u]

\* No ack or fail reaches Storm for a tuple that is not waiting for one, though
\* two threads settle tuples, until the process is disturbed.  (Not so for a
\* tick: if the signal comes between its ack and the reset of _current_tups the
\* handler fails it as well, and so for a heartbeat.)
SettledOnce == Disturbed \/ \A t \in Tuples : outcome[t] # "rejected"

\* What process_batch emits is anchored to the tuples of the batch it is working
\* on, whatever the main thread and its handler do meanwhile; and those are all
\* open until the process is disturbed.
AnchorsOpen ==
    bpc = "inBatch" /\ Alive =>
        /\ currentTups = bBatch
        /\ Disturbed \/ \A t \in bBatch : outcome[t] = "open"

\* An exception of the batcher reaches the main thread's handler, unless it is
\* swallowed because the main thread was logging (component.py:69), or the
\* process is gone; it is not lost between exc_info and the signal.
ExceptionsReachMain ==
    bpc = "raised" ~> (mpc \in MainHandles \/ "swallowed" \in mishaps \/ ~Alive)

\* Open messages that no variable of the bolt holds any more.
Lost == {m \in Messages : /\ outcome[m] = "open"
                          /\ m \notin Batched \cup {tup} \cup currentTups \cup bBatch \cup hBatch}

\* The signal makes the main thread drop what it is reading, or has read and is
\* about to take the lock for.
DropsMessage == mpc \in MainReading /\ tup # NoTuple /\ tup' = NoTuple

\* Until the process is disturbed the bolt loses sight of an open message only
\* where an exception of the batcher interrupts the main thread between the
\* first line of a message and the lock (serializer.py:77, bolt.py:555): not in
\* the swap of the dicts, where both threads assign _current_tups, or to the
\* reset of a batch.
LostOnlyInHand == [][Disturbed \/ Lost' \subseteq Lost \/ DropsMessage]_vars

\* Whatever is read is settled, however often process_batch raises, unless it
\* is lost, the process exits, or mishaps, which may go on for ever, keep the
\* handler from its end.
EverythingSettled ==
    \A t \in Tuples :
        outcome[t] = "open" ~>
            (outcome[t] # "open" \/ t \in Lost \/ mishaps # {} \/ ~Alive)

=============================================================================
