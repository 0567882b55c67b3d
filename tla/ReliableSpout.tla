---------------------------- MODULE ReliableSpout ----------------------------
(***************************************************************************)
(* spout.ReliableSpout driven by component.Component.run, and the Storm    *)
(* executor that drives it.  Storm sends one command (next, ack, fail,     *)
(* activate, deactivate) at a time and waits for the sync that ends it;    *)
(* the spout keeps the arguments of every emit until its id is resolved.   *)
(*                                                                         *)
(* ack and fail run no user code, so each is one step; next_tuple may emit *)
(* any number of tuples and may raise.  The saved arguments are one value, *)
(* the payload.  User code gives a tuple an id that Storm is not already   *)
(* waiting for (it may try an id again after an emit that raised).         *)
(***************************************************************************)
EXTENDS Integers

CONSTANTS Ids, Payloads,
          NoPayload,     \* no entry in the dict
          MaxFails,      \* self.max_fails
          Configs        \* the configurations of the process

\* emitMayRaise: a payload may be refused before it is sent.
ASSUME ReliableSpoutAssumption ==
    /\ NoPayload \notin Payloads
    /\ MaxFails \in Nat
    /\ Configs \subseteq [exitOnException : BOOLEAN, emitMayRaise : BOOLEAN]

VARIABLES conf,         \* the configuration, which does not change
          pc,
          unacked,      \* self.unacked_tuples
          failures,     \* self.failed_tuples
          outstanding,  \* Storm: the payload of each id it has not resolved
          owed          \* commands Storm sent less syncs it received

tracked == <<unacked, failures>>
vars == <<conf, pc, tracked, outstanding, owed>>

PCs == {"read",    \* waiting for a command
        "next",    \* in next_tuple
        "handle",  \* in the except clause of run
        "handled", \* after it, at the exit_on_exception test
        "exit1", "exit2"}

Entries == [Ids -> Payloads \cup {NoPayload}]

TypeOK == /\ conf \in Configs
          /\ pc \in PCs
          /\ unacked \in Entries
          /\ failures \in [Ids -> 0..MaxFails]
          /\ outstanding \in Entries
          /\ owed \in 0..1

Init == /\ conf \in Configs
        /\ pc = "read"
        /\ unacked = [i \in Ids |-> NoPayload]
        /\ failures = [i \in Ids |-> 0]
        /\ outstanding = [i \in Ids |-> NoPayload]
        /\ owed = 0

-----------------------------------------------------------------------------
\* Mutated forms, for the mutant runs.
CountKept(i) == failures
OneTooMany(i) == failures[i] <= MaxFails
NoSync == owed
EntryKept(i) == unacked

-----------------------------------------------------------------------------
\* self.unacked_tuples[tup_id] = args, before the tuple is sent.
Saved(i, p) == [unacked EXCEPT ![i] = p]

\* The two dict entries that ReliableSpout.ack removes.
Forgotten(i) == [unacked EXCEPT ![i] = NoPayload]
Uncounted(i) == [failures EXCEPT ![i] = 0]

Counted(i) == [failures EXCEPT ![i] = @ + 1]

\* Storm asks for more tuples.
NextCommand ==
    /\ pc = "read"
    /\ owed = 0
    /\ owed' = 1
    /\ pc' = "next"
    /\ UNCHANGED <<conf, tracked, outstanding>>

\* next_tuple emits a tuple.
Emit(i, p) ==
    /\ pc = "next"
    /\ outstanding[i] = NoPayload
    /\ unacked' = Saved(i, p)
    /\ outstanding' = [outstanding EXCEPT ![i] = p]
    /\ UNCHANGED <<conf, pc, failures, owed>>

\* next_tuple emits a tuple that Component.emit or the serializer refuses
\* (not a list, not serializable); the entry has been made all the same.
EmitRaises(i, p) ==
    /\ conf.emitMayRaise
    /\ pc = "next"
    /\ outstanding[i] = NoPayload
    /\ unacked' = Saved(i, p)
    /\ pc' = "handle"
    /\ UNCHANGED <<conf, failures, outstanding, owed>>

NextRaises ==
    /\ pc = "next"
    /\ pc' = "handle"
    /\ UNCHANGED <<conf, tracked, outstanding, owed>>

\* next_tuple returns and _run sends the sync.
NextReturns ==
    /\ pc = "next"
    /\ owed' = owed - 1
    /\ pc' = "read"
    /\ UNCHANGED <<conf, tracked, outstanding>>

\* Storm acks id i, and the spout forgets it.
Acked(i) ==
    /\ pc = "read"
    /\ owed = 0
    /\ outstanding[i] # NoPayload
    /\ outstanding' = [outstanding EXCEPT ![i] = NoPayload]
    /\ unacked' = Forgotten(i)
    /\ failures' = Uncounted(i)
    /\ UNCHANGED <<conf, pc, owed>>

MayReplay(i) == failures[i] < MaxFails

\* Storm fails id i, or lets it time out.  What the spout emits again is what
\* it saved; an id it has not saved is only logged.
Failed(i) ==
    /\ pc = "read"
    /\ owed = 0
    /\ outstanding[i] # NoPayload
    /\ IF unacked[i] = NoPayload
       THEN /\ outstanding' = [outstanding EXCEPT ![i] = NoPayload]
            /\ UNCHANGED tracked
       ELSE IF MayReplay(i)
       THEN /\ outstanding' = [outstanding EXCEPT ![i] = unacked[i]]
            /\ failures' = Counted(i)
            /\ UNCHANGED unacked
       ELSE /\ outstanding' = [outstanding EXCEPT ![i] = NoPayload]
            /\ unacked' = Forgotten(i)
            /\ failures' = Uncounted(i)
    /\ UNCHANGED <<conf, pc, owed>>

\* The error report is followed by a sync, which _run has not sent.
SyncAfterError == owed - 1

HandleException ==
    /\ pc = "handle"
    /\ owed' = SyncAfterError
    /\ pc' = "handled"
    /\ UNCHANGED <<conf, tracked, outstanding>>

ExitOrContinue ==
    /\ pc = "handled"
    /\ pc' = IF conf.exitOnException THEN "exit1" ELSE "read"
    /\ UNCHANGED <<conf, tracked, outstanding, owed>>

StormWentAway ==
    /\ pc \in {"read", "next", "handle"}
    /\ pc' = "exit2"
    /\ UNCHANGED <<conf, tracked, outstanding, owed>>

Resolved(i) == Acked(i) \/ Failed(i)

Next == \/ NextCommand
        \/ \E i \in Ids : Resolved(i)
        \/ \E i \in Ids, p \in Payloads : Emit(i, p) \/ EmitRaises(i, p)
        \/ NextRaises
        \/ NextReturns
        \/ HandleException
        \/ ExitOrContinue
        \/ StormWentAway

\* next_tuple returns or raises, and Storm resolves every tuple in flight, by
\* its message timeout if by nothing else: it may be busy with next commands
\* whenever a tuple times out, but not for ever.
Fairness == /\ WF_vars(NextReturns \/ NextRaises)
            /\ WF_vars(HandleException)
            /\ WF_vars(ExitOrContinue)
            /\ \A i \in Ids : SF_vars(Resolved(i))

Spec == Init /\ [][Next]_vars
FairSpec == Spec /\ Fairness

-----------------------------------------------------------------------------
Exited == pc \in {"exit1", "exit2"}

\* Between two commands unacked_tuples holds exactly the tuples Storm has not
\* resolved yet, each with the payload that is in flight (the class docs of
\* ReliableSpout): none leaks, and none would be dropped for want of an entry.
HoldsUnresolved == pc = "read" => unacked = outstanding

\* Storm gets exactly one sync for each of its commands, whether _run ends or
\* raises: one too few and it waits for ever, one too many and it takes the
\* answer of one command for the end of the next.
OneSyncPerCommand ==
    pc # "exit2" => owed = IF pc \in {"next", "handle"} THEN 1 ELSE 0

Attempts == [i \in Ids |-> IF outstanding[i] = NoPayload THEN 0
                           ELSE failures[i] + 1]

Contract == INSTANCE Replay WITH inFlight <- outstanding, attempts <- Attempts

\* The replay bookkeeping implements Replay: the counters in failed_tuples are
\* the number of times the tuple in flight has been emitted, less one, so that
\* no tuple is replayed more or less often than max_fails allows.
ImplementsReplay == Contract!Spec

\* No tuple is tracked for ever, even if every attempt at it fails.
EverythingResolved ==
    \A i \in Ids : unacked[i] # NoPayload ~> (unacked[i] = NoPayload \/ Exited)

=============================================================================
