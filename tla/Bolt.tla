-------------------------------- MODULE Bolt ---------------------------------
(***************************************************************************)
(* bolt.Bolt driven by the loop of component.Component.run: read a tuple,  *)
(* process it, ack it; when anything raises, report it, fail the tuple,    *)
(* and exit or go on.  One thread, so the steps are those between which    *)
(* user code (process, process_tick) runs or the pipe may break.           *)
(*                                                                         *)
(* Ticks are ordinary members of Tuples here: Bolt acks and fails them     *)
(* exactly as it does data tuples.  Payloads, anchors and the text of the  *)
(* reports are left out.                                                   *)
(***************************************************************************)
EXTENDS StormInputs

CONSTANTS Tuples, Heartbeats,
          Configs   \* the configurations of the process

\* readMayRaise: read_tuple may raise something other than StormWentAwayError
\* (for a malformed message).  The rest are attributes of the bolt.
ASSUME BoltAssumption ==
    /\ Heartbeats \subseteq Tuples
    /\ Configs \subseteq [autoAck : BOOLEAN, autoFail : BOOLEAN,
                          exitOnException : BOOLEAN, readMayRaise : BOOLEAN]

VARIABLES conf,         \* the configuration, which does not change
          pc,           \* where run() is
          currentTups,  \* self._current_tups, as the set of its elements
          outcome       \* Storm's side

vars == <<conf, pc, currentTups, outcome>>

PCs == {"read",     \* about to call read_tuple
        "beat",     \* about to answer the current heartbeat
        "process",  \* in process or process_tick of the one current tuple
        "handle",   \* in the except clause of run
        "handled",  \* after it, at the exit_on_exception test
        "exit1", "exit2"}

TypeOK == /\ conf \in Configs
          /\ pc \in PCs
          /\ currentTups \in SUBSET Tuples
          /\ outcome \in [Tuples -> Outcomes]

Init == /\ conf \in Configs
        /\ pc = "read"
        /\ currentTups = {}
        /\ outcome = [m \in Tuples |-> "unread"]

-----------------------------------------------------------------------------
\* Mutated forms, for the mutant runs: the reset that _run's comment warns
\* about is missing; the handler settles as a success.
ResetForgotten(tups) == tups
ReportedOnly(tups) == outcome

\* The assignment _run ends with, so that a failing read_tuple fails nothing.
ResetCurrent(tups) == {}

\* A tuple or a heartbeat arrives; _current_tups is assigned either way.
ReadTuple(m) ==
    /\ pc = "read"
    /\ outcome[m] = "unread"
    /\ outcome' = Take(outcome, m, m \in Heartbeats)
    /\ currentTups' = {m}
    /\ pc' = IF m \in Heartbeats THEN "beat" ELSE "process"
    /\ UNCHANGED conf

\* The sync that answers a heartbeat, and the end of that pass.
AnswerHeartbeat ==
    /\ pc = "beat"
    /\ \E m \in currentTups : outcome' = Sync(outcome, m)
    /\ currentTups' = ResetCurrent(currentTups)
    /\ pc' = "read"
    /\ UNCHANGED conf

\* read_tuple raises before _current_tups is assigned.
ReadRaises ==
    /\ conf.readMayRaise
    /\ pc = "read"
    /\ pc' = "handle"
    /\ UNCHANGED <<conf, currentTups, outcome>>

\* process (or process_tick) returns; the tuple is acked.
ProcessReturns ==
    /\ pc = "process"
    /\ outcome' = IF conf.autoAck THEN Ack(outcome, currentTups) ELSE outcome
    /\ currentTups' = ResetCurrent(currentTups)
    /\ pc' = "read"
    /\ UNCHANGED conf

ProcessRaises ==
    /\ pc = "process"
    /\ pc' = "handle"
    /\ UNCHANGED <<conf, currentTups, outcome>>

\* The handler only acts when there is exactly one current tuple.
HasCurrent(tups) == \E m \in tups : tups = {m}

\* What the handler makes of the current tuple.
FailCurrent(tups) ==
    IF HasCurrent(tups) /\ conf.autoFail THEN Fail(outcome, tups) ELSE outcome

\* Bolt._handle_run_exception: _current_tups keeps its value.
HandleException ==
    /\ pc = "handle"
    /\ outcome' = FailCurrent(currentTups)
    /\ pc' = "handled"
    /\ UNCHANGED <<conf, currentTups>>

AfterException == IF conf.exitOnException THEN "exit1" ELSE "read"

ExitOrContinue ==
    /\ pc = "handled"
    /\ pc' = AfterException
    /\ UNCHANGED <<conf, currentTups, outcome>>

\* Any read or send may find the pipe closed: StormWentAwayError, exit 2.
StormWentAway ==
    /\ pc \in {"read", "beat", "process", "handle"}
    /\ pc' = "exit2"
    /\ UNCHANGED <<conf, currentTups, outcome>>

Next == \/ \E m \in Tuples : ReadTuple(m)
        \/ AnswerHeartbeat
        \/ ReadRaises
        \/ ProcessReturns
        \/ ProcessRaises
        \/ HandleException
        \/ ExitOrContinue
        \/ StormWentAway

\* User code returns, and the interpreter goes on running the loop.
Fairness == /\ WF_vars(AnswerHeartbeat)
            /\ WF_vars(ProcessReturns \/ ProcessRaises)
            /\ WF_vars(HandleException)
            /\ WF_vars(ExitOrContinue)

Spec == Init /\ [][Next]_vars
FairSpec == Spec /\ Fairness

-----------------------------------------------------------------------------
Exited == pc \in {"exit1", "exit2"}

\* What Bolt does with its messages is what Settlement allows, and when it
\* exits because of an exception nothing it has read is left open.  Only with
\* auto_ack and auto_fail; the process exits when _run raises.
\* How much of the process's state Storm can see.
Status == IF pc = "exit1" THEN "error" ELSE IF pc = "exit2" THEN "gone"
          ELSE "running"

Contract == INSTANCE Settlement WITH status <- Status

ImplementsSettlement == Contract!Spec

\* Whatever _run has read does not stay open for the message timeout: it is
\* acked, failed or answered, unless the process ends first.
EverythingSettled ==
    \A m \in Tuples :
        outcome[m] \in {"open", "beat"} ~>
            (outcome[m] \notin {"open", "beat"} \/ Exited)

=============================================================================
