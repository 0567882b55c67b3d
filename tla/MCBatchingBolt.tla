--------------------------- MODULE MCBatchingBolt ----------------------------
(***************************************************************************)
(* Instances of BatchingBolt for TLC: three data tuples and a heartbeat,   *)
(* two tuples of the first sharing a key.  KeysNamed gives every tuple a   *)
(* key of its own choosing; KeysWithNone gives one of them the key None.   *)
(***************************************************************************)
EXTENDS BatchingBolt

CONSTANTS t1, t2, t3, h1, k1, k2

MCTuples == {t1, t2, t3, h1}
MCHeartbeats == {h1}
MCKeys == {k1, k2}
KeysNamed == [t \in MCTuples |-> IF t \in {t1, t2} THEN k1 ELSE k2]
KeysWithNone == [t \in MCTuples |-> IF t \in {t1, t2} THEN k1 ELSE NoKey]

Exits == [autoAck |-> TRUE, autoFail |-> TRUE, exitOnException |-> TRUE,
          groupKey |-> KeysWithNone,
          readMayRaise |-> TRUE, emptyBatchMayRaise |-> TRUE]
GoesOn == [autoAck |-> TRUE, autoFail |-> TRUE, exitOnException |-> FALSE,
           groupKey |-> KeysNamed,
           readMayRaise |-> FALSE, emptyBatchMayRaise |-> FALSE]

\* Where the process exits anything may raise; where it goes on group_key and
\* process_batch may, for a batch with tuples.
MCConfigs == {Exits, GoesOn}

\* process_batch may raise for an empty batch, too.
Poisoned == {[GoesOn EXCEPT !.emptyBatchMayRaise = TRUE]}

=============================================================================
