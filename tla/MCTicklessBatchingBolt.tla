----------------------- MODULE MCTicklessBatchingBolt ------------------------
(***************************************************************************)
(* Instances of TicklessBatchingBolt for TLC: two data tuples, and a tick  *)
(* or a heartbeat.  OneKey is the default group_key, which returns None    *)
(* for every tuple.                                                        *)
(***************************************************************************)
EXTENDS TicklessBatchingBolt

CONSTANTS t1, t2, tick1, h1, k1, k2

MCTuples == {t1, t2}
MCTicks == {tick1}
MCHeartbeats == {h1}
None == {}
MCKeys == {k1, k2}
TwoKeys == [t \in Tuples |-> IF t = t1 THEN k1 ELSE k2]
OneKey == [t \in Tuples |-> NoKey]

\* Nothing raises, or process_batch does and the process exits, or it goes on.
AllCalm == [exitOnException |-> TRUE, groupKey |-> TwoKeys, mayRaise |-> {}]
Exits == [AllCalm EXCEPT !.mayRaise = {"batch"}]
GoesOn == [Exits EXCEPT !.exitOnException = FALSE, !.groupKey = OneKey]
MCConfigs == {AllCalm, Exits, GoesOn}

\* Or anything may raise at any time, and the process goes on.
Faulty == [GoesOn EXCEPT !.groupKey = TwoKeys, !.mayRaise = {"read", "group", "batch"}]
AllConfigs == MCConfigs \cup {Faulty}

=============================================================================
