------------------------------- MODULE MCBolt --------------------------------
(***************************************************************************)
(* An instance of Bolt for TLC: three data or tick tuples, two heartbeats. *)
(***************************************************************************)
EXTENDS Bolt

CONSTANTS t1, t2, t3, h1, h2

MCTuples == {t1, t2, t3, h1, h2}
MCHeartbeats == {h1, h2}

Exits == [autoAck |-> TRUE, autoFail |-> TRUE, exitOnException |-> TRUE,
          readMayRaise |-> TRUE]
GoesOn == [Exits EXCEPT !.exitOnException = FALSE, !.readMayRaise = FALSE]

\* Reads may raise where the process exits then.
MCConfigs == {Exits, GoesOn}

=============================================================================
