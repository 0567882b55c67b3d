-------------------------- MODULE MCReliableSpout ----------------------------
(***************************************************************************)
(* Instances of ReliableSpout for TLC: two ids, two payloads, two replays. *)
(***************************************************************************)
EXTENDS ReliableSpout

CONSTANTS i1, i2, p1, p2

MCIds == {i1, i2}
MCPayloads == {p1, p2}

\* Emits may raise where the process exits then.
MCConfigs == {[exitOnException |-> TRUE, emitMayRaise |-> TRUE],
              [exitOnException |-> FALSE, emitMayRaise |-> FALSE]}

=============================================================================
