----------------------------- MODULE MCMultilang -----------------------------
(***************************************************************************)
(* Instances of Multilang for TLC: two commands, the main thread and one   *)
(* worker, and a pipe that holds two messages.                             *)
(***************************************************************************)
EXTENDS Multilang

CONSTANTS worker, c1, c2

MCWorkers == {worker}
MCCommands == {c1, c2}

\* The main thread emits and there is a garbled message, or there is none, and
\* the worker may emit as well.
MCConfigs == {[emitters |-> {Main}, garbled |-> 1]} \cup
    {[emitters |-> S, garbled |-> 0] : S \in {{Main}, Threads}}

=============================================================================
