------------------------------- MODULE Replay --------------------------------
(***************************************************************************)
(* What ReliableSpout promises the topology: a tuple stays in flight, with *)
(* the payload it was first emitted with, until Storm acks it or has       *)
(* failed it MaxFails + 1 times; each fail before that puts it in flight   *)
(* again, and an id that is used again starts afresh.                      *)
(***************************************************************************)
EXTENDS Naturals

CONSTANTS Ids, Payloads, NoPayload, MaxFails

VARIABLES inFlight,   \* the payload of each id Storm has not resolved
          attempts    \* how often it has been emitted

vars == <<inFlight, attempts>>

Init == /\ inFlight = [i \in Ids |-> NoPayload]
        /\ attempts = [i \in Ids |-> 0]

Emit(i, p) ==
    /\ inFlight[i] = NoPayload
    /\ inFlight' = [inFlight EXCEPT ![i] = p]
    /\ attempts' = [attempts EXCEPT ![i] = 1]

\* The tuple tree was processed in full, or the last attempt at it failed.
Done(i) ==
    /\ inFlight[i] # NoPayload
    /\ inFlight' = [inFlight EXCEPT ![i] = NoPayload]
    /\ attempts' = [attempts EXCEPT ![i] = 0]

\* A failed attempt that is not the last is followed by another.
Retry(i) ==
    /\ inFlight[i] # NoPayload
    /\ attempts[i] <= MaxFails
    /\ attempts' = [attempts EXCEPT ![i] = @ + 1]
    /\ UNCHANGED inFlight

Next == \E i \in Ids : \/ \E p \in Payloads : Emit(i, p)
                       \/ Done(i)
                       \/ Retry(i)

Spec == Init /\ [][Next]_vars

=============================================================================
