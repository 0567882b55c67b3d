----------------------------- MODULE Settlement ------------------------------
(***************************************************************************)
(* What a bolt process with auto_ack and auto_fail promises Storm,         *)
(* whatever it does with the tuples in between: a tuple it has read is     *)
(* settled at most once, a heartbeat is answered and never settled, and a  *)
(* process that exits because of an exception (status 1) leaves no tuple   *)
(* behind for the message timeout to find.  Only the loss of the pipe      *)
(* itself (status 2) may leave tuples open.                                *)
(***************************************************************************)
CONSTANTS Tuples,       \* messages Storm may send to the bolt
          Heartbeats    \* those of them that are heartbeats

VARIABLES outcome,      \* what has become of each message
          status        \* the process: "running", "error" or "gone"

vars == <<outcome, status>>

Init == /\ outcome = [m \in Tuples |-> "unread"]
        /\ status = "running"

Receive(m) ==
    /\ status = "running"
    /\ outcome[m] = "unread"
    /\ outcome' = [outcome EXCEPT ![m] = IF m \in Heartbeats THEN "beat"
                                                             ELSE "open"]
    /\ UNCHANGED status

\* Any number of open tuples settled at once, all in the same way.
SettleAll(S, how) ==
    /\ status = "running"
    /\ \A m \in S : outcome[m] = "open"
    /\ outcome' = [m \in Tuples |-> IF m \in S THEN how ELSE outcome[m]]
    /\ UNCHANGED status

Answer(m) ==
    /\ status = "running"
    /\ outcome[m] = "beat"
    /\ outcome' = [outcome EXCEPT ![m] = "synced"]
    /\ UNCHANGED status

\* sys.exit(1): every tuple read so far has been settled.
ExitOnError ==
    /\ status = "running"
    /\ \A m \in Tuples : outcome[m] # "open"
    /\ status' = "error"
    /\ UNCHANGED outcome

\* sys.exit(2): the pipe to Storm is closed.
StormGone ==
    /\ status = "running"
    /\ status' = "gone"
    /\ UNCHANGED outcome

Next == \/ \E m \in Tuples : Receive(m) \/ Answer(m)
        \/ \E S \in SUBSET Tuples, how \in {"acked", "failed"} : SettleAll(S, how)
        \/ ExitOnError
        \/ StormGone

Spec == Init /\ [][Next]_vars

=============================================================================
