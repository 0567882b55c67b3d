----------------------------- MODULE StormInputs -----------------------------
(***************************************************************************)
(* Storm's side of a bolt, as far as the bolt's messages reach it.         *)
(*                                                                         *)
(* The supervisor-side ShellBolt keeps every tuple it has written to the   *)
(* bolt's stdin until the bolt acks or fails its id.  An ack or fail of an *)
(* id it does not hold (never sent, already settled, or a heartbeat, which *)
(* it does not hold at all) is an error that takes the worker down; the    *)
(* outcome of that message is then "rejected" for good.                    *)
(***************************************************************************)

\* What Storm knows of a message it can send to the bolt.
Outcomes == {"unread",    \* not taken off the pipe by the bolt yet
             "open",      \* a tuple the bolt has read and not settled
             "acked",
             "failed",
             "beat",      \* a heartbeat the bolt has read and not answered
             "synced",    \* a heartbeat answered with a sync
             "rejected"}  \* settled when Storm was not waiting for it

\* The bolt takes message m off the pipe.
Take(outcome, m, isHeartbeat) ==
    [outcome EXCEPT ![m] = IF isHeartbeat THEN "beat" ELSE "open"]

\* Every message of S is acked or failed, as "how" says.
Settle(outcome, S, how) ==
    [m \in DOMAIN outcome |->
        IF m \notin S THEN outcome[m]
        ELSE IF outcome[m] = "open" THEN how
        ELSE "rejected"]

\* Bolt.ack and Bolt.fail for each message of S.
Ack(outcome, S)  == Settle(outcome, S, "acked")
Fail(outcome, S) == Settle(outcome, S, "failed")

\* The {"command": "sync"} that answers heartbeat m.
Sync(outcome, m) == [outcome EXCEPT ![m] = "synced"]

=============================================================================
