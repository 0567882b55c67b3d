------------------------------ MODULE Multilang ------------------------------
(***************************************************************************)
(* The messages between component.Component and Storm: read_command, and   *)
(* emit with need_task_ids, which sends a tuple and reads the task IDs     *)
(* that answer it.  Commands and task IDs share one pipe, so whoever reads *)
(* the wrong kind puts it in a deque for the other.  Any thread may emit;  *)
(* the main thread alone reads commands.                                   *)
(*                                                                         *)
(* Exceptions are those these calls raise themselves: a tuple that json    *)
(* refuses to write, a message that it refuses to read.  (The signal of    *)
(* TicklessBatchingBolt meets no emit that reads: BatchingBolt.emit asks   *)
(* for no task IDs.)  A message is read, parsed and put in a deque in one  *)
(* step: who reads holds the reader lock until then, and who tests a deque *)
(* in between might have done so before.  Other sends (acks, syncs, plain  *)
(* emits) take the writer lock and are one step.                           *)
(***************************************************************************)
EXTENDS Integers, Sequences

CONSTANTS Main, Workers,  \* threads
          Commands,       \* tuples Storm sends; it has each of them in flight
                          \* once at a time
          Beat,           \* a heartbeat tuple
          Garbled,        \* a message that json.loads refuses
          Serials,        \* task IDs are told apart by thread and serial number
          PipeLimit,      \* bound: messages in the pipe to the component
          Configs         \* the configurations of the process

Threads == {Main} \cup Workers
TaskIds == Threads \X (0 .. Serials - 1)

\* emitters: the threads whose code emits with need_task_ids.  garbled: how many
\* garbled messages there are; the process goes on after an exception.
Config == [emitters : SUBSET Threads, garbled : Nat]

ASSUME MultilangAssumption ==
    /\ Main \notin Workers
    /\ "free" \notin Threads
    /\ Beat \notin Commands
    /\ Garbled \notin Commands \cup {Beat}
    /\ TaskIds \cap (Commands \cup {Beat, Garbled}) = {}
    /\ Serials \in Nat \ {0}
    /\ PipeLimit \in Nat \ {0}
    /\ Configs \subseteq Config

VARIABLES conf,             \* the configuration, which does not change
          garbledLeft,
          pc,               \* of each thread
          emit,             \* what identifies the emit each thread is in
          result,           \* the task IDs its last emit returned
          hand,             \* the message the main thread has just read
          pendingCommands, pendingTaskIds,   \* the two deques
          reader, writer,   \* owners of the two locks, or "free"
          pipe,             \* messages from Storm not read yet
          asked,            \* Storm: emits it has to answer
          outstanding       \* Storm: commands not handled yet, in order

deques == <<pendingCommands, pendingTaskIds>>
locks == <<reader, writer>>
storm == <<asked, outstanding>>
emits == <<emit, result>>
vars == <<conf, garbledLeft, pc, emits, hand, deques, locks, pipe, storm>>

\* The main thread is in read_command at "idle" (at the test of the deque),
\* "wantRead", "reading" and "stash", and sends its ack, or reports an exception,
\* at "ack"; any thread is in user code at "run", and in emit at the points of
\* Emitting.
Emitting == {"wantReader", "wantWriter", "send", "check", "await"}
PCs == {"idle", "wantRead", "reading", "stash", "run", "returned", "ack"} \cup Emitting

TypeOK == /\ conf \in Configs
          /\ garbledLeft \in Nat
          /\ pc \in [Threads -> PCs]
          /\ emit \in [Threads -> TaskIds]
          /\ result \in [Threads -> TaskIds]
          /\ hand \in TaskIds
          /\ pendingCommands \in Seq(Commands \cup {Beat})
          /\ pendingTaskIds \in Seq(TaskIds)
          /\ {reader, writer} \subseteq Threads \cup {"free"}
          /\ pipe \in Seq(Commands \cup {Beat, Garbled} \cup TaskIds)
          /\ asked \in Seq(TaskIds)
          /\ outstanding \in Seq(Commands)

Init == /\ conf \in Configs
        /\ garbledLeft = conf.garbled
        /\ pc = [t \in Threads |-> IF t = Main THEN "idle" ELSE "run"]
        /\ emit = [t \in Threads |-> <<t, 0>>]
        /\ result = emit
        /\ hand = <<Main, 0>>
        /\ pendingCommands = <<>> /\ pendingTaskIds = <<>>
        /\ reader = "free" /\ writer = "free"
        /\ pipe = <<>>
        /\ asked = <<>> /\ outstanding = <<>>

-----------------------------------------------------------------------------
\* Mutated forms, for the mutant runs.
NoLock(lock, t) == TRUE
Dropped(m) == pendingCommands
PutFirst(m) == <<m>> \o pendingCommands
HeldOn(lock) == lock

-----------------------------------------------------------------------------
At(t, here, there) == pc[t] = here /\ pc' = [pc EXCEPT ![t] = there]

\* Thread t may take the lock, a threading.RLock.
Free(lock, t) == lock \in {"free", t}
Released(lock) == "free"

\* What json.loads makes of a message: lists are task IDs, everything else is a
\* command.
IsTaskIds(m) == m \in TaskIds
IsCommand(m) == m \notin TaskIds \cup {Garbled}

\* An exception in thread t meets user code's own except clause, or that of run.
Caught(t) == IF t = Main THEN {"run", "ack"} ELSE {"run"}

\* s without its element i.
Without(s, i) == [j \in 1 .. (Len(s) - 1) |-> s[IF j < i THEN j ELSE j + 1]]

\* Command m has reached _run: a tuple that Storm waits for, or a heartbeat.
Handle(m) ==
    IF \E i \in DOMAIN outstanding : outstanding[i] = m
    THEN \E i \in DOMAIN outstanding :
            outstanding[i] = m /\ outstanding' = Without(outstanding, i)
    ELSE UNCHANGED outstanding

(***************************************************************************)
(* read_command, in the main thread.                                       *)
(***************************************************************************)
TakePending ==
    /\ pendingCommands # <<>>
    /\ At(Main, "idle", "run")
    /\ Handle(Head(pendingCommands))
    /\ pendingCommands' = Tail(pendingCommands)
    /\ UNCHANGED <<conf, garbledLeft, emits, hand, pendingTaskIds, locks,
                   pipe, asked>>

\* The test of the deque and the call of read_message are not under one lock.
FindNonePending ==
    /\ pendingCommands = <<>>
    /\ At(Main, "idle", "wantRead")
    /\ UNCHANGED <<conf, garbledLeft, emits, hand, deques, locks, pipe, storm>>

LockToRead ==
    /\ Free(reader, Main)
    /\ At(Main, "wantRead", "reading")
    /\ reader' = Main
    /\ UNCHANGED <<conf, garbledLeft, emits, hand, deques, writer, pipe, storm>>

ReadCommand ==
    /\ pipe # <<>>
    /\ IsCommand(Head(pipe))
    /\ At(Main, "reading", "run")
    /\ Handle(Head(pipe))
    /\ pipe' = Tail(pipe)
    /\ reader' = Released(reader)
    /\ UNCHANGED <<conf, garbledLeft, emits, hand, deques, writer, asked>>

\* Task IDs, for the deque; the lock is released before they are in it.
ReadTaskIds ==
    /\ pipe # <<>>
    /\ IsTaskIds(Head(pipe))
    /\ At(Main, "reading", "stash")
    /\ hand' = Head(pipe)
    /\ pipe' = Tail(pipe)
    /\ reader' = Released(reader)
    /\ UNCHANGED <<conf, garbledLeft, emits, deques, writer, storm>>

StashTaskIds ==
    /\ At(Main, "stash", "wantRead")
    /\ pendingTaskIds' = Append(pendingTaskIds, hand)
    /\ UNCHANGED <<conf, garbledLeft, emits, hand, pendingCommands, locks,
                   pipe, storm>>

ReadCommandRaises ==
    /\ pipe # <<>>
    /\ Head(pipe) = Garbled
    /\ At(Main, "reading", "ack")
    /\ pipe' = Tail(pipe)
    /\ reader' = Released(reader)
    /\ UNCHANGED <<conf, garbledLeft, emits, hand, deques, writer, storm>>

\* User code is done with the command ...
Processed ==
    /\ At(Main, "run", "ack")
    /\ UNCHANGED <<conf, garbledLeft, emits, hand, deques, locks, pipe, storm>>

\* ... and _run acks it.
Ack ==
    /\ Free(writer, Main)
    /\ At(Main, "ack", "idle")
    /\ UNCHANGED <<conf, garbledLeft, emits, hand, deques, locks, pipe, storm>>

-----------------------------------------------------------------------------
(***************************************************************************)
(* emit with need_task_ids, in any thread.                                 *)
(***************************************************************************)
StartEmit(t) ==
    /\ t \in conf.emitters
    /\ At(t, "run", "wantReader")
    /\ emit' = [emit EXCEPT ![t] = <<t, (@[2] + 1) % Serials>>]
    /\ UNCHANGED <<conf, garbledLeft, result, hand, deques, locks, pipe, storm>>

TakeReader(t) ==
    /\ Free(reader, t)
    /\ At(t, "wantReader", "wantWriter")
    /\ reader' = t
    /\ UNCHANGED <<conf, garbledLeft, emits, hand, deques, writer, pipe, storm>>

TakeWriter(t) ==
    /\ Free(writer, t)
    /\ At(t, "wantWriter", "send")
    /\ writer' = t
    /\ UNCHANGED <<conf, garbledLeft, emits, hand, deques, reader, pipe, storm>>

SendEmit(t) ==
    /\ At(t, "send", "check")
    /\ asked' = Append(asked, emit[t])
    /\ UNCHANGED <<conf, garbledLeft, emits, hand, deques, locks, pipe,
                   outstanding>>

LeaveLocks ==
    /\ reader' = Released(reader)
    /\ writer' = Released(writer)

\* send_message raises before it has written anything.
SendRaises(t) ==
    /\ \E p \in Caught(t) : At(t, "send", p)
    /\ LeaveLocks
    /\ UNCHANGED <<conf, garbledLeft, emits, hand, deques, pipe, storm>>

Return(t, ids) == result' = [result EXCEPT ![t] = ids] /\ LeaveLocks

\* read_task_ids: the deque first, then the pipe.
ReturnPending(t) ==
    /\ pendingTaskIds # <<>>
    /\ At(t, "check", "returned")
    /\ Return(t, Head(pendingTaskIds))
    /\ pendingTaskIds' = Tail(pendingTaskIds)
    /\ UNCHANGED <<conf, garbledLeft, emit, hand, pendingCommands, pipe, storm>>

AwaitTaskIds(t) ==
    /\ pendingTaskIds = <<>>
    /\ At(t, "check", "await")
    /\ UNCHANGED <<conf, garbledLeft, emits, hand, deques, locks, pipe, storm>>

ReturnRead(t) ==
    /\ pipe # <<>>
    /\ IsTaskIds(Head(pipe))
    /\ At(t, "await", "returned")
    /\ Return(t, Head(pipe))
    /\ pipe' = Tail(pipe)
    /\ UNCHANGED <<conf, garbledLeft, emit, hand, deques, storm>>

Stashed(m) == Append(pendingCommands, m)

StashCommand(t) ==
    /\ pipe # <<>>
    /\ IsCommand(Head(pipe))
    /\ pc[t] = "await"
    /\ pendingCommands' = Stashed(Head(pipe))
    /\ pipe' = Tail(pipe)
    /\ UNCHANGED <<conf, garbledLeft, pc, emits, hand, pendingTaskIds, locks,
                   storm>>

GoOn(t) ==
    /\ At(t, "returned", "run")
    /\ UNCHANGED <<conf, garbledLeft, emits, hand, deques, locks, pipe, storm>>

\* read_task_ids raises, with the task IDs still to come.
AwaitRaises(t) ==
    /\ pipe # <<>>
    /\ Head(pipe) = Garbled
    /\ \E p \in Caught(t) : At(t, "await", p)
    /\ pipe' = Tail(pipe)
    /\ LeaveLocks
    /\ UNCHANGED <<conf, garbledLeft, emits, hand, deques, storm>>

-----------------------------------------------------------------------------
(***************************************************************************)
(* Storm: it answers emits in the order it received them, and sends tuples *)
(* in between.                                                             *)
(***************************************************************************)
Room == Len(pipe) < PipeLimit

StormAnswers ==
    /\ Room
    /\ asked # <<>>
    /\ pipe' = Append(pipe, Head(asked))
    /\ asked' = Tail(asked)
    /\ UNCHANGED <<conf, garbledLeft, pc, emits, hand, deques, locks, outstanding>>

StormSends(c) ==
    /\ Room
    /\ \A i \in DOMAIN outstanding : outstanding[i] # c
    /\ pipe' = Append(pipe, c)
    /\ outstanding' = Append(outstanding, c)
    /\ UNCHANGED <<conf, garbledLeft, pc, emits, hand, deques, locks, asked>>

\* A message gets here that this end cannot read.
StormGarbles ==
    /\ Room
    /\ garbledLeft > 0
    /\ garbledLeft' = garbledLeft - 1
    /\ pipe' = Append(pipe, Garbled)
    /\ UNCHANGED <<conf, pc, emits, hand, deques, locks, storm>>

Unhandled == pendingCommands \o pipe
Beating == \E i \in DOMAIN Unhandled : Unhandled[i] = Beat

\* There is a heartbeat every second, whatever tuples are outstanding.  Bound:
\* not while one is unhandled, unless the main thread waits for a message.
StormBeats ==
    /\ Room
    /\ Beating => pipe = <<>> /\ pc[Main] = "reading"
    /\ pipe' = Append(pipe, Beat)
    /\ UNCHANGED <<conf, garbledLeft, pc, emits, hand, deques, locks, storm>>

Next == \/ TakePending \/ FindNonePending \/ LockToRead
        \/ ReadCommand \/ ReadTaskIds \/ StashTaskIds \/ ReadCommandRaises
        \/ Processed \/ Ack
        \/ \E t \in Threads :
              \/ StartEmit(t) \/ TakeReader(t) \/ TakeWriter(t) \/ SendEmit(t)
              \/ ReturnPending(t) \/ AwaitTaskIds(t) \/ ReturnRead(t)
              \/ StashCommand(t) \/ GoOn(t) \/ SendRaises(t) \/ AwaitRaises(t)
        \/ StormAnswers \/ StormBeats \/ StormGarbles
        \/ \E c \in Commands : StormSends(c)

\* Threads run, user code ends after finitely many emits, Storm answers and
\* beats.  A lock that is released again and again is had in the end.
Fairness ==
    /\ WF_vars(TakePending \/ FindNonePending)
    /\ WF_vars(ReadCommand \/ ReadTaskIds \/ StashTaskIds \/ ReadCommandRaises)
    /\ SF_vars(LockToRead) /\ SF_vars(Processed) /\ SF_vars(Ack)
    /\ \A t \in Threads :
          /\ SF_vars(TakeReader(t))
          /\ WF_vars(TakeWriter(t) \/ SendEmit(t) \/ ReturnPending(t)
                       \/ AwaitTaskIds(t) \/ ReturnRead(t)
                       \/ StashCommand(t) \/ GoOn(t) \/ AwaitRaises(t))
    /\ SF_vars(StormAnswers) /\ WF_vars(StormBeats)

Spec == Init /\ [][Next]_vars
FairSpec == Spec /\ Fairness

-----------------------------------------------------------------------------
\* The task IDs emit returns are those of the tuple it sent, whatever other
\* threads send and read ("Use both locks so we ensure send_message and
\* read_task_ids are for same emit", says emit) and whatever emits raise before
\* they have sent anything, as long as none raises between its two halves.
IdsMatch == conf.garbled = 0 =>
                \A t \in Threads : pc[t] = "returned" => result[t] = emit[t]

\* A command Storm waits for is in the pipe or in the deque, once, and only
\* such commands are: read_task_ids swallows none and read_command hands none
\* out twice, also where one of them raises on some other message.
NothingLost ==
    /\ \A c \in Commands : (\E i \in DOMAIN Unhandled : Unhandled[i] = c)
                            <=> (\E i \in DOMAIN outstanding : outstanding[i] = c)
    /\ \A i, j \in DOMAIN Unhandled :
          Unhandled[i] \in Commands /\ Unhandled[i] = Unhandled[j] => i = j

\* While only the main thread emits, _run gets the commands in the order Storm
\* sent them, those that read_task_ids came across included.
InOrder ==
    [][conf.emitters \subseteq {Main} /\ Len(outstanding') < Len(outstanding) =>
         outstanding' = Tail(outstanding)]_vars

\* Nobody waits for ever: every command reaches _run, as long as Storm sends
\* heartbeats, and every emit returns or raises in the end, though its thread
\* needs the lock under which the main thread waits for Storm.
EverybodyIsServed ==
    /\ \A c \in Commands :
          (\E i \in DOMAIN outstanding : outstanding[i] = c)
              ~> (\A i \in DOMAIN outstanding : outstanding[i] # c)
    /\ \A t \in Threads : pc[t] \in Emitting ~> pc[t] \notin Emitting

=============================================================================
