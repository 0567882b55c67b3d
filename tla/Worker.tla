------------------------------- MODULE Worker --------------------------------
(***************************************************************************)
(* The threads of one worker process and the locks they take: the reader   *)
(* and the writer lock of the serializer, the lock of the logging handler, *)
(* through which log records and printed text become messages to Storm,    *)
(* and the batch lock of TicklessBatchingBolt, which its signal handler    *)
(* takes in the main thread wherever that is.  The main thread goes        *)
(* through the whole life of a component: handshake, set-up, initialize,   *)
(* the run loop and its except clauses, and the exit.                      *)
(*                                                                         *)
(* A thread is a program: the steps it still has to do.  A step is the     *)
(* name of a lock to acquire, "give" (release the lock acquired last), a   *)
(* kind of message to write, or one of the points below.  The locks are    *)
(* reentrant.  What is sent and read is left to the other modules.         *)
(***************************************************************************)
EXTENDS Naturals, Sequences

CONSTANTS Helpers,  \* the threads besides the main thread
          Configs   \* the configurations of the process

Main == "main"
Threads == Helpers \cup {Main}
Locks == {"batch", "reader", "log", "writer"}
Kinds == {"pid", "record", "emit", "answer", "error"}

\* "read" waits for Storm, "user" is user code that may raise, "caught" the
\* end of StormHandler.emit, where its except clause leads and the lock of the
\* handler is given back, "check" the test of exc_info in the signal handler,
\* "install" the rest of _setup_component.
Points == {"give", "read", "user", "caught", "check", "install"}
Steps == Locks \cup Kinds \cup Points

Debug == 1
Info == 2
Warning == 3
Error == 4
Critical == 5
Levels == Debug .. Critical

\* tickless: a TicklessBatchingBolt, whose helper is the batcher; otherwise a
\* bolt that starts daemon threads of its own.  helpers: the threads there are.
\* warns: messages hold integers out of range, and Storm sends blank lines.
\* raises: user code may raise.  strays: how often somebody else sends SIGUSR1
\* (a bound of the model).  prompt: exceptions are dealt with before
\* secs_between_batches have passed.
Config == [tickless : BOOLEAN, helpers : SUBSET Helpers, exitOnException : BOOLEAN, level : Levels,
           warns : BOOLEAN, raises : BOOLEAN, strays : Nat, prompt : BOOLEAN]

ASSUME WorkerAssumption ==
    /\ Main \notin Helpers
    /\ Configs \subseteq Config
    /\ \A c \in Configs : c.tickless => \E batcher \in Helpers : c.helpers = {batcher}

VARIABLES conf,     \* the configuration, which does not change
          where,    \* the part of run the main thread is in
          todo,     \* what each thread has still to do
          held,     \* the locks each thread has acquired, in order
          excInfo,  \* self.exc_info: the exception of the batcher, if any
          signal,   \* a SIGUSR1 has not been handled yet
          strays,   \* signals somebody else may still send
          closed    \* Storm has gone and its ends of the pipes are closed

signals == <<excInfo, signal>>
outside == <<conf, strays, closed>>
vars == <<outside, where, todo, held, signals>>

Places == {"start", "initialize", "run", "handling", "leaving", "recovering", "gone"}
Exceptions == {"error", "away"}   \* any exception, and StormWentAwayError

\* A thread that has nothing left to do has released what it acquired.
TypeOK == /\ conf \in Configs
          /\ where \in Places
          /\ todo \in [Threads -> Seq(Steps)]
          /\ held \in [Threads -> Seq(Locks)]
          /\ excInfo \in Exceptions \cup {"none"}
          /\ signal \in BOOLEAN
          /\ strays \in 0..conf.strays
          /\ closed \in BOOLEAN
          /\ \A t \in Threads : todo[t] = <<>> => held[t] = <<>>

Elements(s) == {s[i] : i \in DOMAIN s}
Held(t) == Elements(held[t])
Alive == where # "gone"

-----------------------------------------------------------------------------
(* The operations, as programs.                                            *)

\* send_message of the serializer.
Send(kind) == <<"writer", kind, "give">>

\* Only the component's own logger and "pystorm" get the configured level.
\* Any other, the package's own ones included, has that of the root logger.
LevelOf(logger) == IF logger \in {"component", "pystorm.stdout"} THEN conf.level ELSE Warning

IsSent(logger, level) == level >= LevelOf(logger) /\ level >= conf.level

\* Handler.handle around StormHandler.emit.  A print is a record as well.
Log(logger, level) ==
    IF IsSent(logger, level)
    THEN <<"log">> \o Send("record") \o <<"caught">> ELSE <<>>

\* A warning of the serializer, about an integer or about blank lines.
Warn(warns) == IF warns THEN Log("pystorm_a8c.serializer", Warning) ELSE <<>>
MayWarn == IF conf.warns THEN BOOLEAN ELSE {FALSE}

Read(warns) == <<"reader">> \o Warn(warns) \o <<"read", "give">>

\* The message is serialized, and integers are replaced, before the lock.
Emit(warns) == Warn(warns) \o Send("emit")

\* Mutated form: the two locks the other way round.
WriterFirst == <<"writer", "reader">>
BothLocks == <<"reader", "writer">>
EmitForIds(warns, blank) ==
    BothLocks \o Emit(warns) \o Read(blank) \o <<"give", "give">>

\* User code makes one call or none.  A BatchingBolt never needs task IDs.
Calls == {<<>>, Log("component", Info), Log("pystorm.stdout", Info)}
         \cup {Emit(w) : w \in MayWarn}
         \cup (IF conf.tickless THEN {}
               ELSE {EmitForIds(w, b) : w \in MayWarn, b \in MayWarn})
UserCode == {call \o <<"user">> : call \in Calls}

\* _run: of Bolt, and of TicklessBatchingBolt, where heartbeats and ticks are
\* answered and other tuples only put in a batch.
Runs == IF conf.tickless
        THEN {Read(b) \o <<"batch">> \o c \o <<"give">> :
                 b \in MayWarn, c \in UserCode \cup {Send("answer")}}
        ELSE {Read(b) \o c \o Send("answer") : b \in MayWarn, c \in UserCode}

\* _batch_entry_run, or a thread of the user's.
HelperRuns == IF conf.tickless
              THEN {<<"batch">> \o c \o Send("answer") \o <<"give">> : c \in UserCode}
              ELSE UserCode

\* run up to initialize: warnings do not reach Storm before the handler is
\* installed.
Handshake == Read(FALSE) \o Send("pid")
Setup == Send("record") \o <<"install">>

\* The except clause of run: logger.error, raise_exception and a fail.
Handle == Log("component", Error) \o Send("error") \o Send("answer") \o Send("answer")

\* The except clauses in it: log.error once or twice.
LogAgain == Log("pystorm_a8c.component", Error)

Init == /\ conf \in Configs
        /\ where = "start"
        /\ todo = [t \in Threads |-> IF t = Main THEN Handshake \o Setup ELSE <<>>]
        /\ held = [t \in Threads |-> <<>>]
        /\ excInfo = "none"
        /\ signal = FALSE
        /\ strays = conf.strays
        /\ closed = FALSE

-----------------------------------------------------------------------------
(* Exceptions.                                                             *)

\* In StormHandler.emit, whose except clause takes in every exception.
Logging(t) == "log" \in Held(t)

FirstOf(x, s) == CHOOSE i \in DOMAIN s : s[i] = x /\ \A j \in 1..(i - 1) : s[j] # x

\* The except clause goes on with the lock of the handler.
KeptBySwallow(t) == SubSeq(held[t], 1, FirstOf("log", held[t]))
Swallow(t) ==
    /\ todo' = [todo EXCEPT ![t] = SubSeq(@, FirstOf("caught", @), Len(@))]
    /\ held' = [held EXCEPT ![t] = KeptBySwallow(t)]
    /\ UNCHANGED where

\* Mutated form: a broken pipe is an exception like any other.
PipeIgnored(exc) == <<"handling", Handle>>

InRun(exc) == IF exc = "away" THEN <<"gone", <<>> >> ELSE <<"handling", Handle>>
InHandling(exc) ==
    IF exc = "away" THEN <<"leaving", LogAgain>>
    ELSE <<IF conf.exitOnException THEN "leaving" ELSE "recovering", LogAgain \o LogAgain>>

\* The place an exception takes the main thread to, and what is done there.
Lands(exc) == CASE where = "run" -> InRun(exc)
                [] where = "handling" -> InHandling(exc)
                [] OTHER -> <<"gone", <<>> >>

\* Every lock is released on the way out of the with statements.
KeptByUnwind(t) == <<>>
Unwind(t, program) == /\ todo' = [todo EXCEPT ![t] = program]
                      /\ held' = [held EXCEPT ![t] = KeptByUnwind(t)]

RaiseInMain(exc) ==
    IF Logging(Main) THEN Swallow(Main)
    ELSE /\ Unwind(Main, Lands(exc)[2])
         /\ where' = Lands(exc)[1]

\* The batcher leaves its exception behind and sends itself a signal; a thread
\* of the user's is taken to go on.
RaiseInHelper(t, exc) ==
    IF Logging(t) THEN Swallow(t) /\ UNCHANGED signals
    ELSE /\ Unwind(t, <<>>)
         /\ IF conf.tickless THEN excInfo' = exc /\ signal' = TRUE ELSE UNCHANGED signals
         /\ UNCHANGED where

Raise(t, exc) == IF t = Main THEN RaiseInMain(exc) /\ UNCHANGED signals
                 ELSE RaiseInHelper(t, exc)

-----------------------------------------------------------------------------
(* The steps of a thread.                                                  *)
Next1(t) == IF todo[t] = <<>> THEN "none" ELSE Head(todo[t])
Done(t) == todo' = [todo EXCEPT ![t] = Tail(@)]

\* Mutated form: plain locks, which their own holder waits for.
NotReentrant(l, t) == \A u \in Threads : l \notin Held(u)

Available(l, t) == \A u \in Threads \ {t} : l \notin Held(u)

Acquire(t) ==
    /\ Alive /\ Next1(t) \in Locks
    /\ Available(Next1(t), t)
    /\ held' = [held EXCEPT ![t] = Append(@, Next1(t))]
    /\ Done(t)
    /\ UNCHANGED <<outside, where, signals>>

Release(t) ==
    /\ Alive /\ Next1(t) \in {"give", "caught"}
    /\ held' = [held EXCEPT ![t] = SubSeq(@, 1, Len(@) - 1)]
    /\ Done(t)
    /\ UNCHANGED <<outside, where, signals>>

\* Reading and writing: both raise when Storm has gone.
UsePipe(t) ==
    /\ Alive /\ Next1(t) \in Kinds \cup {"read"}
    /\ IF closed THEN Raise(t, "away") ELSE Done(t) /\ UNCHANGED <<where, held, signals>>
    /\ UNCHANGED outside

UserReturns(t) ==
    /\ Alive /\ Next1(t) = "user"
    /\ Done(t)
    /\ UNCHANGED <<outside, where, held, signals>>

UserRaises(t) ==
    /\ Alive /\ Next1(t) = "user"
    /\ conf.raises
    /\ Raise(t, "error")
    /\ UNCHANGED outside

\* The handler is added, stdout redirected, and the user's initialize called.
Install ==
    /\ Alive /\ Next1(Main) = "install"
    /\ \E code \in UserCode : todo' = [todo EXCEPT ![Main] = code]
    /\ where' = "initialize"
    /\ UNCHANGED <<outside, held, signals>>

\* What was to be done in one part of run is done.
GoOn ==
    /\ Alive /\ todo[Main] = <<>>
    /\ IF where = "leaving" \/ (where = "handling" /\ conf.exitOnException)
       THEN where' = "gone" /\ UNCHANGED todo
       ELSE /\ where' = "run"
            /\ \E program \in Runs : todo' = [todo EXCEPT ![Main] = program]
    /\ UNCHANGED <<outside, held, signals>>

Settled == excInfo = "none" /\ ~signal /\ where = "run"

\* The batcher wakes up and finds a batch, or a thread of the user's acts.
HelperStarts(t) ==
    /\ Alive /\ t \in conf.helpers /\ todo[t] = <<>>
    /\ where # "start"
    /\ conf.tickless => where # "initialize" /\ (conf.prompt => Settled)
    /\ \E program \in HelperRuns : todo' = [todo EXCEPT ![t] = program]
    /\ UNCHANGED <<outside, where, held, signals>>

-----------------------------------------------------------------------------
(* The signal, and Storm.                                                  *)
SignalHandler == <<"batch", "check", "give">>

\* _handle_worker_exception interrupts whatever the main thread is doing, be
\* it waiting for a lock or for Storm.
HandleSignal ==
    /\ Alive /\ signal
    /\ "check" \notin Elements(todo[Main])
    /\ signal' = FALSE
    /\ todo' = [todo EXCEPT ![Main] = SignalHandler \o @]
    /\ UNCHANGED <<outside, where, held, excInfo>>

\* A signal with nothing behind it is ignored, an exception is raised here.
CheckExcInfo ==
    /\ Alive /\ Next1(Main) = "check"
    /\ IF excInfo = "none" THEN Done(Main) /\ UNCHANGED <<where, held, excInfo>>
       ELSE RaiseInMain(excInfo) /\ excInfo' = "none"
    /\ UNCHANGED <<outside, signal>>

StraySignal ==
    /\ Alive /\ conf.tickless /\ ~signal
    /\ strays > 0
    /\ strays' = strays - 1
    /\ signal' = TRUE
    /\ UNCHANGED <<conf, where, todo, held, excInfo, closed>>

StormGoesAway ==
    /\ Alive /\ ~closed
    /\ closed' = TRUE
    /\ UNCHANGED <<conf, strays, where, todo, held, signals>>

Works(t) == Release(t) \/ UsePipe(t) \/ UserReturns(t) \/ UserRaises(t)
MainWorks == Works(Main) \/ Install \/ GoOn

Next == \/ \E t \in Threads : Acquire(t) \/ Works(t)
        \/ Install \/ GoOn \/ CheckExcInfo
        \/ \E t \in Helpers : HelperStarts(t)
        \/ HandleSignal \/ StraySignal \/ StormGoesAway

\* Threads are scheduled, Storm sends heartbeats, and a lock that is free
\* again and again is acquired in the end.
Fairness == /\ WF_vars(MainWorks) /\ WF_vars(HandleSignal) /\ WF_vars(CheckExcInfo)
            /\ \A t \in Helpers : WF_vars(Works(t))
            /\ \A t \in Threads : SF_vars(Acquire(t))

Spec == Init /\ [][Next]_vars
FairSpec == Spec /\ Fairness

-----------------------------------------------------------------------------
Waiting(t) == Alive /\ Next1(t) \in Locks /\ ~Available(Next1(t), t)

\* Threads that wait for each other, and will for ever.
Stuck(S) == /\ S # {}
            /\ \A t \in S : Waiting(t) /\ \E u \in S \ {t} : Next1(t) \in Held(u)
Deadlock == \E S \in SUBSET Threads : Stuck(S)

\* A warning of the serializer while both its locks are held for task IDs.
WarnsInEmit(t) == Next1(t) = "log" /\ "writer" \in Held(t)

\* The signal handler has interrupted a thread that holds another lock, while
\* the batcher is at work: the signal is late, or somebody else's.
Interrupted(t) == /\ t = Main /\ Next1(t) = "batch" /\ held[t] # <<>>
                  /\ conf.strays > 0 \/ ~conf.prompt

\* Threads wait for each other only in two situations: one logs a warning in
\* an emit that waits for task IDs, while it holds the writer lock another
\* needs to send a record, or the signal handler wants the batch lock while
\* the main thread holds a lock that the batcher needs to finish its batch.
\* Everywhere else the locks are taken in one order: batch, reader, log,
\* writer.
DeadlockNeedsNesting ==
    \A S \in SUBSET Threads : Stuck(S) => \E t \in S : WarnsInEmit(t) \/ Interrupted(t)

\* Every call of every thread returns (or raises): emits that wait for task
\* IDs, records logged and text printed by several threads at once.  (A batcher
\* that raises without a pause could interrupt the main thread for ever.)
EveryCallReturns ==
    \A t \in Threads :
        conf.prompt /\ todo[t] # <<>> ~> (todo[t] = <<>> \/ ~Alive \/ Deadlock)

\* A worker whose Storm has gone does not outlive it, even one that goes on
\* after exceptions, and whichever thread meets the broken pipe.
EndsWithStorm == conf.prompt /\ closed ~> (~Alive \/ Deadlock)

=============================================================================
