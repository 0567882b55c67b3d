---------------------- MODULE TicklessBatchingBoltProofs ----------------------
(***************************************************************************)
(* Theorems about TicklessBatchingBolt, for any tuples, keys and group_key.*)
(* That the batch lock excludes holds whatever happens.  What is said of   *)
(* tuples holds until the process is disturbed, above all by an exception  *)
(* handler, which takes no lock, and a batcher at work at the same time;   *)
(* an invariant that holds so long says who owns each tuple at each point  *)
(* of the two threads.                                                     *)
(***************************************************************************)
EXTENDS TicklessBatchingBolt, TLAPS

\* An ack keeps the outcomes well typed, settles the messages that are open, and
\* changes no other message.
LEMMA AckFacts ==
    ASSUME NEW M, NEW o \in [M -> Outcomes], NEW S
    PROVE  /\ Ack(o, S) \in [M -> Outcomes]
           /\ \A x \in M : x \in S /\ o[x] = "open" => Ack(o, S)[x] = "acked"
           /\ \A x \in M : x \in S /\ o[x] # "open" => Ack(o, S)[x] = "rejected"
           /\ \A x \in M : x \notin S => Ack(o, S)[x] = o[x]
BY DEF Ack, Settle, Outcomes

\* So does a fail.
LEMMA FailFacts ==
    ASSUME NEW M, NEW o \in [M -> Outcomes], NEW S
    PROVE  /\ Fail(o, S) \in [M -> Outcomes]
           /\ \A x \in M : x \in S /\ o[x] = "open" => Fail(o, S)[x] = "failed"
           /\ \A x \in M : x \in S /\ o[x] # "open" => Fail(o, S)[x] = "rejected"
           /\ \A x \in M : x \notin S => Fail(o, S)[x] = o[x]
BY DEF Fail, Settle, Outcomes

MainPoints == MainRuns \cup MainHandles \cup {"nested", "handled", "exit1"}
BatcherPoints == {"sleep", "raised", "kill"} \cup BatcherHolds

Points == /\ conf \in Configs
          /\ mpc \in MainPoints
          /\ bpc \in BatcherPoints
          /\ excInfo \in BOOLEAN /\ sigPending \in BOOLEAN

\* MutualExclusion with equivalences in place of equalities, for SMT.
Excludes == /\ lock = "main" <=> mpc \in MainHolds
            /\ Alive => (lock = "batcher" <=> bpc \in BatcherHolds)
            /\ lock \in {"free", "main", "batcher"}

LEMMA ExcludesIsMutualExclusion == Excludes <=> MutualExclusion
<1>1. \A P, Q \in BOOLEAN : (P <=> Q) <=> (P = Q)
  OBVIOUS
<1>2. /\ (lock = "main") \in BOOLEAN /\ (mpc \in MainHolds) \in BOOLEAN
      /\ (lock = "batcher") \in BOOLEAN /\ (bpc \in BatcherHolds) \in BOOLEAN
  OBVIOUS
<1>3. /\ (lock = "main" <=> mpc \in MainHolds) <=> ((lock = "main") = (mpc \in MainHolds))
      /\ (lock = "batcher" <=> bpc \in BatcherHolds)
             <=> ((lock = "batcher") = (bpc \in BatcherHolds))
  BY <1>1, <1>2, Zenon
<1> QED BY <1>3, Zenon DEF Excludes, MutualExclusion

\* It is inductive once both threads are at points of theirs.
LockInv == Points /\ Excludes

LEMMA ConfKept == ASSUME [Next]_vars PROVE conf' = conf
BY DEF Next, MainSteps, BatcherSteps, vars, StartReading, EndReading,
       ReadRest, ReadGarbled, ReadRaises, MainLocks, AnswerHeartbeat, AckTick, GroupReturns, GroupRaises,
       MainUnlocks, HandleSignal, ReportException, ScanKey, FailBatch,
       FailCurrent, ResetBatch, ExitOrContinue, BatcherLocks,
       StartBatch, BatchReturns, EmptyBatch, BatcherRaises, EndBatches,
       StoreException, SendSignal

LEMMA InitLockInv == Init => LockInv
BY DEF Init, LockInv, Points, MainPoints, MainRuns, MainReading, MainHolds,
       MainHandles, BatcherPoints, BatcherHolds, Excludes, Alive

\* Each step moves the lock together with the thread that takes or leaves it.
LEMMA NextLockInv == ASSUME LockInv, [Next]_vars PROVE LockInv'
<1> USE ConfKept
    DEF LockInv, Points, MainPoints, MainRuns, MainReading, MainHolds,
        MainHandles, BatcherPoints, BatcherHolds, Excludes, Alive, dict, current,
        signals, handler, batcher
<1>1. ASSUME NEW m \in Messages, StartReading(m) PROVE LockInv'
  BY <1>1 DEF StartReading
<1>2. CASE ReadGarbled
  BY <1>2 DEF ReadGarbled, ReadRaises
<1>3. CASE MainLocks
  BY <1>3 DEF MainLocks, LockFree
<1>4. CASE HandleSignal
  BY <1>4 DEF HandleSignal, Raised
<1>5. CASE MainSteps
  <2>1. CASE AnswerHeartbeat \/ AckTick \/ GroupReturns
    BY <2>1 DEF AnswerHeartbeat, AckTick, GroupReturns
  <2>2. CASE GroupRaises \/ MainUnlocks
    BY <2>2 DEF GroupRaises, MainUnlocks
  <2>3. CASE ReportException \/ FailBatch \/ FailCurrent
    BY <2>3 DEF ReportException, FailBatch, FailCurrent
  <2>4. ASSUME NEW k \in AllKeys, ScanKey(k) PROVE LockInv'
    BY <2>4 DEF ScanKey
  <2>5. CASE ResetBatch \/ ExitOrContinue
    BY <2>5 DEF ResetBatch, ExitOrContinue
  <2>6. CASE EndReading \/ ReadRest
    BY <2>6 DEF EndReading, ReadRest, ReadRaises
  <2> QED BY <1>5, <2>1, <2>2, <2>3, <2>4, <2>5, <2>6 DEF MainSteps
<1>7. CASE BatcherLocks
  BY <1>7 DEF BatcherLocks
<1>8. CASE BatcherSteps
  <2>1. ASSUME NEW k \in AllKeys, StartBatch(k) PROVE LockInv'
    BY <2>1 DEF StartBatch
  <2>2. CASE BatchReturns \/ EmptyBatch
    BY <2>2 DEF BatchReturns, EmptyBatch
  <2>3. CASE BatcherRaises
    BY <2>3 DEF BatcherRaises
  <2>4. CASE EndBatches
    BY <2>4 DEF EndBatches
  <2>5. CASE StoreException \/ SendSignal
    BY <2>5 DEF StoreException, SendSignal, Signalled
  <2> QED BY <1>8, <2>1, <2>2, <2>3, <2>4, <2>5 DEF BatcherSteps
<1>9. CASE UNCHANGED vars
  BY <1>9 DEF vars
<1> QED BY <1>1, <1>2, <1>3, <1>4, <1>5, <1>7, <1>8, <1>9 DEF Next

\* The batch lock excludes the two with blocks from each other and is released
\* on every way out of them, whatever raises and whenever the signal arrives.
THEOREM LockExcludes == Spec => []MutualExclusion
<1>1. LockInv => MutualExclusion
  BY ExcludesIsMutualExclusion DEF LockInv
<1>2. LockInv /\ [Next]_vars => LockInv'
  BY NextLockInv
<1> QED BY <1>1, <1>2, InitLockInv, PTL DEF Spec

-----------------------------------------------------------------------------
(***************************************************************************)
(* Who owns each tuple.                                                    *)
(***************************************************************************)
\* The remaining variables, in their ranges.
Typed == /\ grown \in BOOLEAN /\ rest \in BOOLEAN
         /\ tup \in Messages \cup {NoTuple}
         /\ hTodo \in SUBSET AllKeys /\ bTodo \in SUBSET AllKeys
         /\ present \in SUBSET AllKeys
         /\ bKey \in AllKeys /\ currentKey \in AllKeys
         /\ hBatch \in SUBSET Tuples /\ bBatch \in SUBSET Tuples
         /\ currentTups \in SUBSET Messages /\ hFailed \in SUBSET Messages
         /\ batch \in [AllKeys -> SUBSET Tuples]
         /\ outcome \in [Messages -> Outcomes]

\* The batcher has raised, and the main thread has not dealt with it.
Failing == bpc \in {"raised", "kill"} \/ excInfo \/ mpc \in MainHandles

\* The batcher sleeps while its exception is dealt with, so that nothing is
\* added to the dict it iterates over, and no second exception meets the first.
Apart ==
    /\ mpc \notin MainRuns => bpc = "sleep" /\ ~excInfo /\ ~sigPending
    /\ mpc # "nested"
    /\ bpc \notin {"sleep", "kill"} => ~excInfo
    /\ bpc = "kill" => excInfo
    /\ sigPending => excInfo /\ bpc = "sleep"
    /\ Failing \/ mpc \notin MainRuns => "batch" \in conf.mayRaise
    /\ ~grown
    /\ Failing => conf.exitOnException \/ \A t \in Tuples : conf.groupKey[t] = currentKey

\* The tuple the main thread is reading or working on.
InHand ==
    /\ tup = NoTuple <=> mpc \notin MainReading \cup MainHolds
    /\ mpc \in MainHolds => currentTups = {tup}
    /\ mpc = "beat" => tup \in Heartbeats
    /\ mpc = "tick" => tup \in Ticks
    /\ mpc = "group" => tup \in Tuples
    /\ mpc \in {"half", "got", "tick", "group"} =>
          outcome[tup] = IF tup \in Heartbeats THEN "beat" ELSE "open"
    /\ mpc \in {"half", "got", "group"} => tup \notin Batched
    /\ mpc = "done" => tup \in Batched \/ outcome[tup] # "open"

\* The batches that the handler fails.
Wiped(k) == conf.exitOnException \/ k = currentKey

\* A tuple is in the batch of its key, under a key that is in the dict, and
\* open, but for the time between its ack or fail and the reset of the batch.
InBatches ==
    \A k \in AllKeys : \A t \in batch[k] :
        /\ conf.groupKey[t] = k /\ k \in present
        /\ \/ outcome[t] = "open"
           \/ outcome[t] = "acked" /\ bpc = "acked" /\ k = bKey
           \/ mpc \in {"scan", "fail", "reset"} /\ outcome[t] = "failed" /\ Wiped(k) /\ t \in hFailed
           \/ mpc \in {"handled", "exit1"} /\ conf.exitOnException

\* process_batches has got to every batch, or will.
InBatcher ==
    /\ bpc \in BatcherHolds =>
          \A k \in AllKeys : batch[k] = {} \/ k \in bTodo \/ (bpc # "batch" /\ k = bKey)
    /\ bpc \in {"inBatch", "acked"} =>
          /\ bBatch = batch[bKey] /\ bKey \notin bTodo
          /\ currentTups = bBatch /\ currentKey = bKey
    /\ bpc \notin {"inBatch", "acked"} => bBatch = {}
    /\ bpc = "acked" => \A t \in bBatch : outcome[t] = "acked"

\* _handle_run_exception has failed every batch it has to, or will.
InHandler ==
    /\ mpc # "fail" => hBatch = {}
    /\ mpc \in {"scan", "fail"} =>
          \A k \in AllKeys :
             /\ k \in hTodo => batch[k] \cap hFailed = {}
             /\ Wiped(k) => \/ k \in hTodo
                            \/ batch[k] \subseteq hFailed
                            \/ mpc = "fail" /\ hBatch = batch[k]
    /\ mpc = "fail" => /\ hBatch \cap hFailed = {}
                       /\ \E k \in AllKeys \ hTodo : Wiped(k) /\ hBatch = batch[k]
    /\ mpc = "reset" => \A k \in AllKeys : Wiped(k) => batch[k] \subseteq hFailed
    /\ mpc \in {"scan", "fail", "reset"} => \A m \in hFailed : outcome[m] = "failed"

\* Of _current_tups, none that is open will be forgotten when it is assigned,
\* and none that is settled will be failed.
CurrentOK ==
    /\ \A m \in currentTups : outcome[m] # "unread"
    /\ Failing /\ mpc # "reset" =>
          \A t \in currentTups \cap Tuples :
             outcome[t] = "open" \/ (mpc \in {"scan", "fail"} /\ t \in hFailed)
    /\ mpc \in {"read", "half", "got", "reset", "handled"} =>
          \A m \in currentTups : outcome[m] = "open" => m \in Batched

\* No tuple is settled twice: SettledOnce as long as nothing is disturbed.
NoneTwice == \A t \in Tuples : outcome[t] # "rejected"

IInv == /\ LockInv /\ Typed /\ NoneTwice
        /\ Apart /\ InHand /\ InBatches /\ InBatcher /\ InHandler /\ CurrentOK

LEMMA ConfigFacts ==
    ASSUME conf \in Configs
    PROVE  /\ conf.exitOnException \in BOOLEAN
           /\ conf.groupKey \in [Tuples -> AllKeys]
BY TicklessAssumption DEF Config

\* What an undisturbed process has not met.
LEMMA UndisturbedFacts ==
    ASSUME ~Disturbed
    PROVE  /\ "overlap" \notin mishaps /\ "badRead" \notin mishaps
           /\ "group" \notin conf.mayRaise
           /\ "batch" \in conf.mayRaise =>
                 \/ conf.exitOnException
                 \/ \A t, u \in Tuples : conf.groupKey[t] = conf.groupKey[u]
BY DEF Disturbed

\* Nothing that has happened is forgotten.
LEMMA MishapsKept == ASSUME [Next]_vars PROVE mishaps \subseteq mishaps'
BY DEF Next, MainSteps, BatcherSteps, vars, StartReading, EndReading,
       ReadRest, ReadGarbled, ReadRaises, MainLocks, AnswerHeartbeat, AckTick,
       GroupReturns, GroupRaises, MainUnlocks, HandleSignal, ReportException,
       ScanKey, FailBatch, FailCurrent, ResetBatch, ExitOrContinue,
       BatcherLocks, StartBatch, BatchReturns, EmptyBatch, BatcherRaises,
       EndBatches, StoreException, SendSignal

LEMMA DisturbedStays == ASSUME [Next]_vars, Disturbed PROVE Disturbed'
BY ConfKept, MishapsKept DEF Disturbed

LEMMA InitIInv == Init => IInv
<1> SUFFICES ASSUME Init PROVE IInv
  OBVIOUS
<1> USE TicklessAssumption
    DEF Init, Messages, AllKeys, MainRuns, MainReading, MainHolds, MainHandles,
        BatcherHolds
<1>1. LockInv
  BY InitLockInv
<1>2. Typed /\ NoneTwice
  BY DEF Typed, NoneTwice, Outcomes
<1>3. Apart /\ InHand /\ InBatches /\ InBatcher /\ InHandler /\ CurrentOK
  BY DEF Apart, Failing, InHand, InBatches, InBatcher, InHandler, CurrentOK, Batched
<1> QED BY <1>1, <1>2, <1>3 DEF IInv

LEMMA NextIInv ==
    ASSUME IInv, ~Disturbed, ~Disturbed', LockInv', [Next]_vars
    PROVE  IInv'
<1>0. conf \in Configs /\ conf' = conf
  BY ConfKept DEF IInv, LockInv, Points
<1>u. "overlap" \notin mishaps' /\ "badRead" \notin mishaps'
  BY DEF Disturbed
<1> USE TicklessAssumption, <1>0, <1>u, ConfigFacts, UndisturbedFacts
<1> USE DEF IInv, LockInv, Points, Excludes, MainPoints, BatcherPoints, Alive,
            MainRuns, MainReading, MainHolds, MainHandles, BatcherHolds, Messages,
            Typed, NoneTwice, Apart, Failing, InHand, InBatches, InBatcher,
            InHandler, CurrentOK, Wiped, Batched,
            dict, current, signals, handler, batcher
<1>1. ASSUME NEW m \in Messages, StartReading(m) PROVE IInv'
  <2>1. /\ outcome' \in [Messages -> Outcomes]
        /\ outcome'[m] = IF m \in Heartbeats THEN "beat" ELSE "open"
        /\ \A x \in Messages \ {m} : outcome'[x] = outcome[x]
    BY <1>1 DEF StartReading, Take, Outcomes
  <2>2. mpc = "read" /\ mpc' = "half" /\ tup' = m /\ outcome[m] = "unread"
    BY <1>1 DEF StartReading
  <2>3. \A k \in AllKeys : m \notin batch[k]
    BY <2>2
  <2>4. m \notin bBatch /\ m \notin currentTups
    BY <2>2
  <2>5. UNCHANGED <<conf, rest, handler, batcher, lock, dict, current, signals>>
    BY <1>1 DEF StartReading
  <2>6. Typed' /\ NoneTwice' /\ Apart'
    BY <2>1, <2>2, <2>5
  <2>7. InHand' /\ InBatches'
    BY <2>1, <2>2, <2>3, <2>5
  <2>8. InBatcher' /\ InHandler' /\ CurrentOK'
    BY <2>1, <2>2, <2>4, <2>5
  <2> QED BY <2>6, <2>7, <2>8
<1>2. CASE ReadGarbled \/ ReadRest
  BY <1>2 DEF ReadGarbled, ReadRest, ReadRaises
<1>3. CASE MainLocks
  BY <1>3 DEF MainLocks, LockFree
<1>4. CASE HandleSignal
  <2>1. /\ sigPending /\ excInfo /\ bpc = "sleep" /\ mpc \in MainRuns
        /\ sigPending' = FALSE /\ excInfo' = FALSE
        /\ UNCHANGED <<conf, handler, batcher, dict, current, outcome>>
    BY <1>4 DEF HandleSignal
  <2>2. CASE UNCHANGED <<mpc, lock, tup, rest>>
    BY <2>1, <2>2
  <2>3. CASE /\ mpc' = "handle" /\ lock' = "free" /\ tup' = NoTuple
             /\ rest' = (rest \/ mpc = "half")
    <3>1. Typed' /\ NoneTwice' /\ Apart'
      BY <2>1, <2>3
    <3>2. InHand' /\ InBatches'
      BY <2>1, <2>3
    <3>3. InBatcher' /\ InHandler'
      BY <2>1, <2>3
    <3>4. CurrentOK'
      BY <2>1, <2>3
    <3> QED BY <3>1, <3>2, <3>3, <3>4
  <2> QED BY <1>4, <2>1, <2>2, <2>3 DEF HandleSignal, Raised
<1>5. CASE AnswerHeartbeat
  BY <1>5 DEF AnswerHeartbeat, Sync, Outcomes
<1>25. CASE EndReading
  BY <1>25 DEF EndReading
<1>6. CASE AckTick
  BY <1>6, AckFacts DEF AckTick
<1>7. CASE GroupReturns
  BY <1>7 DEF GroupReturns
<1>8. CASE GroupRaises
  BY <1>8 DEF GroupRaises
<1>9. CASE MainUnlocks
  BY <1>9 DEF MainUnlocks
<1>10. CASE ReportException
  BY <1>10 DEF ReportException
<1>11. ASSUME NEW k \in AllKeys, ScanKey(k) PROVE IInv'
  BY <1>11 DEF ScanKey
<1>12. CASE FailBatch
  <2>1. PICK k \in AllKeys \ hTodo : Wiped(k) /\ hBatch = batch[k]
    BY <1>12 DEF FailBatch
  <2>2. /\ mpc = "fail" /\ mpc' = "scan"
        /\ hFailed' = hFailed \cup hBatch
        /\ hBatch' = {}
        /\ UNCHANGED <<conf, tup, rest, hTodo, batcher, lock, dict, current, signals>>
    BY <1>12 DEF FailBatch
  <2>3. \A t \in hBatch : outcome[t] = "open"
    BY <2>1, <2>2
  <2>4. /\ outcome' \in [Messages -> Outcomes]
        /\ \A x \in Messages : outcome'[x] = IF x \in hBatch THEN "failed" ELSE outcome[x]
    BY <1>12, <2>3, FailFacts DEF FailBatch
  <2>5. Typed' /\ NoneTwice' /\ Apart'
    BY <2>2, <2>4
  <2>6. InHand' /\ InBatcher'
    BY <2>2, <2>4
  <2>7. InBatches'
    BY <2>1, <2>2, <2>4
  <2>8. InHandler'
    BY <2>1, <2>2, <2>4
  <2>9. CurrentOK'
    BY <2>2, <2>4
  <2> QED BY <2>5, <2>6, <2>7, <2>8, <2>9
<1>13. CASE FailCurrent
  <2>1. /\ mpc = "scan" /\ mpc' = "reset" /\ hTodo = {}
        /\ UNCHANGED <<conf, tup, rest, handler, batcher, lock, dict, current, signals>>
    BY <1>13 DEF FailCurrent
  <2>2. \A t \in (currentTups \ hFailed) \cap Tuples : outcome[t] = "open"
    BY <2>1
  <2>3. /\ outcome' \in [Messages -> Outcomes]
        /\ \A x \in Messages : x \notin currentTups \ hFailed => outcome'[x] = outcome[x]
        /\ \A x \in currentTups \ hFailed : outcome'[x] \in {"failed", "rejected"}
        /\ \A t \in (currentTups \ hFailed) \cap Tuples : outcome'[t] = "failed"
    BY <1>13, <2>2, FailFacts DEF FailCurrent, NotYetFailed
  <2>4. \A k \in AllKeys : Wiped(k) => batch[k] \subseteq hFailed
    BY <2>1
  <2>5. \A k \in AllKeys : ~Wiped(k) => batch[k] = {}
    BY <2>1
  <2>6. Typed' /\ NoneTwice' /\ Apart'
    BY <2>1, <2>3
  <2>7. InHand' /\ InBatcher'
    BY <2>1, <2>3
  <2>8. InBatches'
    BY <2>1, <2>3, <2>4, <2>5
  <2>9. InHandler'
    BY <2>1, <2>3, <2>4
  <2>10. CurrentOK'
    BY <2>1, <2>3
  <2> QED BY <2>6, <2>7, <2>8, <2>9, <2>10
<1>14. CASE ResetBatch
  BY <1>14 DEF ResetBatch, Forgotten, AllKeys
<1>15. CASE ExitOrContinue
  BY <1>15 DEF ExitOrContinue
<1>17. CASE BatcherLocks
  <2>1. Typed' /\ NoneTwice'
    BY <1>17 DEF BatcherLocks
  <2>2. Apart'
    BY <1>17 DEF BatcherLocks
  <2>3. InHand' /\ InBatches' /\ InHandler' /\ CurrentOK'
    BY <1>17 DEF BatcherLocks
  <2>4. InBatcher'
    BY <1>17 DEF BatcherLocks
  <2> QED BY <2>1, <2>2, <2>3, <2>4
<1>18. ASSUME NEW k \in AllKeys, StartBatch(k) PROVE IInv'
  BY <1>18 DEF StartBatch
<1>19. CASE BatchReturns
  BY <1>19, AckFacts DEF BatchReturns, AckedTups
<1>20. CASE EmptyBatch
  BY <1>20 DEF EmptyBatch, AllKeys
<1>21. CASE BatcherRaises
  <2>1. /\ bpc = "inBatch" /\ "batch" \in conf.mayRaise /\ bBatch # {}
        /\ lock' = "free" /\ bTodo' = {} /\ bKey' = NoKey /\ bBatch' = {}
        /\ grown' = FALSE /\ bpc' = "raised"
        /\ UNCHANGED <<conf, mpc, tup, rest, handler, present, batch, current,
                       signals, outcome, mishaps>>
    BY <1>21 DEF BatcherRaises
  <2>2. mpc \in MainRuns /\ ~excInfo /\ ~sigPending
    BY <2>1
  <2>7. conf.exitOnException \/ \A t \in Tuples : conf.groupKey[t] = currentKey
    <3>1. PICK u \in bBatch : u \in batch[bKey]
      BY <2>1
    <3>2. u \in Tuples /\ conf.groupKey[u] = currentKey
      BY <2>1, <3>1
    <3> QED BY <2>1, <3>2
  <2>3. Typed' /\ NoneTwice'
    BY <2>1, <2>2 DEF AllKeys
  <2>8. Apart'
    BY <2>1, <2>2, <2>7
  <2>4. InHand' /\ InBatches'
    BY <2>1, <2>2
  <2>5. InBatcher' /\ InHandler'
    BY <2>1, <2>2
  <2>6. CurrentOK'
    BY <2>1, <2>2
  <2> QED BY <2>3, <2>4, <2>5, <2>6, <2>8
<1>22. CASE EndBatches
  BY <1>22 DEF EndBatches, KeysAfter
<1>23. CASE StoreException \/ SendSignal
  BY <1>23 DEF StoreException, SendSignal, Signalled
<1>24. CASE UNCHANGED vars
  BY <1>24 DEF vars
<1> QED
  BY <1>1, <1>2, <1>3, <1>4, <1>5, <1>6, <1>7, <1>8, <1>9, <1>10, <1>11, <1>12,
     <1>13, <1>14, <1>15, <1>17, <1>18, <1>19, <1>20, <1>21, <1>22,
     <1>23, <1>24, <1>25 DEF Next, MainSteps, BatcherSteps

LEMMA Invariance == Spec => [](LockInv /\ (Disturbed \/ IInv))
<1>1. LockInv /\ [Next]_vars => LockInv'
  BY NextLockInv
<1>2. (Disturbed \/ IInv) /\ LockInv' /\ [Next]_vars => (Disturbed \/ IInv)'
  BY NextIInv, DisturbedStays
<1> QED BY <1>1, <1>2, InitLockInv, InitIInv, PTL DEF Spec

\* Two threads settle tuples, and the exception handler does so without the
\* lock, but until the process is disturbed no tuple is acked or failed twice,
\* or when Storm does not wait for it.
THEOREM NeverSettledTwice == Spec => []SettledOnce
<1>1. Disturbed \/ IInv => SettledOnce
  BY DEF IInv, NoneTwice, SettledOnce
<1> QED BY <1>1, Invariance, PTL

\* While process_batch works on a batch nobody else assigns _current_tups, be it
\* the main thread or its handler, disturbed or not.
AnchorInv == bpc = "inBatch" /\ Alive => currentTups = bBatch

LEMMA NextAnchorInv ==
    ASSUME AnchorInv, LockInv, [Next]_vars
    PROVE  AnchorInv'
<1> USE DEF AnchorInv, LockInv, Points, Excludes, MainHolds, BatcherHolds, Alive,
            dict, current, signals, handler, batcher
<1>1. CASE \E m \in Messages : StartReading(m)
  BY <1>1 DEF StartReading
<1>2. CASE ReadGarbled
  BY <1>2 DEF ReadGarbled, ReadRaises
<1>3. CASE MainLocks
  BY <1>3 DEF MainLocks, LockFree
<1>4. CASE HandleSignal
  BY <1>4 DEF HandleSignal, Raised
<1>5. CASE MainSteps
  BY <1>5 DEF MainSteps, EndReading, ReadRest, ReadRaises, AnswerHeartbeat,
              AckTick, GroupReturns, GroupRaises, MainUnlocks, ReportException,
              ScanKey, FailBatch, FailCurrent, ResetBatch, ExitOrContinue
<1>6. CASE BatcherLocks
  BY <1>6 DEF BatcherLocks
<1>7. CASE BatcherSteps
  BY <1>7 DEF BatcherSteps, StartBatch, BatchReturns, EmptyBatch,
              BatcherRaises, EndBatches, StoreException, SendSignal
<1>8. CASE UNCHANGED vars
  BY <1>8 DEF vars
<1> QED BY <1>1, <1>2, <1>3, <1>4, <1>5, <1>6, <1>7, <1>8 DEF Next

\* What process_batch emits is anchored to its own batch, whatever the main
\* thread does meanwhile, and the batch is open until the process is disturbed.
THEOREM AnchorsAlwaysOpen == Spec => []AnchorsOpen
<1>1. Init => AnchorInv
  BY DEF Init, AnchorInv
<1>2. AnchorInv /\ LockInv /\ [Next]_vars => AnchorInv'
  BY NextAnchorInv
<1>3. AnchorInv /\ (Disturbed \/ IInv) => AnchorsOpen
  BY DEF IInv, LockInv, Points, Typed, Apart, Failing, InBatches, InBatcher,
         AnchorInv, AnchorsOpen, Alive, MainHandles, MainRuns, MainReading, MainHolds
<1> QED BY <1>1, <1>2, <1>3, Invariance, PTL DEF Spec

\* A step that makes the bolt lose sight of an open message, if nothing is
\* disturbed, is the signal that interrupts the main thread between the first
\* line of the message and the lock.
LEMMA LosesInHandOnly ==
    ASSUME ~Disturbed, IInv, (Disturbed \/ IInv)', [Next]_vars
    PROVE  Lost' \subseteq Lost \/ DropsMessage
<1>0. conf \in Configs /\ conf' = conf
  BY ConfKept DEF IInv, LockInv, Points
<1> SUFFICES ASSUME NEW x \in Messages, outcome'[x] = "open",
                    x \notin Batched' \cup {tup'} \cup currentTups' \cup bBatch' \cup hBatch',
                    ~DropsMessage
             PROVE  /\ outcome[x] = "open"
                    /\ x \notin Batched \cup {tup} \cup currentTups \cup bBatch \cup hBatch
  BY DEF Lost
<1> USE TicklessAssumption, <1>0, ConfigFacts, UndisturbedFacts
<1> USE DEF IInv, LockInv, Points, Excludes, MainPoints, BatcherPoints, Alive,
            MainRuns, MainReading, MainHolds, MainHandles, BatcherHolds, Messages,
            Typed, NoneTwice, Apart, Failing, InHand, InBatches, InBatcher,
            InHandler, CurrentOK, Wiped, Batched, DropsMessage,
            dict, current, signals, handler, batcher
<1> DEFINE Goal == /\ outcome[x] = "open"
                   /\ x \notin Batched \cup {tup} \cup currentTups \cup bBatch \cup hBatch
<1>1. ASSUME NEW m \in Messages, StartReading(m) PROVE Goal
  BY <1>1 DEF StartReading, Take
<1>2. CASE ReadGarbled \/ ReadRest
  BY <1>2 DEF ReadGarbled, ReadRest, ReadRaises
<1>25. CASE EndReading
  BY <1>25 DEF EndReading
<1>3. CASE MainLocks
  BY <1>3 DEF MainLocks, LockFree
<1>4. CASE HandleSignal
  BY <1>4 DEF HandleSignal, Raised
<1>5. CASE AnswerHeartbeat
  BY <1>5 DEF AnswerHeartbeat, Sync
<1>6. CASE AckTick
  BY <1>6 DEF AckTick, Ack, Settle
<1>7. CASE GroupReturns
  BY <1>7 DEF GroupReturns
<1>8. CASE GroupRaises
  BY <1>8 DEF GroupRaises
<1>9. CASE MainUnlocks
  BY <1>9 DEF MainUnlocks
<1>10. CASE ReportException
  BY <1>10 DEF ReportException
<1>11. ASSUME NEW k \in AllKeys, ScanKey(k) PROVE Goal
  BY <1>11 DEF ScanKey
<1>12. CASE FailBatch
  BY <1>12 DEF FailBatch, Fail, Settle
<1>13. CASE FailCurrent
  BY <1>13 DEF FailCurrent, Fail, Settle
<1>14. CASE ResetBatch
  BY <1>14 DEF ResetBatch, Forgotten
<1>15. CASE ExitOrContinue
  BY <1>15 DEF ExitOrContinue
<1>17. CASE BatcherLocks
  BY <1>17 DEF BatcherLocks
<1>18. ASSUME NEW k \in AllKeys, StartBatch(k) PROVE Goal
  BY <1>18 DEF StartBatch
<1>19. CASE BatchReturns
  BY <1>19 DEF BatchReturns, Ack, Settle
<1>20. CASE EmptyBatch
  BY <1>20 DEF EmptyBatch
<1>21. CASE BatcherRaises
  BY <1>21 DEF BatcherRaises
<1>22. CASE EndBatches
  BY <1>22 DEF EndBatches
<1>23. CASE StoreException \/ SendSignal
  BY <1>23 DEF StoreException, SendSignal
<1>24. CASE UNCHANGED vars
  BY <1>24 DEF vars
<1> QED
  BY <1>1, <1>2, <1>3, <1>4, <1>5, <1>6, <1>7, <1>8, <1>9, <1>10, <1>11, <1>12,
     <1>13, <1>14, <1>15, <1>17, <1>18, <1>19, <1>20, <1>21, <1>22,
     <1>23, <1>24, <1>25 DEF Next, MainSteps, BatcherSteps

\* Until the process is disturbed an open message is lost in that place only:
\* not in the swap of the dicts, nor where two threads assign _current_tups, nor
\* to the reset of a batch.
THEOREM LostInOnePlace == Spec => LostOnlyInHand
<1>1. (Disturbed \/ IInv) /\ (Disturbed \/ IInv)' /\ [Next]_vars =>
          [Disturbed \/ Lost' \subseteq Lost \/ DropsMessage]_vars
  BY LosesInHandOnly
<1> QED BY <1>1, Invariance, PTL DEF Spec, LostOnlyInHand

=============================================================================
