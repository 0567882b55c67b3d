------------------------- MODULE BatchingBoltProofs --------------------------
(***************************************************************************)
(* Theorems about BatchingBolt, for any tuples, keys, group_key and tick   *)
(* limit.  The invariant says which tuples each part of the bolt's state   *)
(* may hold at each point of the loop; SettledOnce by itself is not        *)
(* inductive, since it says nothing of the batches that will be settled.   *)
(***************************************************************************)
EXTENDS BatchingBolt, TLAPS

\* An ack keeps the outcomes well typed, settles the messages that are open, and
\* changes no other message.
LEMMA AckFacts ==
    ASSUME NEW M, NEW o \in [M -> Outcomes], NEW S
    PROVE  /\ Ack(o, S) \in [M -> Outcomes]
           /\ \A x \in M : x \in S /\ o[x] = "open" => Ack(o, S)[x] = "acked"
           /\ \A x \in M : x \in S /\ o[x] # "open" => Ack(o, S)[x] = "rejected"
           /\ \A x \in M : x \notin S => Ack(o, S)[x] = o[x]
BY DEF Ack, Settle, Outcomes

\* So does a fail.
LEMMA FailFacts ==
    ASSUME NEW M, NEW o \in [M -> Outcomes], NEW S
    PROVE  /\ Fail(o, S) \in [M -> Outcomes]
           /\ \A x \in M : x \in S /\ o[x] = "open" => Fail(o, S)[x] = "failed"
           /\ \A x \in M : x \in S /\ o[x] # "open" => Fail(o, S)[x] = "rejected"
           /\ \A x \in M : x \notin S => Fail(o, S)[x] = o[x]
BY DEF Fail, Settle, Outcomes

\* What the theorems below assume of the configurations.  The process ends at
\* the first exception, or its reads never fail: a read that fails after a
\* handled exception fails the tuple of that one again.
ReadsAreSafe == \A c \in Configs : c.readMayRaise => c.exitOnException

\* auto_ack and auto_fail are on.
AutoSettles == \A c \in Configs : c.autoAck /\ c.autoFail

\* While the batches are still to be settled (that is, until the handler of a
\* process that will exit has failed them) each of their tuples is open and
\* is in the batch of its own key.
BatchesLive == conf.exitOnException => pc \notin {"handled", "exit1"}

BatchedOpen ==
    BatchesLive =>
        \A k \in AllKeys : \A t \in batch[k] :
            outcome[t] = "open" /\ conf.groupKey[t] = k

\* What _current_tups holds at each point of the loop.
CurrentOK ==
    /\ pc = "beat" => \E m \in Heartbeats :
                         currentTups = {m} /\ outcome[m] = "beat"
    /\ pc = "group" => \E m \in Tuples :
                          currentTups = {m} /\ outcome[m] = "open"
    /\ pc = "group" => \A t \in currentTups, k \in AllKeys : t \notin batch[k]
    /\ pc = "inBatch" => currentTups = batch[currentKey]
    /\ pc = "handle" => \A t \in currentTups :
                           /\ outcome[t] = "open"
                           /\ \A k \in AllKeys : t \in batch[k] => k = currentKey
    /\ pc = "read" /\ conf.exitOnException => currentTups = {}

IInv == TypeOK /\ SettledOnce /\ BatchedOpen /\ CurrentOK

LEMMA ConfigFacts ==
    ASSUME conf \in Configs
    PROVE  /\ conf.groupKey \in [Tuples -> AllKeys]
           /\ conf.exitOnException \in BOOLEAN
           /\ ReadsAreSafe => (conf.readMayRaise => conf.exitOnException)
           /\ AutoSettles => conf.autoAck /\ conf.autoFail
BY BatchingBoltAssumption DEF Config, ReadsAreSafe, AutoSettles

LEMMA ConfKept == ASSUME [Next]_vars PROVE conf' = conf
BY DEF Next, Own, vars, ReadTuple, ReadTick, ReadRaises, AnswerHeartbeat,
       GroupReturns, GroupRaises, StartBatch, BatchReturns, BatchRaises,
       EndBatches, HandleException, ExitOrContinue, StormWentAway

LEMMA WithKeyType ==
    ASSUME order \in Seq(AllKeys), NEW k \in AllKeys
    PROVE  WithKey(k) \in Seq(AllKeys)
BY DEF WithKey

\* The initial state has no batches and settles nothing.
LEMMA InitIInv == Init => IInv
BY BatchingBoltAssumption
   DEF Init, IInv, TypeOK, SettledOnce, BatchedOpen, CurrentOK, BatchesLive,
       PCs, NoBatches, AllKeys, Messages, Outcomes, CounterLimit

\* Every step keeps the invariant, unless a read may fail in a process that
\* goes on after exceptions.
LEMMA NextIInv ==
    ASSUME ReadsAreSafe, IInv, [Next]_vars
    PROVE  IInv'
<1>0. conf \in Configs /\ conf' = conf
  BY ConfKept DEF IInv, TypeOK
<1> USE BatchingBoltAssumption, <1>0, ConfigFacts
<1> USE DEF IInv, TypeOK, SettledOnce, BatchedOpen, BatchesLive, CurrentOK,
            PCs, Messages, batches, current
<1>1. ASSUME NEW m \in Tuples, ReadTuple(m) PROVE IInv'
  <2>1. /\ outcome' \in [Messages -> Outcomes]
        /\ outcome'[m] = IF m \in Heartbeats THEN "beat" ELSE "open"
        /\ \A x \in Messages \ {m} : outcome'[x] = outcome[x]
    BY <1>1 DEF ReadTuple, Take, Outcomes
  <2>2. \A k \in AllKeys : m \notin batch[k]
    BY <1>1 DEF ReadTuple
  <2> QED BY <1>1, <2>1, <2>2 DEF ReadTuple
<1>2. CASE ReadTick
  <2> DEFINE taken == Take(outcome, Tick, FALSE)
  <2>1. /\ taken \in [Messages -> Outcomes]
        /\ taken[Tick] = "open"
        /\ \A x \in Messages \ {Tick} : taken[x] = outcome[x]
    BY DEF Take, Outcomes
  <2> HIDE DEF taken
  <2>2. /\ outcome' \in [Messages -> Outcomes]
        /\ outcome'[Tick] = "acked"
        /\ \A x \in Tuples : outcome'[x] = outcome[x]
    <3>1. outcome' = Ack(taken, {Tick})
      BY <1>2 DEF ReadTick, taken
    <3> QED BY <2>1, <3>1, AckFacts
  <2>3. tickCounter' \in 0..CounterLimit
    BY <1>2 DEF ReadTick, Counted, CounterLimit
  <2>4. /\ pc' \in PCs \ {"beat", "group", "inBatch", "handle", "handled", "exit1"}
        /\ position' \in Nat \ {0}
        /\ currentTups' \in SUBSET {Tick}
        /\ pc' = "read" => currentTups' = {}
        /\ pc = "read"
        /\ UNCHANGED <<order, batch, currentKey>>
    BY <1>2 DEF ReadTick
  <2> QED BY <2>2, <2>3, <2>4
<1>3. CASE ReadRaises
  BY <1>3 DEF ReadRaises
<1>4. CASE AnswerHeartbeat
  <2>1. PICK m \in Heartbeats : currentTups = {m} /\ outcome[m] = "beat"
    BY <1>4 DEF AnswerHeartbeat
  <2>2. /\ outcome' \in [Messages -> Outcomes]
        /\ outcome'[m] = "synced"
        /\ \A x \in Messages \ {m} : outcome'[x] = outcome[x]
    BY <1>4, <2>1 DEF AnswerHeartbeat, Sync, Outcomes
  <2> QED BY <1>4, <2>1, <2>2 DEF AnswerHeartbeat
<1>5. CASE GroupReturns
  <2>1. PICK m \in Tuples : currentTups = {m} /\ outcome[m] = "open"
    BY <1>5 DEF GroupReturns
  <2>2. batch' = [batch EXCEPT ![conf.groupKey[m]] = @ \cup {m}]
    BY <1>5, <2>1 DEF GroupReturns
  <2>3. order' \in Seq(AllKeys)
    BY <1>5, <2>1, WithKeyType DEF GroupReturns
  <2> QED BY <1>5, <2>1, <2>2, <2>3 DEF GroupReturns
<1>6. CASE GroupRaises
  BY <1>6 DEF GroupRaises
<1>7. CASE StartBatch
  <2>1. order[position] \in AllKeys
    BY <1>7 DEF StartBatch
  <2> QED BY <1>7, <2>1 DEF StartBatch, BatchTups
<1>8. CASE BatchReturns
  <2>1. /\ outcome' \in [Messages -> Outcomes]
        /\ \A x \in Messages : x \notin batch[currentKey] => outcome'[x] = outcome[x]
        /\ \A x \in Messages : outcome'[x] # "rejected"
    BY <1>8, AckFacts DEF BatchReturns
  <2>2. batch' = [batch EXCEPT ![currentKey] = {}]
    BY <1>8 DEF BatchReturns, Emptied
  <2>3. \A k \in AllKeys : \A t \in batch'[k] : t \in batch[k] /\ t \notin batch[currentKey]
    BY <2>2, <1>8 DEF BatchReturns
  <2> QED BY <1>8, <2>1, <2>2, <2>3 DEF BatchReturns, AllKeys
<1>9. CASE BatchRaises
  BY <1>9 DEF BatchRaises
<1>10. CASE EndBatches
  BY <1>10 DEF EndBatches, NoBatches, CounterLimit
<1>11. CASE HandleException
  <2>1. CASE ~conf.autoFail
    BY <1>11, <2>1 DEF HandleException
  <2>2. CASE conf.autoFail
    <3> DEFINE wiped == Fail(outcome, WipedTups)
               rest == NotYetFailed(currentTups, WipedTups)
    <3>1. \A t \in WipedTups : t \in Messages /\ outcome[t] = "open"
      BY <1>11 DEF HandleException, WipedTups
    <3>2. /\ wiped \in [Messages -> Outcomes]
          /\ \A x \in Messages : x \in WipedTups => wiped[x] = "failed"
          /\ \A x \in Messages : x \notin WipedTups => wiped[x] = outcome[x]
      BY <3>1, FailFacts
    <3>3. \A t \in rest : t \in Messages /\ wiped[t] = "open"
      BY <1>11, <3>2 DEF HandleException, NotYetFailed
    <3> HIDE DEF wiped
    <3>4. /\ Fail(wiped, rest) \in [Messages -> Outcomes]
          /\ \A x \in Messages : x \in rest => Fail(wiped, rest)[x] = "failed"
          /\ \A x \in Messages : x \notin rest => Fail(wiped, rest)[x] = wiped[x]
      BY <3>2, <3>3, FailFacts
    <3>5. /\ outcome' = Fail(wiped, rest)
          /\ batch' = [batch EXCEPT ![currentKey] = {}]
          /\ currentKey' = NoKey
          /\ order' \in Seq(AllKeys)
          /\ pc' = "handled"
          /\ UNCHANGED <<position, currentTups, tickCounter>>
      BY <1>11, <2>2, WithKeyType DEF HandleException, Emptied, wiped
    <3>6. ASSUME ~conf.exitOnException, NEW k \in AllKeys, NEW t \in batch'[k]
          PROVE  outcome'[t] = "open" /\ conf.groupKey[t] = k
      <4>1. k # currentKey /\ t \in batch[k]
        BY <3>5, <3>6
      <4>2. outcome[t] = "open" /\ conf.groupKey[t] = k /\ t \in Messages
        BY <1>11, <4>1 DEF HandleException
      <4>3. t \notin WipedTups
        BY <3>6, <4>1, <4>2, <1>11 DEF WipedTups, Wiped, HandleException
      <4>4. t \notin rest
        BY <4>1, <1>11 DEF NotYetFailed, HandleException
      <4> QED BY <3>2, <3>4, <3>5, <4>2, <4>3, <4>4
    <3>7. TypeOK'
      BY <3>4, <3>5 DEF AllKeys
    <3>8. SettledOnce'
      BY <3>2, <3>4, <3>5
    <3>9. BatchedOpen'
      BY <3>5, <3>6
    <3>10. CurrentOK'
      BY <3>5
    <3> QED BY <3>7, <3>8, <3>9, <3>10
  <2> QED BY <2>1, <2>2
<1>12. CASE ExitOrContinue
  BY <1>12 DEF ExitOrContinue
<1>13. CASE StormWentAway
  BY <1>13 DEF StormWentAway
<1>14. CASE UNCHANGED vars
  BY <1>14 DEF vars
<1> QED
  BY <1>1, <1>2, <1>3, <1>4, <1>5, <1>6, <1>7, <1>8, <1>9, <1>10, <1>11,
     <1>12, <1>13, <1>14 DEF Next, Own

-----------------------------------------------------------------------------
LEMMA Invariance == ASSUME ReadsAreSafe PROVE Spec => []IInv
<1>1. IInv /\ [Next]_vars => IInv'
  BY NextIInv DEF ReadsAreSafe
<1> QED BY <1>1, InitIInv, PTL DEF Spec

\* Every variable of BatchingBolt stays in its range.
THEOREM TypeCorrect == ASSUME ReadsAreSafe PROVE Spec => []TypeOK
<1>1. IInv => TypeOK
  BY DEF IInv
<1> QED BY <1>1, Invariance, PTL

\* BatchingBolt never acks or fails a message that Storm is not waiting for:
\* no tuple twice, no heartbeat ever, whatever the batches and exceptions.
THEOREM NeverSettledTwice == ASSUME ReadsAreSafe PROVE Spec => []SettledOnce
<1>1. IInv => SettledOnce
  BY DEF IInv
<1> QED BY <1>1, Invariance, PTL

\* What process_batch emits is anchored to the open tuples of its own batch.
THEOREM AnchorsAlwaysOpen == ASSUME ReadsAreSafe PROVE Spec => []AnchorsOpen
<1>1. IInv => AnchorsOpen
  BY DEF IInv, TypeOK, BatchedOpen, BatchesLive, CurrentOK, AnchorsOpen
<1> QED BY <1>1, Invariance, PTL

-----------------------------------------------------------------------------
(***************************************************************************)
(* The rest of the invariant, for NoOrphan and the refinement: no tuple is *)
(* forgotten.  Every batch with a tuple in it is listed in the order of    *)
(* self._batches, not before the position process_batches has reached.     *)
(***************************************************************************)
Listed ==
    /\ \A k \in AllKeys : batch[k] # {} => \E i \in DOMAIN order : order[i] = k
    /\ pc \in {"batch", "inBatch"} =>
          \A k \in AllKeys : batch[k] # {} =>
              \E i \in DOMAIN order : i >= position /\ order[i] = k
    /\ pc = "inBatch" => position \in DOMAIN order /\ order[position] = currentKey

\* Where the open tuples are.
Tracked ==
    /\ pc \in {"read", "beat", "batch", "inBatch"} \/ (pc = "handled" /\ ~conf.exitOnException) =>
          \A t \in Messages : outcome[t] = "open" => t \in Batched
    /\ pc \in {"group", "handle"} =>
          \A t \in Messages : outcome[t] = "open" => t \in Batched \cup currentTups
    /\ pc \in {"handled", "exit1"} /\ conf.exitOnException =>
          \A t \in Messages : outcome[t] # "open"

CInv == IInv /\ Listed /\ Tracked

\* With auto_ack and auto_fail every step keeps track of every open tuple.
LEMMA InitCInv == Init => Listed /\ Tracked
BY DEF Init, Listed, Tracked, NoBatches, AllKeys

LEMMA NextCInv ==
    ASSUME ReadsAreSafe, AutoSettles, CInv, IInv', [Next]_vars
    PROVE  Listed' /\ Tracked'
<1>0. conf \in Configs /\ conf' = conf
  BY ConfKept DEF CInv, IInv, TypeOK
<1> USE BatchingBoltAssumption, <1>0, ConfigFacts
<1> USE DEF CInv, IInv, TypeOK, Listed, Tracked, Batched, Messages, PCs,
            batches, current
<1>1. ASSUME NEW m \in Tuples, ReadTuple(m) PROVE Listed' /\ Tracked'
  <2>1. \A x \in Messages \ {m} : outcome'[x] = outcome[x]
    BY <1>1 DEF ReadTuple, Take
  <2>2. outcome'[m] = IF m \in Heartbeats THEN "beat" ELSE "open"
    BY <1>1 DEF ReadTuple, Take
  <2> QED BY <1>1, <2>1, <2>2 DEF ReadTuple
<1>2. CASE ReadTick
  <2>1. outcome'[Tick] # "open" /\ \A x \in Tuples : outcome'[x] = outcome[x]
    BY <1>2 DEF ReadTick, Ack, Settle, Take
  <2>2. /\ pc' \in {"read", "batch"}
        /\ pc' = "batch" => position' = 1
        /\ UNCHANGED <<order, batch>>
        /\ pc = "read"
    BY <1>2 DEF ReadTick
  <2> QED BY <2>1, <2>2
<1>3. CASE ReadRaises
  <2>1. pc = "read" /\ pc' = "handle"
    BY <1>3 DEF ReadRaises
  <2>2. UNCHANGED <<order, batch, position, currentKey, currentTups, outcome>>
    BY <1>3 DEF ReadRaises
  <2> QED BY <2>1, <2>2
<1>4. CASE AnswerHeartbeat
  <2>1. \A x \in Messages : outcome'[x] = outcome[x] \/ outcome'[x] = "synced"
    BY <1>4 DEF AnswerHeartbeat, Sync
  <2> QED BY <1>4, <2>1 DEF AnswerHeartbeat
<1>5. CASE GroupReturns
  <2>1. PICK m \in Tuples : currentTups = {m}
    BY <1>5 DEF GroupReturns, CurrentOK
  <2>2. /\ batch' = [batch EXCEPT ![conf.groupKey[m]] = @ \cup {m}]
        /\ order' = WithKey(conf.groupKey[m])
        /\ pc = "group" /\ pc' = "read" /\ outcome' = outcome
    BY <1>5, <2>1 DEF GroupReturns
  <2>3. \E i \in DOMAIN order' : order'[i] = conf.groupKey[m]
    BY <2>2 DEF WithKey
  <2>4. \A i \in DOMAIN order : i \in DOMAIN order' /\ order'[i] = order[i]
    BY <2>2 DEF WithKey
  <2>5. Listed'
    <3>1. ASSUME NEW k \in AllKeys, batch'[k] # {}
          PROVE  \E i \in DOMAIN order' : order'[i] = k
      <4>1. k = conf.groupKey[m] \/ batch[k] # {}
        BY <2>2, <3>1
      <4> QED BY <2>3, <2>4, <4>1
    <3> QED BY <2>2, <3>1
  <2>6. Tracked'
    BY <2>1, <2>2
  <2> QED BY <2>5, <2>6
<1>6. CASE GroupRaises
  BY <1>6 DEF GroupRaises
<1>7. CASE StartBatch
  BY <1>7 DEF StartBatch
<1>8. CASE BatchReturns
  <2>1. /\ batch' = [batch EXCEPT ![currentKey] = {}]
        /\ pc = "inBatch" /\ pc' = "batch"
        /\ position' = position + 1
        /\ order' = order
    BY <1>8 DEF BatchReturns, Emptied
  <2>2. \A x \in Messages : outcome'[x] = "open" =>
            outcome[x] = "open" /\ x \notin batch[currentKey]
    BY <1>8 DEF BatchReturns, Ack, Settle
  <2>3. Listed'
    BY <2>1
  <2>4. Tracked'
    BY <2>1, <2>2
  <2> QED BY <2>3, <2>4
<1>9. CASE BatchRaises
  BY <1>9 DEF BatchRaises
<1>10. CASE EndBatches
  <2>1. \A k \in AllKeys : batch[k] = {}
    BY <1>10 DEF EndBatches
  <2> QED BY <1>10, <2>1 DEF EndBatches, NoBatches
<1>11. CASE HandleException
  <2>1. /\ batch' = [batch EXCEPT ![currentKey] = {}]
        /\ order' = WithKey(currentKey)
        /\ pc = "handle" /\ pc' = "handled"
        /\ outcome' = Fail(Fail(outcome, WipedTups),
                           NotYetFailed(currentTups, WipedTups))
    BY <1>11 DEF HandleException, Emptied
  <2>2. \A x \in Messages : outcome'[x] = "open" =>
            outcome[x] = "open" /\ x \notin WipedTups /\ x \notin currentTups
    BY <2>1 DEF Fail, Settle, NotYetFailed
  <2>3. \A k \in AllKeys : Wiped(k) => batch[k] \subseteq WipedTups
    BY DEF WipedTups
  <2>4. \A i \in DOMAIN order : i \in DOMAIN order' /\ order'[i] = order[i]
    BY <2>1 DEF WithKey
  <2>5. Listed'
    BY <2>1, <2>4
  <2>6. Tracked'
    BY <2>1, <2>2, <2>3 DEF Wiped
  <2> QED BY <2>5, <2>6
<1>12. CASE ExitOrContinue
  BY <1>12 DEF ExitOrContinue
<1>13. CASE StormWentAway
  BY <1>13 DEF StormWentAway
<1>14. CASE UNCHANGED vars
  BY <1>14 DEF vars
<1> QED
  BY <1>1, <1>2, <1>3, <1>4, <1>5, <1>6, <1>7, <1>8, <1>9, <1>10, <1>11,
     <1>12, <1>13, <1>14 DEF Next, Own

LEMMA Tracking ==
    ASSUME ReadsAreSafe, AutoSettles PROVE Spec => []CInv
<1>1. IInv /\ Listed /\ Tracked /\ [Next]_vars => (Listed /\ Tracked)' \/ ~IInv'
  BY NextCInv DEF CInv
<1> QED BY <1>1, InitCInv, Invariance, PTL DEF Spec, CInv

\* With auto_ack and auto_fail, the tuples Storm is waiting for between two
\* messages are exactly the batched ones.
THEOREM NothingForgotten ==
    ASSUME ReadsAreSafe, AutoSettles PROVE Spec => []NoOrphan
<1>1. CInv => NoOrphan
  BY DEF CInv, IInv, TypeOK, BatchedOpen, BatchesLive, Tracked, NoOrphan,
         Batched, Messages
<1> QED BY <1>1, Tracking, PTL

-----------------------------------------------------------------------------
(***************************************************************************)
(* Whose tuples the handler fails when the process goes on: between two    *)
(* calls of process_batch self._current_key is None, which must then be    *)
(* nobody's key, or the batch of None is failed for the exception of       *)
(* another tuple.                                                          *)
(***************************************************************************)
NoneIsNoKey == \A c \in Configs : ~c.exitOnException => \A t \in Tuples : c.groupKey[t] # NoKey

KeyKnown == ~conf.exitOnException /\ conf.autoFail =>
                \/ pc \in {"inBatch", "exit2"}
                \/ currentKey = NoKey
                \/ pc = "handle" /\ batch[currentKey] \subseteq currentTups

LEMMA InitKeyKnown == Init => KeyKnown
BY DEF Init, KeyKnown

LEMMA NextKeyKnown == ASSUME IInv, KeyKnown, [Next]_vars PROVE KeyKnown'
<1>0. conf \in Configs /\ conf' = conf
  BY ConfKept DEF IInv, TypeOK
<1> USE <1>0 DEF KeyKnown, batches, current
<1>1. CASE BatchRaises
  BY <1>1 DEF BatchRaises, IInv, CurrentOK
<1>2. CASE HandleException
  BY <1>2 DEF HandleException
<1>3. CASE BatchReturns
  BY <1>3 DEF BatchReturns
<1>4. CASE StartBatch
  BY <1>4 DEF StartBatch
<1>5. CASE \/ \E m \in Tuples : ReadTuple(m)
           \/ ReadTick \/ ReadRaises \/ AnswerHeartbeat \/ GroupReturns \/ GroupRaises
           \/ EndBatches \/ ExitOrContinue
  BY <1>5 DEF ReadTuple, ReadTick, ReadRaises, AnswerHeartbeat, GroupReturns, GroupRaises,
              EndBatches, ExitOrContinue
<1>6. CASE StormWentAway \/ UNCHANGED vars
  BY <1>6 DEF StormWentAway, vars
<1> QED BY <1>1, <1>2, <1>3, <1>4, <1>5, <1>6 DEF Next, Own

LEMMA FailsCurrent ==
    ASSUME NoneIsNoKey, IInv, KeyKnown, [Next]_vars, pc = "handle", ~conf.exitOnException,
           NEW m \in Messages \ currentTups
    PROVE  outcome'[m] = outcome[m]
<1>0. conf \in Configs /\ currentKey \in AllKeys /\ outcome \in [Messages -> Outcomes]
  BY DEF IInv, TypeOK
<1>1. CASE HandleException /\ conf.autoFail
  <2>1. WipedTups \subseteq batch[currentKey]
    BY DEF WipedTups, Wiped
  <2>2. batch[currentKey] \subseteq currentTups
    <3>1. CASE currentKey = NoKey
      <4>1. \A t \in batch[NoKey] : t \in Tuples /\ conf.groupKey[t] = NoKey
        BY <1>0, <3>1 DEF IInv, TypeOK, BatchedOpen, BatchesLive
      <4> QED BY <1>0, <3>1, <4>1 DEF NoneIsNoKey
    <3> QED BY <1>1, <3>1 DEF KeyKnown
  <2>3. m \notin WipedTups /\ m \notin NotYetFailed(currentTups, WipedTups)
    BY <2>1, <2>2 DEF NotYetFailed
  <2>4. outcome' = Fail(Fail(outcome, WipedTups), NotYetFailed(currentTups, WipedTups))
    BY <1>1 DEF HandleException
  <2> QED BY <1>0, <2>3, <2>4, FailFacts
<1>2. CASE HandleException /\ ~conf.autoFail
  BY <1>2 DEF HandleException
<1>3. CASE ~HandleException
  <2>1. outcome' = outcome
    BY <1>3 DEF Next, Own, vars, ReadTuple, ReadTick, ReadRaises, AnswerHeartbeat, GroupReturns,
                GroupRaises, StartBatch, BatchReturns, BatchRaises, EndBatches, ExitOrContinue,
                StormWentAway
  <2> QED BY <2>1
<1> QED BY <1>1, <1>2, <1>3

\* A process that goes on after an exception fails the tuples that were being
\* processed and no others, if group_key never returns None.
THEOREM FailsOnlyCurrent ==
    ASSUME ReadsAreSafe, NoneIsNoKey PROVE Spec => OnlyCurrentFailed
<1>1. Spec => []KeyKnown
  <2>1. IInv /\ KeyKnown /\ [Next]_vars => KeyKnown'
    BY NextKeyKnown
  <2> QED BY <2>1, InitKeyKnown, Invariance, PTL DEF Spec
<1>2. IInv /\ KeyKnown /\ [Next]_vars =>
          [pc = "handle" /\ ~conf.exitOnException =>
               \A m \in Messages \ currentTups : outcome'[m] = outcome[m]]_vars
  BY FailsCurrent DEF NoneIsNoKey
<1> QED BY <1>1, <1>2, Invariance, PTL DEF Spec, OnlyCurrentFailed

-----------------------------------------------------------------------------
(***************************************************************************)
(* BatchingBolt implements Settlement: each of its steps receives, answers *)
(* or settles messages, ends the process, or changes nothing Storm can     *)
(* see.                                                                    *)
(***************************************************************************)
\* A step that settles the tuples of S and leaves the process running is a
\* SettleAll of the contract.
LEMMA SettleStep ==
    ASSUME TypeOK, TypeOK', NEW S \in SUBSET Tuples, NEW how \in {"acked", "failed"},
           Status = "running", Status' = "running",
           \A m \in S : outcome[m] = "open",
           \A m \in Tuples : outcome'[m] = IF m \in S THEN how ELSE outcome[m]
    PROVE  Contract!Next
<1>1. Contract!SettleAll(S, how)
  BY DEF Contract!SettleAll, TypeOK, Messages
<1> QED BY <1>1 DEF Contract!Next

\* A step that changes neither what Storm sees nor the process is a stutter.
LEMMA StutterStep ==
    ASSUME \A m \in Tuples : outcome'[m] = outcome[m], Status' = Status
    PROVE  UNCHANGED Contract!vars
BY DEF Contract!vars

LEMMA ContractInit == Init => Contract!Init
BY DEF Init, Contract!Init, Status, Messages

LEMMA ContractNext ==
    ASSUME ReadsAreSafe, AutoSettles, CInv, CInv', [Next]_vars
    PROVE  [Contract!Next]_(Contract!vars)
<1>0. conf \in Configs /\ conf' = conf
  BY ConfKept DEF CInv, IInv, TypeOK
<1> USE BatchingBoltAssumption, <1>0, ConfigFacts
<1> USE DEF CInv, IInv, Messages, batches, current
<1>1. ASSUME NEW m \in Tuples, ReadTuple(m) PROVE Contract!Next
  <2>1. Contract!Receive(m)
    BY <1>1 DEF ReadTuple, Take, Contract!Receive, Status, TypeOK
  <2> QED BY <2>1 DEF Contract!Next
<1>2. CASE ReadTick
  <2>1. \A m \in Tuples : outcome'[m] = outcome[m]
    BY <1>2 DEF ReadTick, Ack, Settle, Take, TypeOK
  <2>2. Status' = Status
    BY <1>2 DEF ReadTick, Status
  <2> QED BY <2>1, <2>2, StutterStep
<1>3. CASE ReadRaises
  BY <1>3, StutterStep DEF ReadRaises, Status
<1>4. CASE AnswerHeartbeat
  <2>1. PICK m \in Heartbeats : currentTups = {m} /\ outcome[m] = "beat"
    BY <1>4 DEF AnswerHeartbeat, CurrentOK
  <2>2. Contract!Answer(m)
    BY <1>4, <2>1 DEF AnswerHeartbeat, Sync, Contract!Answer, Status, TypeOK
  <2> QED BY <2>1, <2>2 DEF Contract!Next
<1>5. CASE GroupReturns
  BY <1>5, StutterStep DEF GroupReturns, Status
<1>6. CASE GroupRaises
  BY <1>6, StutterStep DEF GroupRaises, Status
<1>7. CASE StartBatch
  BY <1>7, StutterStep DEF StartBatch, Status
<1>8. CASE BatchReturns
  <2>1. /\ \A m \in batch[currentKey] : outcome[m] = "open"
        /\ batch[currentKey] \in SUBSET Tuples
    BY <1>8 DEF BatchReturns, BatchedOpen, BatchesLive, TypeOK
  <2>2. \A m \in Tuples : outcome'[m] = IF m \in batch[currentKey] THEN "acked"
                                        ELSE outcome[m]
    BY <1>8, <2>1 DEF BatchReturns, Ack, Settle, TypeOK
  <2>3. Status = "running" /\ Status' = "running"
    BY <1>8 DEF BatchReturns, Status
  <2> QED BY <2>1, <2>2, <2>3, SettleStep
<1>9. CASE BatchRaises
  BY <1>9, StutterStep DEF BatchRaises, Status
<1>10. CASE EndBatches
  BY <1>10, StutterStep DEF EndBatches, Status
<1>11. CASE HandleException
  <2> DEFINE S == (WipedTups \cup currentTups) \cap Tuples
  <2>1. \A m \in S : outcome[m] = "open"
    BY <1>11 DEF HandleException, WipedTups, BatchedOpen, BatchesLive, CurrentOK
  <2>2. \A m \in Tuples : outcome'[m] = IF m \in S THEN "failed" ELSE outcome[m]
    BY <1>11, <2>1
       DEF HandleException, Fail, Settle, NotYetFailed, TypeOK
  <2>3. Status = "running" /\ Status' = "running"
    BY <1>11 DEF HandleException, Status
  <2> QED BY <2>1, <2>2, <2>3, SettleStep
<1>12. CASE ExitOrContinue
  <2>1. CASE conf.exitOnException
    <3>1. Contract!ExitOnError
      BY <1>12, <2>1 DEF ExitOrContinue, Contract!ExitOnError, Status, Tracked
    <3> QED BY <3>1 DEF Contract!Next
  <2>2. CASE ~conf.exitOnException
    BY <1>12, <2>2, StutterStep DEF ExitOrContinue, Status
  <2> QED BY <2>1, <2>2
<1>13. CASE StormWentAway
  <2>1. Contract!StormGone
    BY <1>13 DEF StormWentAway, Contract!StormGone, Status
  <2> QED BY <2>1 DEF Contract!Next
<1>14. CASE UNCHANGED vars
  BY <1>14, StutterStep DEF vars, Status
<1> QED
  BY <1>1, <1>2, <1>3, <1>4, <1>5, <1>6, <1>7, <1>8, <1>9, <1>10, <1>11,
     <1>12, <1>13, <1>14 DEF Next, Own

\* A BatchingBolt with auto_ack and auto_fail keeps the contract: nothing is
\* settled twice, and nothing is open when it exits because of an exception.
THEOREM KeepsContract ==
    ASSUME ReadsAreSafe, AutoSettles PROVE Spec => ImplementsSettlement
<1>1. CInv /\ CInv' /\ [Next]_vars => [Contract!Next]_(Contract!vars)
  BY ContractNext
<1> QED BY <1>1, ContractInit, Tracking, PTL
        DEF Spec, ImplementsSettlement, Contract!Spec

=============================================================================
