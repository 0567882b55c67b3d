------------------------------ MODULE BoltProofs -------------------------------
(***************************************************************************)
(* Bolt implements Settlement, for any tuples and heartbeats.  The         *)
(* invariant says what _current_tups holds at each point of the loop, and  *)
(* that no tuple is open but the one it holds: the contract itself says    *)
(* nothing of the program, and so is not inductive.                        *)
(***************************************************************************)
EXTENDS Bolt, TLAPS

\* Settling messages, as every ack and fail of a bolt does, keeps the outcomes
\* well typed, settles those of the messages that are open, and changes no
\* other message.
LEMMA SettleFacts ==
    ASSUME NEW M, NEW o \in [M -> Outcomes], NEW S, NEW how \in {"acked", "failed"}
    PROVE  /\ Settle(o, S, how) \in [M -> Outcomes]
           /\ \A x \in M : x \in S /\ o[x] = "open" => Settle(o, S, how)[x] = how
           /\ \A x \in M : x \in S /\ o[x] # "open" => Settle(o, S, how)[x] = "rejected"
           /\ \A x \in M : x \notin S => Settle(o, S, how)[x] = o[x]
BY DEF Settle, Outcomes

\* What the theorem assumes of the configurations.  The process ends at the
\* first exception, or its reads never fail: _current_tups keeps its value in
\* the handler, so a read that fails after an exception fails that tuple again.
ReadsAreSafe == \A c \in Configs : c.readMayRaise => c.exitOnException

\* auto_ack and auto_fail are on.
AutoSettles == \A c \in Configs : c.autoAck /\ c.autoFail

\* What _current_tups holds at each point of the loop.
CurrentOK ==
    /\ pc = "beat" => \E m \in Tuples : currentTups = {m} /\ outcome[m] = "beat"
    /\ pc = "process" => \E m \in Tuples : currentTups = {m} /\ outcome[m] = "open"
    /\ pc = "handle" => \/ currentTups = {}
                        \/ \E m \in Tuples : currentTups = {m} /\ outcome[m] = "open"
    /\ pc = "read" /\ conf.exitOnException => currentTups = {}

\* No other tuple is open, unless the pipe has broken.
OnlyCurrentOpen ==
    /\ pc \in {"process", "handle"} =>
          \A m \in Tuples : outcome[m] = "open" => m \in currentTups
    /\ pc \in {"read", "beat", "handled", "exit1"} =>
          \A m \in Tuples : outcome[m] # "open"

IInv == TypeOK /\ CurrentOK /\ OnlyCurrentOpen

LEMMA ConfigFacts ==
    ASSUME conf \in Configs
    PROVE  /\ conf.exitOnException \in BOOLEAN
           /\ ReadsAreSafe => (conf.readMayRaise => conf.exitOnException)
           /\ AutoSettles => conf.autoAck /\ conf.autoFail
BY BoltAssumption DEF ReadsAreSafe, AutoSettles

LEMMA InitIInv == Init => IInv
BY DEF Init, IInv, TypeOK, CurrentOK, OnlyCurrentOpen, PCs, Outcomes

\* A step that changes neither what Storm sees nor the process is a stutter.
LEMMA StutterStep ==
    ASSUME outcome' = outcome, Status' = Status
    PROVE  [Contract!Next]_(Contract!vars)
BY DEF Contract!vars

\* A step that settles the current tuple and goes on is a SettleAll.
LEMMA SettleStep ==
    ASSUME TypeOK, NEW m \in Tuples, NEW how \in {"acked", "failed"},
           Status = "running", Status' = "running",
           outcome[m] = "open", outcome' = Settle(outcome, {m}, how)
    PROVE  Contract!Next
<1>1. outcome' = [x \in Tuples |-> IF x \in {m} THEN how ELSE outcome[x]]
  BY DEF Settle, TypeOK
<1>2. Contract!SettleAll({m}, how)
  BY <1>1 DEF Contract!SettleAll
<1> QED BY <1>2 DEF Contract!Next

\* Every step keeps the invariant, and is a step of the contract or none.
LEMMA NextIInv ==
    ASSUME ReadsAreSafe, AutoSettles, IInv, [Next]_vars
    PROVE  IInv' /\ [Contract!Next]_(Contract!vars)
<1>0. conf \in Configs /\ conf' = conf
  BY DEF IInv, TypeOK, Next, vars, ReadTuple, AnswerHeartbeat, ReadRaises,
         ProcessReturns, ProcessRaises, HandleException, ExitOrContinue, StormWentAway
<1> USE BoltAssumption, <1>0, ConfigFacts
<1> USE DEF IInv, TypeOK, CurrentOK, OnlyCurrentOpen, PCs, Status
<1>1. ASSUME NEW m \in Tuples, ReadTuple(m)
      PROVE  IInv' /\ [Contract!Next]_(Contract!vars)
  <2>1. /\ outcome' \in [Tuples -> Outcomes]
        /\ outcome'[m] = IF m \in Heartbeats THEN "beat" ELSE "open"
        /\ \A x \in Tuples \ {m} : outcome'[x] = outcome[x]
    BY <1>1 DEF ReadTuple, Take, Outcomes
  <2>2. IInv'
    BY <1>1, <2>1 DEF ReadTuple
  <2>3. Contract!Receive(m)
    BY <1>1 DEF ReadTuple, Take, Contract!Receive
  <2> QED BY <2>2, <2>3 DEF Contract!Next
<1>2. CASE AnswerHeartbeat
  <2>1. PICK m \in Tuples : currentTups = {m} /\ outcome[m] = "beat"
    BY <1>2 DEF AnswerHeartbeat
  <2>2. outcome' = [outcome EXCEPT ![m] = "synced"]
    BY <1>2, <2>1 DEF AnswerHeartbeat, Sync
  <2>3. IInv'
    BY <1>2, <2>1, <2>2 DEF AnswerHeartbeat, ResetCurrent, Outcomes
  <2>4. Contract!Answer(m)
    BY <1>2, <2>1, <2>2 DEF AnswerHeartbeat, Contract!Answer
  <2> QED BY <2>3, <2>4 DEF Contract!Next
<1>3. CASE ReadRaises
  BY <1>3, StutterStep DEF ReadRaises
<1>4. CASE ProcessReturns
  <2>1. PICK m \in Tuples : currentTups = {m} /\ outcome[m] = "open"
    BY <1>4 DEF ProcessReturns
  <2>2. outcome' = Settle(outcome, {m}, "acked") /\ pc = "process" /\ pc' = "read" /\ currentTups' = {}
    BY <1>4, <2>1 DEF ProcessReturns, Ack, ResetCurrent
  <2>3. IInv'
    BY <2>1, <2>2, SettleFacts
  <2> QED BY <2>1, <2>2, <2>3, SettleStep
<1>5. CASE ProcessRaises
  BY <1>5, StutterStep DEF ProcessRaises
<1>6. CASE HandleException
  <2>1. pc = "handle" /\ pc' = "handled" /\ currentTups' = currentTups
    BY <1>6 DEF HandleException
  <2>2. CASE currentTups = {}
    <3>1. outcome' = outcome
      BY <1>6, <2>2 DEF HandleException, FailCurrent, HasCurrent
    <3> QED BY <2>1, <2>2, <3>1, StutterStep
  <2>3. ASSUME NEW m \in Tuples, currentTups = {m}, outcome[m] = "open"
        PROVE  IInv' /\ [Contract!Next]_(Contract!vars)
    <3>1. outcome' = Settle(outcome, {m}, "failed")
      BY <1>6, <2>3 DEF HandleException, FailCurrent, HasCurrent, Fail
    <3>2. IInv'
      BY <2>1, <2>3, <3>1, SettleFacts
    <3> QED BY <2>1, <2>3, <3>1, <3>2, SettleStep
  <2> QED BY <2>1, <2>2, <2>3
<1>7. CASE ExitOrContinue
  <2>1. IInv'
    BY <1>7 DEF ExitOrContinue, AfterException
  <2>2. CASE conf.exitOnException
    <3>1. Contract!ExitOnError
      BY <1>7, <2>2 DEF ExitOrContinue, AfterException, Contract!ExitOnError
    <3> QED BY <2>1, <3>1 DEF Contract!Next
  <2>3. CASE ~conf.exitOnException
    BY <1>7, <2>1, <2>3, StutterStep DEF ExitOrContinue, AfterException
  <2> QED BY <2>2, <2>3
<1>8. CASE StormWentAway
  <2>1. Contract!StormGone
    BY <1>8 DEF StormWentAway, Contract!StormGone
  <2> QED BY <1>8, <2>1 DEF StormWentAway, Contract!Next
<1>9. CASE UNCHANGED vars
  BY <1>9, StutterStep DEF vars
<1> QED
  BY <1>1, <1>2, <1>3, <1>4, <1>5, <1>6, <1>7, <1>8, <1>9 DEF Next

LEMMA ContractInit == Init => Contract!Init
BY DEF Init, Contract!Init, Status

\* A Bolt with auto_ack and auto_fail keeps the contract: no tuple is settled
\* twice, no heartbeat at all, and nothing is open when it exits because of an
\* exception.
THEOREM KeepsContract ==
    ASSUME ReadsAreSafe, AutoSettles PROVE Spec => ImplementsSettlement
<1>1. IInv /\ [Next]_vars => IInv' /\ [Contract!Next]_(Contract!vars)
  BY NextIInv
<1> QED BY <1>1, InitIInv, ContractInit, PTL
        DEF Spec, ImplementsSettlement, Contract!Spec

=============================================================================
