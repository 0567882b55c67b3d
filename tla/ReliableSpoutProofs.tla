------------------------- MODULE ReliableSpoutProofs -------------------------
(***************************************************************************)
(* Theorems about ReliableSpout, for any ids, payloads and retry limit.    *)
(***************************************************************************)
EXTENDS ReliableSpout, TLAPS

\* An emit that raises ends the process, or no emit does.
EmitsAreSafe == \A c \in Configs : c.emitMayRaise => c.exitOnException

\* The dicts of the spout against what Storm holds: an id in flight is saved
\* with its payload, and only such an id has been counted.
DictsAgree ==
    \A i \in Ids :
        /\ outstanding[i] # NoPayload => unacked[i] = outstanding[i]
        /\ outstanding[i] = NoPayload => failures[i] = 0

\* If no entry can outlive an emit that raised, none is left over either.
NoLeak ==
    EmitsAreSafe =>
        /\ pc \in {"read", "next"} => unacked = outstanding
        /\ pc \in {"handle", "handled"} /\ ~conf.exitOnException => unacked = outstanding

IInv == TypeOK /\ DictsAgree /\ NoLeak /\ OneSyncPerCommand

LEMMA InitIInv == Init => IInv
BY ReliableSpoutAssumption
   DEF Init, IInv, TypeOK, DictsAgree, NoLeak, OneSyncPerCommand, PCs, Entries

LEMMA ConfigFacts ==
    ASSUME conf \in Configs
    PROVE  /\ conf.exitOnException \in BOOLEAN
           /\ EmitsAreSafe => (conf.emitMayRaise => conf.exitOnException)
BY ReliableSpoutAssumption DEF EmitsAreSafe

LEMMA ConfKept == ASSUME [Next]_vars PROVE conf' = conf
BY DEF Next, Resolved, vars, NextCommand, Acked, Failed, Emit, EmitRaises,
       NextRaises, NextReturns, HandleException, ExitOrContinue, StormWentAway

LEMMA NextIInv ==
    ASSUME IInv, [Next]_vars
    PROVE  IInv'
<1>0. conf \in Configs /\ conf' = conf
  BY ConfKept DEF IInv, TypeOK
<1> USE ReliableSpoutAssumption, <1>0, ConfigFacts
<1> USE DEF IInv, TypeOK, DictsAgree, NoLeak, OneSyncPerCommand, PCs, Entries,
            tracked
<1>1. CASE NextCommand
  BY <1>1 DEF NextCommand
<1>2. ASSUME NEW i \in Ids, Acked(i) PROVE IInv'
  <2>1. /\ outstanding' = [outstanding EXCEPT ![i] = NoPayload]
        /\ unacked' = [unacked EXCEPT ![i] = NoPayload]
        /\ failures' = [failures EXCEPT ![i] = 0]
        /\ pc = "read" /\ UNCHANGED <<pc, owed>>
    BY <1>2 DEF Acked, Forgotten, Uncounted
  <2>2. TypeOK' /\ OneSyncPerCommand'
    BY <2>1
  <2>3. DictsAgree'
    BY <2>1
  <2>4. NoLeak'
    BY <2>1
  <2> QED BY <2>2, <2>3, <2>4
<1>3. ASSUME NEW i \in Ids, Failed(i) PROVE IInv'
  <2>1. CASE MayReplay(i)
    BY <1>3, <2>1 DEF Failed, MayReplay, Counted
  <2>2. CASE ~MayReplay(i)
    BY <1>3, <2>2 DEF Failed, Forgotten, Uncounted
  <2> QED BY <2>1, <2>2
<1>4. ASSUME NEW i \in Ids, NEW p \in Payloads, Emit(i, p) PROVE IInv'
  BY <1>4 DEF Emit, Saved
<1>5. ASSUME NEW i \in Ids, NEW p \in Payloads, EmitRaises(i, p) PROVE IInv'
  BY <1>5 DEF EmitRaises, Saved
<1>6. CASE NextRaises
  BY <1>6 DEF NextRaises
<1>7. CASE NextReturns
  BY <1>7 DEF NextReturns
<1>8. CASE HandleException
  BY <1>8 DEF HandleException, SyncAfterError
<1>9. CASE ExitOrContinue
  BY <1>9 DEF ExitOrContinue
<1>10. CASE StormWentAway
  BY <1>10 DEF StormWentAway
<1>11. CASE UNCHANGED vars
  BY <1>11 DEF vars
<1> QED
  BY <1>1, <1>2, <1>3, <1>4, <1>5, <1>6, <1>7, <1>8, <1>9, <1>10, <1>11
     DEF Next, Resolved

LEMMA Invariance == Spec => []IInv
BY InitIInv, NextIInv, PTL DEF Spec

-----------------------------------------------------------------------------
\* Every variable stays in its range; no count in failed_tuples passes
\* max_fails.
THEOREM TypeCorrect == Spec => []TypeOK
<1>1. IInv => TypeOK
  BY DEF IInv
<1> QED BY <1>1, Invariance, PTL

\* Storm gets one sync per command, on every path through _run and the
\* exception handler.
THEOREM AlwaysOneSync == Spec => []OneSyncPerCommand
<1>1. IInv => OneSyncPerCommand
  BY DEF IInv
<1> QED BY <1>1, Invariance, PTL

\* unacked_tuples is exactly what Storm has not resolved, provided that an
\* emit that raises ends the process.
THEOREM HoldsExactlyUnresolved ==
    ASSUME EmitsAreSafe PROVE Spec => []HoldsUnresolved
<1>1. IInv => HoldsUnresolved
  BY DEF IInv, NoLeak, HoldsUnresolved
<1> QED BY <1>1, Invariance, PTL

-----------------------------------------------------------------------------
\* The initial state and the steps of the spout, as Replay sees them.
LEMMA ContractInit == Init => Contract!Init
BY DEF Init, Contract!Init, Attempts

LEMMA AttemptsOf ==
    /\ \A j \in Ids : Attempts[j] = IF outstanding[j] = NoPayload THEN 0
                                    ELSE failures[j] + 1
    /\ \A j \in Ids : Attempts'[j] = IF outstanding'[j] = NoPayload THEN 0
                                     ELSE failures'[j] + 1
BY DEF Attempts

LEMMA AttemptsStep ==
    ASSUME NEW i \in Ids, NEW n,
           Attempts'[i] = n,
           \A j \in Ids \ {i} : Attempts'[j] = Attempts[j]
    PROVE  Attempts' = [Attempts EXCEPT ![i] = n]
<1>1. Attempts' = [j \in Ids |-> Attempts'[j]]
  BY DEF Attempts
<1>2. DOMAIN Attempts = Ids
  BY DEF Attempts
<1> QED BY <1>1, <1>2

LEMMA ContractNext ==
    ASSUME IInv, IInv', [Next]_vars
    PROVE  [Contract!Next]_(Contract!vars)
<1> USE ReliableSpoutAssumption
<1> USE DEF IInv, TypeOK, Entries, DictsAgree, tracked
<1>1. ASSUME NEW i \in Ids, NEW p \in Payloads, Emit(i, p) PROVE Contract!Next
  <2>1. Attempts' = [Attempts EXCEPT ![i] = 1]
    <3>1. /\ outstanding' = [outstanding EXCEPT ![i] = p]
          /\ failures' = failures /\ failures[i] = 0
          /\ p # NoPayload
      BY <1>1 DEF Emit
    <3>2. Attempts'[i] = 1 /\ \A j \in Ids \ {i} : Attempts'[j] = Attempts[j]
      BY <3>1, AttemptsOf
    <3> QED BY <3>2, AttemptsStep
  <2>2. Contract!Emit(i, p)
    BY <1>1, <2>1 DEF Emit, Contract!Emit
  <2> QED BY <2>2 DEF Contract!Next
<1>2. ASSUME NEW i \in Ids, Acked(i) PROVE Contract!Next
  <2>1. Attempts' = [Attempts EXCEPT ![i] = 0]
    BY <1>2 DEF Acked, Uncounted, Attempts
  <2>2. Contract!Done(i)
    BY <1>2, <2>1 DEF Acked, Contract!Done
  <2> QED BY <2>2 DEF Contract!Next
<1>3. ASSUME NEW i \in Ids, Failed(i) PROVE Contract!Next
  <2>1. CASE MayReplay(i)
    <3>1. outstanding' = outstanding /\ failures' = [failures EXCEPT ![i] = @ + 1]
      BY <1>3, <2>1 DEF Failed, Counted
    <3>2. Attempts' = [Attempts EXCEPT ![i] = @ + 1] /\ Attempts[i] <= MaxFails
      <4>1. outstanding[i] # NoPayload /\ failures[i] < MaxFails
        BY <1>3, <2>1 DEF Failed, MayReplay
      <4>2. /\ Attempts[i] = failures[i] + 1
            /\ Attempts'[i] = Attempts[i] + 1
            /\ \A j \in Ids \ {i} : Attempts'[j] = Attempts[j]
        BY <3>1, <4>1, AttemptsOf
      <4> QED BY <4>1, <4>2, AttemptsStep
    <3>3. Contract!Retry(i)
      BY <1>3, <3>1, <3>2 DEF Failed, Contract!Retry
    <3> QED BY <3>3 DEF Contract!Next
  <2>2. CASE ~MayReplay(i)
    <3>1. /\ outstanding' = [outstanding EXCEPT ![i] = NoPayload]
          /\ failures' = [failures EXCEPT ![i] = 0]
      BY <1>3, <2>2 DEF Failed, Uncounted
    <3>2. Attempts' = [Attempts EXCEPT ![i] = 0]
      BY <3>1 DEF Attempts
    <3>3. Contract!Done(i)
      BY <1>3, <3>1, <3>2 DEF Failed, Contract!Done
    <3> QED BY <3>3 DEF Contract!Next
  <2> QED BY <2>1, <2>2
<1>4. ASSUME UNCHANGED <<outstanding, failures>> PROVE UNCHANGED Contract!vars
  BY <1>4 DEF Contract!vars, Attempts
<1>5. CASE \/ NextCommand \/ NextRaises \/ NextReturns \/ HandleException
           \/ ExitOrContinue \/ StormWentAway \/ UNCHANGED vars
           \/ \E i \in Ids, p \in Payloads : EmitRaises(i, p)
  BY <1>4, <1>5
     DEF NextCommand, NextRaises, NextReturns, HandleException, ExitOrContinue,
         StormWentAway, EmitRaises, vars
<1> QED BY <1>1, <1>2, <1>3, <1>5 DEF Next, Resolved

\* ReliableSpout implements Replay: a tuple is emitted at most max_fails + 1
\* times, always with its first payload, and an id used again starts afresh.
THEOREM KeepsReplayContract == Spec => ImplementsReplay
<1>1. IInv /\ IInv' /\ [Next]_vars => [Contract!Next]_(Contract!vars)
  BY ContractNext
<1> QED BY <1>1, ContractInit, Invariance, PTL
        DEF Spec, ImplementsReplay, Contract!Spec

=============================================================================
