--------------------------- MODULE MultilangProofs ----------------------------
(***************************************************************************)
(* Theorems about Multilang, for any number of threads, commands, emits    *)
(* and garbled messages, and a pipe of any length: the task IDs emit       *)
(* returns are its own, no command is lost, and a process whose main       *)
(* thread alone emits handles the commands in order.                       *)
(***************************************************************************)
EXTENDS Multilang, SequenceTheorems, TLAPS

Message == Commands \cup {Beat, Garbled} \cup TaskIds

-----------------------------------------------------------------------------
(***************************************************************************)
(* Sequences of messages.                                                  *)
(***************************************************************************)
LEMMA WithoutType ==
    ASSUME NEW S, NEW s \in Seq(S), NEW i \in DOMAIN s
    PROVE  /\ Without(s, i) \in Seq(S)
           /\ Len(Without(s, i)) = Len(s) - 1
           /\ \A j \in 1 .. (Len(s) - 1) :
                 Without(s, i)[j] = IF j < i THEN s[j] ELSE s[j + 1]
BY DEF Without

LEMMA WithoutIs ==
    ASSUME NEW S, NEW s \in Seq(S), NEW i \in DOMAIN s, NEW t \in Seq(S),
           Len(t) = Len(s) - 1,
           \A j \in 1 .. (Len(s) - 1) : t[j] = IF j < i THEN s[j] ELSE s[j + 1]
    PROVE  t = Without(s, i)
<1>1. /\ Without(s, i) \in Seq(S)
      /\ Len(t) = Len(Without(s, i))
      /\ \A j \in 1 .. Len(t) : t[j] = Without(s, i)[j]
  BY WithoutType
<1> QED BY <1>1, SeqEqual

\* Reading a message takes it out of the middle of what is unhandled, taking
\* one from the deque takes its head, and stashing one moves nothing.
LEMMA TailOfDeque ==
    ASSUME NEW S, NEW s \in Seq(S), NEW t \in Seq(S), s # <<>>
    PROVE  /\ Tail(s) \o t = Without(s \o t, 1)
           /\ 1 \in DOMAIN (s \o t) /\ (s \o t)[1] = Head(s)
<1>1. /\ s \o t \in Seq(S) /\ Tail(s) \o t \in Seq(S)
      /\ Len(s \o t) = Len(s) + Len(t) /\ Len(Tail(s) \o t) = Len(s \o t) - 1
      /\ Len(s) >= 1
  OBVIOUS
<1>2. 1 \in DOMAIN (s \o t) /\ (s \o t)[1] = Head(s)
  BY <1>1
<1>3. \A j \in 1 .. (Len(s \o t) - 1) : (Tail(s) \o t)[j] = (s \o t)[j + 1]
  BY <1>1
<1>4. \A j \in 1 .. (Len(s \o t) - 1) :
         (Tail(s) \o t)[j] = IF j < 1 THEN (s \o t)[j] ELSE (s \o t)[j + 1]
  BY <1>3
<1>5. Tail(s) \o t = Without(s \o t, 1)
  BY <1>1, <1>2, <1>4, WithoutIs
<1> QED BY <1>2, <1>5

LEMMA TailOfPipe ==
    ASSUME NEW S, NEW s \in Seq(S), NEW t \in Seq(S), t # <<>>
    PROVE  /\ s \o Tail(t) = Without(s \o t, Len(s) + 1)
           /\ Len(s) + 1 \in DOMAIN (s \o t) /\ (s \o t)[Len(s) + 1] = Head(t)
<1>1. /\ s \o t \in Seq(S) /\ s \o Tail(t) \in Seq(S)
      /\ Len(s \o t) = Len(s) + Len(t) /\ Len(s \o Tail(t)) = Len(s \o t) - 1
      /\ Len(t) >= 1
  OBVIOUS
<1>2. Len(s) + 1 \in DOMAIN (s \o t) /\ (s \o t)[Len(s) + 1] = Head(t)
  BY <1>1
<1>3. \A j \in 1 .. (Len(s \o t) - 1) :
         (s \o Tail(t))[j] = IF j < Len(s) + 1 THEN (s \o t)[j] ELSE (s \o t)[j + 1]
  BY <1>1
<1>4. s \o Tail(t) = Without(s \o t, Len(s) + 1)
  BY <1>1, <1>2, <1>3, WithoutIs
<1> QED BY <1>2, <1>4

LEMMA FromPipeToDeque ==
    ASSUME NEW S, NEW s \in Seq(S), NEW t \in Seq(S), t # <<>>
    PROVE  Append(s, Head(t)) \o Tail(t) = s \o t
OBVIOUS

LEMMA AppendToPipe ==
    ASSUME NEW S, NEW s \in Seq(S), NEW t \in Seq(S), NEW m \in S
    PROVE  s \o Append(t, m) = Append(s \o t, m)
OBVIOUS

-----------------------------------------------------------------------------
(***************************************************************************)
(* Types and locks.                                                        *)
(***************************************************************************)
HoldsReader(t) == pc[t] \in {"reading", "wantWriter", "send", "check", "await"}
HoldsWriter(t) == pc[t] \in {"send", "check", "await"}

\* Each lock is held by the thread that is where one holds it, and by no other.
Locked == \A t \in Threads : /\ HoldsReader(t) <=> reader = t
                             /\ HoldsWriter(t) <=> writer = t

Base == TypeOK /\ Locked

LEMMA ConfKept == ASSUME [Next]_vars PROVE conf' = conf
BY DEF Next, vars, TakePending, FindNonePending, LockToRead, ReadCommand,
       ReadTaskIds, StashTaskIds, Processed, Ack, StartEmit, TakeReader,
       TakeWriter, SendEmit, ReturnPending, AwaitTaskIds, ReturnRead,
       StashCommand, GoOn, ReadCommandRaises, SendRaises, AwaitRaises,
       StormAnswers, StormBeats, StormGarbles, StormSends

LEMMA HandleType ==
    ASSUME outstanding \in Seq(Commands), NEW m, Handle(m)
    PROVE  outstanding' \in Seq(Commands)
BY WithoutType DEF Handle

LEMMA NextSerial ==
    ASSUME NEW t \in Threads, NEW id \in TaskIds
    PROVE  <<t, (id[2] + 1) % Serials>> \in TaskIds
BY MultilangAssumption DEF TaskIds

LEMMA InitBase == Init => Base
<1> SUFFICES ASSUME Init PROVE Base
  OBVIOUS
<1> USE MultilangAssumption
<1>1. \A t \in Threads : <<t, 0>> \in TaskIds
  BY DEF TaskIds
<1>2. conf \in Configs /\ garbledLeft \in Nat
  BY DEF Init, Config
<1>3. pc \in [Threads -> PCs] /\ emit \in [Threads -> TaskIds] /\ hand \in TaskIds
  BY <1>1 DEF Init, PCs, Threads
<1>4. TypeOK
  BY <1>2, <1>3 DEF Init, TypeOK
<1>5. Locked
  BY DEF Init, Locked, HoldsReader, HoldsWriter
<1> QED BY <1>4, <1>5 DEF Base

\* Every action keeps the types, ...
LEMMA NextTypeOK == ASSUME TypeOK, [Next]_vars PROVE TypeOK'
<1> USE MultilangAssumption, ConfKept
    DEF TypeOK, PCs, Emitting, Threads, At, deques, locks, storm, emits
<1>1. CASE TakePending
  BY <1>1, HandleType DEF TakePending
<1>2. CASE FindNonePending
  BY <1>2 DEF FindNonePending
<1>3. CASE LockToRead
  BY <1>3 DEF LockToRead
<1>4. CASE ReadCommand
  <2>1. outstanding' \in Seq(Commands)
    BY <1>4, HandleType DEF ReadCommand
  <2>2. pipe' \in Seq(Commands \cup {Beat, Garbled} \cup TaskIds)
    BY <1>4 DEF ReadCommand
  <2> QED BY <1>4, <2>1, <2>2 DEF ReadCommand, Released
<1>5. CASE ReadTaskIds
  <2>1. /\ pipe' \in Seq(Commands \cup {Beat, Garbled} \cup TaskIds)
        /\ hand' \in TaskIds
    BY <1>5 DEF ReadTaskIds, IsTaskIds
  <2> QED BY <1>5, <2>1 DEF ReadTaskIds, Released
<1>6. CASE StashTaskIds
  BY <1>6 DEF StashTaskIds
<1>7. CASE Processed \/ Ack
  BY <1>7 DEF Processed, Ack
<1>8. ASSUME NEW t \in Threads, StartEmit(t) PROVE TypeOK'
  BY <1>8, NextSerial DEF StartEmit
<1>9. ASSUME NEW t \in Threads, TakeReader(t) \/ TakeWriter(t) PROVE TypeOK'
  <2>1. CASE TakeReader(t)
    BY <2>1 DEF TakeReader
  <2>2. CASE TakeWriter(t)
    BY <2>2 DEF TakeWriter
  <2> QED BY <1>9, <2>1, <2>2
<1>10. ASSUME NEW t \in Threads, SendEmit(t) PROVE TypeOK'
  BY <1>10 DEF SendEmit
<1>11. ASSUME NEW t \in Threads, AwaitTaskIds(t) \/ GoOn(t) PROVE TypeOK'
  BY <1>11 DEF AwaitTaskIds, GoOn
<1>12. ASSUME NEW t \in Threads, ReturnPending(t) PROVE TypeOK'
  BY <1>12 DEF ReturnPending, Return, LeaveLocks, Released
<1>13. ASSUME NEW t \in Threads, ReturnRead(t) PROVE TypeOK'
  <2>1. /\ pipe' \in Seq(Commands \cup {Beat, Garbled} \cup TaskIds)
        /\ result' \in [Threads -> TaskIds]
    BY <1>13 DEF ReturnRead, IsTaskIds, Return
  <2> QED BY <1>13, <2>1 DEF ReturnRead, Return, LeaveLocks, Released
<1>14. ASSUME NEW t \in Threads, StashCommand(t) PROVE TypeOK'
  <2>1. /\ pipe' \in Seq(Commands \cup {Beat, Garbled} \cup TaskIds)
        /\ pendingCommands' \in Seq(Commands \cup {Beat})
    BY <1>14 DEF StashCommand, IsCommand, Stashed
  <2> QED BY <1>14, <2>1 DEF StashCommand
<1>15. CASE ReadCommandRaises
  BY <1>15 DEF ReadCommandRaises, Released
<1>20. ASSUME NEW t \in Threads, SendRaises(t) \/ AwaitRaises(t) PROVE TypeOK'
  <2>1. CASE SendRaises(t)
    BY <2>1 DEF SendRaises, Caught, LeaveLocks, Released
  <2>2. CASE AwaitRaises(t)
    BY <2>2 DEF AwaitRaises, Caught, LeaveLocks, Released
  <2> QED BY <1>20, <2>1, <2>2
<1>21. CASE StormGarbles
  BY <1>21 DEF StormGarbles
<1>16. CASE StormAnswers
  BY <1>16 DEF StormAnswers
<1>17. CASE StormBeats
  BY <1>17 DEF StormBeats
<1>18. ASSUME NEW c \in Commands, StormSends(c) PROVE TypeOK'
  BY <1>18 DEF StormSends
<1>19. CASE UNCHANGED vars
  BY <1>19 DEF vars
<1> QED
  BY <1>1, <1>2, <1>3, <1>4, <1>5, <1>6, <1>7, <1>8, <1>9, <1>10, <1>11, <1>12,
     <1>13, <1>14, <1>15, <1>16, <1>17, <1>18, <1>19, <1>20, <1>21 DEF Next

\* ... and moves a lock together with the thread that takes or releases it.
LEMMA NextLocked == ASSUME Base, [Next]_vars PROVE Locked'
<1> USE MultilangAssumption
    DEF Base, TypeOK, Locked, HoldsReader, HoldsWriter, Emitting, Threads, At,
        Released, Free, deques, locks, storm, emits
<1>1. CASE TakePending \/ FindNonePending
  BY <1>1 DEF TakePending, FindNonePending
<1>2. CASE LockToRead
  BY <1>2 DEF LockToRead
<1>3. CASE ReadCommand \/ ReadTaskIds \/ ReadCommandRaises
  BY <1>3 DEF ReadCommand, ReadTaskIds, ReadCommandRaises
<1>4. CASE StashTaskIds \/ Processed \/ Ack
  BY <1>4 DEF StashTaskIds, Processed, Ack
<1>5. ASSUME NEW t \in Threads, StartEmit(t) PROVE Locked'
  BY <1>5 DEF StartEmit
<1>6. ASSUME NEW t \in Threads, TakeReader(t) PROVE Locked'
  BY <1>6 DEF TakeReader
<1>7. ASSUME NEW t \in Threads, TakeWriter(t) PROVE Locked'
  BY <1>7 DEF TakeWriter
<1>8. ASSUME NEW t \in Threads, SendEmit(t) \/ AwaitTaskIds(t) \/ GoOn(t) PROVE Locked'
  BY <1>8 DEF SendEmit, AwaitTaskIds, GoOn
<1>9. ASSUME NEW t \in Threads, ReturnPending(t) \/ ReturnRead(t) PROVE Locked'
  BY <1>9 DEF ReturnPending, ReturnRead, Return, LeaveLocks
<1>10. ASSUME NEW t \in Threads, StashCommand(t) PROVE Locked'
  BY <1>10 DEF StashCommand
<1>11. ASSUME NEW t \in Threads, SendRaises(t) \/ AwaitRaises(t) PROVE Locked'
  BY <1>11 DEF SendRaises, AwaitRaises, Caught, LeaveLocks
<1>12. CASE StormAnswers \/ StormBeats \/ StormGarbles
  BY <1>12 DEF StormAnswers, StormBeats, StormGarbles
<1>13. ASSUME NEW c \in Commands, StormSends(c) PROVE Locked'
  BY <1>13 DEF StormSends
<1>14. CASE UNCHANGED vars
  BY <1>14 DEF vars
<1> QED
  BY <1>1, <1>2, <1>3, <1>4, <1>5, <1>6, <1>7, <1>8, <1>9, <1>10, <1>11,
     <1>12, <1>13, <1>14 DEF Next

LEMMA BaseInvariant == Spec => []Base
<1>1. Base /\ [Next]_vars => Base'
  BY NextTypeOK, NextLocked DEF Base
<1> QED BY <1>1, InitBase, PTL DEF Spec

-----------------------------------------------------------------------------
(***************************************************************************)
(* Task IDs.                                                               *)
(***************************************************************************)
NoIds(s) == \A i \in DOMAIN s : s[i] \notin TaskIds
OnlyId(s, id) == \E i \in DOMAIN s :
                     /\ s[i] = id
                     /\ \A j \in DOMAIN s \ {i} : s[j] \notin TaskIds

LEMMA IdsAfterAppend ==
    ASSUME NEW S, NEW s \in Seq(S), NEW m \in S
    PROVE  /\ m \notin TaskIds =>
                 /\ NoIds(s) => NoIds(Append(s, m))
                 /\ \A id \in TaskIds : OnlyId(s, id) => OnlyId(Append(s, m), id)
           /\ NoIds(s) => OnlyId(Append(s, m), m)
<1>1. /\ DOMAIN Append(s, m) = DOMAIN s \cup {Len(s) + 1}
      /\ \A i \in DOMAIN s : Append(s, m)[i] = s[i]
      /\ Append(s, m)[Len(s) + 1] = m
      /\ Len(s) + 1 \notin DOMAIN s
  OBVIOUS
<1> HIDE DEF TaskIds
<1> QED BY <1>1 DEF NoIds, OnlyId

LEMMA IdsAfterTail ==
    ASSUME NEW S, NEW s \in Seq(S), s # <<>>
    PROVE  /\ NoIds(s) => NoIds(Tail(s)) /\ Head(s) \notin TaskIds
           /\ \A id \in TaskIds : OnlyId(s, id) =>
                 IF Head(s) \in TaskIds THEN Head(s) = id /\ NoIds(Tail(s))
                 ELSE OnlyId(Tail(s), id)
<1>1. /\ Head(s) = s[1] /\ 1 \in DOMAIN s
      /\ \A i \in DOMAIN Tail(s) : i + 1 \in DOMAIN s /\ i + 1 # 1 /\ Tail(s)[i] = s[i + 1]
      /\ \A i \in DOMAIN s \ {1} : i - 1 \in DOMAIN Tail(s) /\ Tail(s)[i - 1] = s[i]
  OBVIOUS
<1>2. NoIds(s) => NoIds(Tail(s)) /\ Head(s) \notin TaskIds
  BY <1>1 DEF NoIds
<1>3. ASSUME NEW id \in TaskIds, NEW i \in DOMAIN s, s[i] = id,
             \A j \in DOMAIN s \ {i} : s[j] \notin TaskIds
      PROVE  IF Head(s) \in TaskIds THEN Head(s) = id /\ NoIds(Tail(s))
             ELSE OnlyId(Tail(s), id)
  <2>1. CASE i = 1
    BY <1>1, <1>3, <2>1 DEF NoIds
  <2>2. CASE i # 1
    <3>1. /\ i - 1 \in DOMAIN Tail(s) /\ Tail(s)[i - 1] = id
          /\ Head(s) \notin TaskIds
      BY <1>1, <1>3, <2>2
    <3>2. \A j \in DOMAIN Tail(s) \ {i - 1} : Tail(s)[j] \notin TaskIds
      <4> SUFFICES ASSUME NEW j \in DOMAIN Tail(s), j # i - 1
                   PROVE  Tail(s)[j] \notin TaskIds
        OBVIOUS
      <4>1. j + 1 \in DOMAIN s /\ j + 1 # i /\ Tail(s)[j] = s[j + 1]
        BY <1>1
      <4> QED BY <1>3, <4>1
    <3> QED BY <3>1, <3>2 DEF OnlyId
  <2> QED BY <2>1, <2>2
<1> QED BY <1>2, <1>3 DEF OnlyId

Awaits(t) == pc[t] \in {"check", "await"}

\* Unless there are garbled messages, an answer is under way only while a thread
\* waits for it, with both locks held: it is yet to be given, or in the
\* pipe.  So read_command never comes across task IDs, and the deque for them
\* stays empty.
Answered ==
    conf.garbled = 0 =>
        /\ garbledLeft = 0 /\ (\A i \in DOMAIN pipe : pipe[i] # Garbled)
        /\ pc[Main] # "stash" /\ pendingTaskIds = <<>>
        /\ (\A t \in Threads : ~Awaits(t)) => asked = <<>> /\ NoIds(pipe)
        /\ \A t \in Threads : Awaits(t) =>
              \/ asked = <<emit[t]>> /\ NoIds(pipe)
              \/ asked = <<>> /\ OnlyId(pipe, emit[t])
        /\ \A t \in Threads : pc[t] = "returned" => result[t] = emit[t]

LEMMA InitAnswered == Init => Answered
<1> SUFFICES ASSUME Init PROVE Answered
  OBVIOUS
<1>1. NoIds(pipe)
  BY DEF Init, NoIds
<1>2. \A t \in Threads : pc[t] \in {"idle", "run"}
  BY DEF Init
<1>3. \A t \in Threads : ~Awaits(t)
  BY <1>2 DEF Awaits
<1>4. pc[Main] # "stash"
  BY <1>2 DEF Threads
<1>5. /\ asked = <<>> /\ pendingTaskIds = <<>>
      /\ \A i \in DOMAIN pipe : pipe[i] # Garbled
      /\ conf.garbled = 0 => garbledLeft = 0
  BY DEF Init
<1>6. \A t \in Threads : pc[t] # "returned"
  BY <1>2
<1> QED BY <1>1, <1>3, <1>4, <1>5, <1>6 DEF Answered

LEMMA NextAnswered == ASSUME Base, Answered, [Next]_vars PROVE Answered'
<1> SUFFICES ASSUME conf.garbled = 0 PROVE Answered'
  BY ConfKept DEF Answered
<1> USE MultilangAssumption, ConfKept
    DEF Answered, Base, TypeOK, Threads, At, deques, locks, storm, emits
<1>0. \A t, u \in Threads : Awaits(t) /\ (Awaits(u) \/ HoldsReader(u)) => t = u
  BY DEF Locked, HoldsReader, Awaits
<1>1. CASE TakePending \/ FindNonePending
  BY <1>1 DEF TakePending, FindNonePending, Awaits
<1>2. CASE LockToRead
  BY <1>2 DEF LockToRead, Awaits
<1>3. CASE ReadCommand
  BY <1>0, <1>3, IdsAfterTail DEF ReadCommand, IsCommand, Awaits, HoldsReader
<1>4. CASE ReadTaskIds
  BY <1>0, <1>4, IdsAfterTail DEF ReadTaskIds, IsTaskIds, Awaits, HoldsReader
<1>5. CASE StashTaskIds \/ Processed \/ Ack
  BY <1>5 DEF StashTaskIds, Processed, Ack, Awaits
<1>6. ASSUME NEW t \in Threads, StartEmit(t) PROVE Answered'
  BY <1>6 DEF StartEmit, Awaits
<1>7. ASSUME NEW t \in Threads, TakeReader(t) \/ TakeWriter(t) PROVE Answered'
  BY <1>7 DEF TakeReader, TakeWriter, Awaits
<1>8. ASSUME NEW t \in Threads, SendEmit(t) PROVE Answered'
  <2>1. \A u \in Threads : ~Awaits(u)
    BY <1>0, <1>8 DEF SendEmit, Awaits, HoldsReader
  <2>2. asked = <<>> /\ NoIds(pipe)
    BY <2>1
  <2>3. asked' = <<emit[t]>>
    BY <1>8, <2>2 DEF SendEmit
  <2> QED BY <1>8, <2>1, <2>2, <2>3 DEF SendEmit, Awaits
<1>9. ASSUME NEW t \in Threads, ReturnPending(t) PROVE Answered'
  BY <1>9 DEF ReturnPending
<1>10. ASSUME NEW t \in Threads, AwaitTaskIds(t) \/ GoOn(t) PROVE Answered'
  BY <1>10 DEF AwaitTaskIds, GoOn, Awaits
<1>11. ASSUME NEW t \in Threads, ReturnRead(t) PROVE Answered'
  BY <1>0, <1>11, IdsAfterTail DEF ReturnRead, IsTaskIds, Return, LeaveLocks, Awaits
<1>12. ASSUME NEW t \in Threads, StashCommand(t) PROVE Answered'
  BY <1>0, <1>12, IdsAfterTail DEF StashCommand, IsCommand, Awaits
<1>13. CASE ReadCommandRaises
  BY <1>0, <1>13, IdsAfterTail DEF ReadCommandRaises, Awaits, HoldsReader
<1>17. ASSUME NEW t \in Threads, SendRaises(t) PROVE Answered'
  BY <1>17 DEF SendRaises, Caught, LeaveLocks, Awaits
<1>14. CASE StormAnswers
  <2>1. /\ asked # <<>> /\ asked' = Tail(asked) /\ pipe' = Append(pipe, Head(asked))
        /\ UNCHANGED <<garbledLeft, pc, pendingTaskIds, emit, result>>
    BY <1>14 DEF StormAnswers
  <2>2. PICK t \in Threads : Awaits(t) /\ asked = <<emit[t]>> /\ NoIds(pipe)
    BY <2>1
  <2>3. asked' = <<>> /\ OnlyId(pipe', emit[t])
    BY <2>1, <2>2, IdsAfterAppend
  <2>4. \A u \in Threads : Awaits(u) => u = t
    BY <1>0, <2>2
  <2> QED BY <2>1, <2>2, <2>3, <2>4 DEF Awaits
<1>15. ASSUME NEW m \in Commands \cup {Beat}, (StormBeats /\ m = Beat) \/ StormSends(m)
       PROVE  Answered'
  <2>1. /\ pipe' = Append(pipe, m)
        /\ UNCHANGED <<garbledLeft, pc, pendingTaskIds, emit, result, asked>>
    BY <1>15 DEF StormBeats, StormSends
  <2>2. m \notin TaskIds /\ m \in Commands \cup {Beat, Garbled} \cup TaskIds
    OBVIOUS
  <2>3. /\ NoIds(pipe) => NoIds(pipe')
        /\ \A t \in Threads : OnlyId(pipe, emit[t]) => OnlyId(pipe', emit[t])
    BY <2>1, <2>2, IdsAfterAppend
  <2>4. \A i \in DOMAIN pipe' : pipe'[i] # Garbled
    BY <2>1
  <2> QED BY <2>1, <2>3, <2>4 DEF Awaits
<1>18. CASE StormGarbles
  BY <1>18 DEF StormGarbles
<1>19. ASSUME NEW t \in Threads, AwaitRaises(t) PROVE FALSE
  BY <1>19 DEF AwaitRaises
<1>16. CASE UNCHANGED vars
  BY <1>16 DEF vars, Awaits
<1> QED
  BY <1>1, <1>2, <1>3, <1>4, <1>5, <1>6, <1>7, <1>8, <1>9, <1>10, <1>11,
     <1>12, <1>13, <1>14, <1>15, <1>16, <1>17, <1>18, <1>19 DEF Next

\* An emit that does not raise returns the task IDs of its own tuple,
\* whatever the other threads emit and the main thread reads: they carry no
\* request id, and only the two locks keep the halves of an emit together.
THEOREM IdsAlwaysMatch == Spec => []IdsMatch
<1>1. Answered => IdsMatch
  BY DEF Answered, IdsMatch
<1>2. Base /\ Answered /\ [Next]_vars => Answered'
  BY NextAnswered
<1> QED BY <1>1, <1>2, InitAnswered, BaseInvariant, PTL DEF Spec

-----------------------------------------------------------------------------
(***************************************************************************)
(* Commands.  u stands for what is unhandled, o for what is outstanding.   *)
(***************************************************************************)
In(c, s) == \E i \in DOMAIN s : s[i] = c
Once(s) == \A i, j \in DOMAIN s : s[i] \in Commands /\ s[i] = s[j] => i = j

\* The commands of u are those of o, each of them once in both.
Same(u, o) == /\ \A c \in Commands : In(c, u) <=> In(c, o)
              /\ Once(u) /\ Once(o)

\* They are in the same order.
Ordered(u, o) == \A p, q \in DOMAIN u, i, j \in DOMAIN o :
                     p < q /\ u[p] = o[i] /\ u[q] = o[j] => i < j

\* Where the commands of a sequence without the one at position k are.
LEMMA InWithout ==
    ASSUME NEW S, NEW s \in Seq(S), NEW k \in DOMAIN s
    PROVE  /\ \A c : In(c, Without(s, k)) => In(c, s)
           /\ \A c : In(c, s) /\ c # s[k] => In(c, Without(s, k))
           /\ Once(s) => /\ Once(Without(s, k))
                         /\ s[k] \in Commands => ~In(s[k], Without(s, k))
<1> DEFINE w == Without(s, k)
           up(j) == IF j < k THEN j ELSE j + 1
           down(i) == IF i < k THEN i ELSE i - 1
<1>1. DOMAIN w = 1 .. (Len(s) - 1) /\ DOMAIN s = 1 .. Len(s) /\ Len(s) \in Nat
  BY WithoutType
<1>2. \A j \in DOMAIN w : up(j) \in DOMAIN s /\ up(j) # k /\ w[j] = s[up(j)]
  BY <1>1 DEF Without
<1>3. \A i \in DOMAIN s \ {k} : down(i) \in DOMAIN w /\ up(down(i)) = i
  BY <1>1
<1>4. \A i, j \in DOMAIN w : up(i) = up(j) => i = j
  BY <1>1
<1> HIDE DEF w, up, down
<1>5. \A i \in DOMAIN s \ {k} : w[down(i)] = s[i]
  BY <1>2, <1>3
<1>6. /\ \A c : In(c, w) => In(c, s)
      /\ \A c : In(c, s) /\ c # s[k] => In(c, w)
  BY <1>2, <1>3, <1>5 DEF In
<1>7. Once(s) => Once(w)
  BY <1>2, <1>4 DEF Once
<1>8. Once(s) /\ s[k] \in Commands => ~In(s[k], w)
  BY <1>2 DEF Once, In
<1> QED BY <1>6, <1>7, <1>8 DEF w

\* A message read is gone from both, or is none that Storm waits for.
LEMMA SameWithout ==
    ASSUME NEW S, NEW u \in Seq(S), NEW o \in Seq(Commands), Same(u, o),
           NEW k \in DOMAIN u
    PROVE  /\ u[k] \notin Commands => Same(Without(u, k), o)
           /\ \A l \in DOMAIN o : o[l] = u[k] => Same(Without(u, k), Without(o, l))
<1>1. ASSUME u[k] \notin Commands PROVE Same(Without(u, k), o)
  BY <1>1, InWithout DEF Same
<1>2. ASSUME NEW l \in DOMAIN o, o[l] = u[k] PROVE Same(Without(u, k), Without(o, l))
  <2>1. o[l] \in Commands
    OBVIOUS
  <2> QED BY <1>2, <2>1, InWithout DEF Same
<1> QED BY <1>1, <1>2

LEMMA SameAppend ==
    ASSUME NEW S, NEW u \in Seq(S), NEW o \in Seq(Commands), Same(u, o), NEW m \in S
    PROVE  /\ m \notin Commands => Same(Append(u, m), o)
           /\ m \in Commands /\ ~In(m, o) => Same(Append(u, m), Append(o, m))
<1>1. ASSUME NEW T, NEW s \in Seq(T), NEW x \in T
      PROVE  /\ \A c : In(c, Append(s, x)) <=> In(c, s) \/ c = x
             /\ Once(s) /\ (x \in Commands => ~In(x, s)) => Once(Append(s, x))
  <2>1. /\ DOMAIN Append(s, x) = DOMAIN s \cup {Len(s) + 1}
        /\ \A i \in DOMAIN s : Append(s, x)[i] = s[i]
        /\ Append(s, x)[Len(s) + 1] = x
    OBVIOUS
  <2> QED BY <2>1 DEF In, Once
<1>2. ASSUME m \notin Commands PROVE Same(Append(u, m), o)
  BY <1>1, <1>2 DEF Same
<1>3. ASSUME m \in Commands, ~In(m, o) PROVE Same(Append(u, m), Append(o, m))
  BY <1>1, <1>3 DEF Same
<1> QED BY <1>2, <1>3

LEMMA OrderedWithout ==
    ASSUME NEW S, NEW u \in Seq(S), NEW o \in Seq(Commands), Ordered(u, o),
           NEW k \in DOMAIN u
    PROVE  /\ Ordered(Without(u, k), o)
           /\ \A l \in DOMAIN o : Ordered(Without(u, k), Without(o, l))
<1>1. ASSUME NEW T, NEW s \in Seq(T), NEW h \in DOMAIN s
      PROVE  \A i, j \in DOMAIN Without(s, h) : \E a, b \in DOMAIN s :
                /\ Without(s, h)[i] = s[a] /\ Without(s, h)[j] = s[b]
                /\ i < j <=> a < b
  <2> TAKE i, j \in DOMAIN Without(s, h)
  <2> DEFINE up(n) == IF n < h THEN n ELSE n + 1
  <2>1. up(i) \in DOMAIN s /\ up(j) \in DOMAIN s /\ (i < j <=> up(i) < up(j))
    BY DEF Without
  <2>2. Without(s, h)[i] = s[up(i)] /\ Without(s, h)[j] = s[up(j)]
    BY DEF Without
  <2> QED BY <2>1, <2>2
<1>2. Ordered(Without(u, k), o)
  <2> SUFFICES ASSUME NEW p \in DOMAIN Without(u, k), NEW q \in DOMAIN Without(u, k),
                      NEW i \in DOMAIN o, NEW j \in DOMAIN o,
                      p < q, Without(u, k)[p] = o[i], Without(u, k)[q] = o[j]
               PROVE  i < j
    BY DEF Ordered
  <2>1. PICK a, b \in DOMAIN u : /\ Without(u, k)[p] = u[a] /\ Without(u, k)[q] = u[b]
                                 /\ p < q <=> a < b
    BY <1>1
  <2> QED BY <2>1 DEF Ordered
<1>3. ASSUME NEW l \in DOMAIN o PROVE Ordered(Without(u, k), Without(o, l))
  <2> SUFFICES ASSUME NEW p \in DOMAIN Without(u, k), NEW q \in DOMAIN Without(u, k),
                      NEW i \in DOMAIN Without(o, l), NEW j \in DOMAIN Without(o, l),
                      p < q, Without(u, k)[p] = Without(o, l)[i],
                      Without(u, k)[q] = Without(o, l)[j]
               PROVE  i < j
    BY DEF Ordered
  <2>1. PICK a, b \in DOMAIN u : /\ Without(u, k)[p] = u[a] /\ Without(u, k)[q] = u[b]
                                 /\ p < q <=> a < b
    BY <1>1
  <2>2. PICK c, d \in DOMAIN o : /\ Without(o, l)[i] = o[c] /\ Without(o, l)[j] = o[d]
                                 /\ i < j <=> c < d
    BY <1>1, <1>3
  <2> QED BY <2>1, <2>2 DEF Ordered
<1> QED BY <1>2, <1>3

LEMMA OrderedAppend ==
    ASSUME NEW S, NEW u \in Seq(S), NEW o \in Seq(Commands),
           Same(u, o), Ordered(u, o), NEW m \in S
    PROVE  /\ m \notin Commands => Ordered(Append(u, m), o)
           /\ m \in Commands /\ ~In(m, o) => Ordered(Append(u, m), Append(o, m))
<1>1. ASSUME NEW T, NEW s \in Seq(T), NEW x \in T
      PROVE  /\ DOMAIN Append(s, x) = DOMAIN s \cup {Len(s) + 1}
             /\ \A i \in DOMAIN s : Append(s, x)[i] = s[i] /\ i < Len(s) + 1 /\ i \in Nat
             /\ Append(s, x)[Len(s) + 1] = x
             /\ Len(s) \in Nat
  OBVIOUS
<1>2. ASSUME m \notin Commands PROVE Ordered(Append(u, m), o)
  <2>1. \A i \in DOMAIN o : o[i] \in Commands
    OBVIOUS
  <2> QED BY <1>1, <1>2, <2>1 DEF Ordered
<1>3. ASSUME m \in Commands, ~In(m, o) PROVE Ordered(Append(u, m), Append(o, m))
  <2>1. (\A p \in DOMAIN u : u[p] # m) /\ (\A i \in DOMAIN o : o[i] # m)
    BY <1>3 DEF Same, In
  <2> QED BY <1>1, <1>3, <2>1 DEF Ordered
<1> QED BY <1>2, <1>3

\* What is first in u is first in o.
LEMMA FirstIsFirst ==
    ASSUME NEW S, NEW u \in Seq(S), NEW o \in Seq(Commands),
           Same(u, o), Ordered(u, o), 1 \in DOMAIN u, NEW l \in DOMAIN o, o[l] = u[1]
    PROVE  Without(o, l) = Tail(o)
<1>1. l = 1
  <2> SUFFICES ASSUME l # 1 PROVE FALSE
    OBVIOUS
  <2>1. 1 \in DOMAIN o /\ 1 < l /\ o[1] \in Commands
    OBVIOUS
  <2>2. PICK q \in DOMAIN u : u[q] = o[1]
    BY <2>1 DEF Same, In
  <2>3. q = 1 \/ 1 < q
    OBVIOUS
  <2>4. CASE q = 1
    BY <2>1, <2>2, <2>4 DEF Same, Once
  <2>5. CASE 1 < q
    BY <2>1, <2>2, <2>5 DEF Ordered
  <2> QED BY <2>3, <2>4, <2>5
<1>2. /\ Tail(o) \in Seq(Commands) /\ Len(Tail(o)) = Len(o) - 1
      /\ \A j \in 1 .. (Len(o) - 1) : Tail(o)[j] = IF j < l THEN o[j] ELSE o[j + 1]
  BY <1>1
<1> QED BY <1>2, WithoutIs

\* What a step does with the message at position k of what is unhandled, and
\* with the commands that are outstanding.
Takes(k) ==
    /\ Unhandled' = Without(Unhandled, k)
    /\ \/ Unhandled[k] \notin Commands /\ outstanding' = outstanding
       \/ \E l \in DOMAIN outstanding : /\ outstanding[l] = Unhandled[k]
                                        /\ outstanding' = Without(outstanding, l)
Sends(m) ==
    /\ Unhandled' = Append(Unhandled, m)
    /\ \/ m \notin Commands /\ outstanding' = outstanding
       \/ m \in Commands /\ ~In(m, outstanding) /\ outstanding' = Append(outstanding, m)

LEMMA HandleTakes ==
    ASSUME Base, Same(Unhandled, outstanding), NEW k \in DOMAIN Unhandled,
           Handle(Unhandled[k]), Unhandled' = Without(Unhandled, k)
    PROVE  Takes(k)
BY DEF Handle, Takes, Same, In

\* A step takes a message or sends one, or what is unhandled and outstanding
\* stays as it is.  A command is taken from the head, unless the main thread
\* takes it off the pipe while there are others in the deque.
LEMMA Moves ==
    ASSUME Base, Same(Unhandled, outstanding), [Next]_vars
    PROVE  \/ Unhandled' = Unhandled /\ outstanding' = outstanding
           \/ \E k \in DOMAIN Unhandled :
                 /\ Takes(k)
                 /\ Unhandled[k] \in Commands => \/ k = 1
                                                 \/ pc[Main] = "reading" /\ pendingCommands # <<>>
           \/ \E m \in Message : Sends(m)
<1> DEFINE Stays == Unhandled' = Unhandled /\ outstanding' = outstanding
           Goal == \/ Stays
                   \/ \E k \in DOMAIN Unhandled :
                         /\ Takes(k)
                         /\ Unhandled[k] \in Commands =>
                               \/ k = 1
                               \/ pc[Main] = "reading" /\ pendingCommands # <<>>
                   \/ \E m \in Message : Sends(m)
<1> USE MultilangAssumption DEF deques, locks, storm, emits
<1>0. /\ pendingCommands \in Seq(Message) /\ pipe \in Seq(Message)
      /\ TaskIds \cap Commands = {} /\ TaskIds \subseteq Message
      /\ {Beat, Garbled} \subseteq Message \ Commands /\ Commands \subseteq Message
  BY DEF Base, TypeOK, Message
<1>1. CASE TakePending
  <2>1. /\ Unhandled' = Without(Unhandled, 1)
        /\ 1 \in DOMAIN Unhandled /\ Unhandled[1] = Head(pendingCommands)
    BY <1>0, <1>1, TailOfDeque DEF TakePending, Unhandled
  <2>2. Takes(1)
    BY <1>1, <2>1, HandleTakes DEF TakePending
  <2> QED BY <2>1, <2>2
<1>2. CASE ReadCommand
  <2> DEFINE k == Len(pendingCommands) + 1
  <2>1. /\ Unhandled' = Without(Unhandled, k)
        /\ k \in DOMAIN Unhandled /\ Unhandled[k] = Head(pipe)
    BY <1>0, <1>2, TailOfPipe DEF ReadCommand, Unhandled
  <2>2. Takes(k)
    BY <1>2, <2>1, HandleTakes DEF ReadCommand
  <2>3. pc[Main] = "reading"
    BY <1>2 DEF ReadCommand, At
  <2>4. CASE pendingCommands = <<>>
    <3>1. k = 1
      BY <2>4
    <3> QED BY <2>1, <2>2, <3>1
  <2>5. CASE pendingCommands # <<>>
    BY <2>1, <2>2, <2>3, <2>5
  <2> QED BY <2>4, <2>5
<1>3. ASSUME pipe # <<>>, ~IsCommand(Head(pipe)), pipe' = Tail(pipe),
             pendingCommands' = pendingCommands, outstanding' = outstanding
      PROVE  Goal
  <2> DEFINE k == Len(pendingCommands) + 1
  <2>1. /\ Unhandled' = Without(Unhandled, k)
        /\ k \in DOMAIN Unhandled /\ Unhandled[k] = Head(pipe)
    BY <1>0, <1>3, TailOfPipe DEF Unhandled
  <2>2. Takes(k) /\ Unhandled[k] \notin Commands
    BY <1>0, <1>3, <2>1 DEF Takes, IsCommand
  <2> QED BY <2>1, <2>2
<1>4. ASSUME NEW m \in Message, pipe' = Append(pipe, m),
             pendingCommands' = pendingCommands,
             \/ m \notin Commands /\ outstanding' = outstanding
             \/ m \in Commands /\ ~In(m, outstanding) /\ outstanding' = Append(outstanding, m)
      PROVE  Goal
  <2>1. Unhandled' = Append(Unhandled, m)
    BY <1>0, <1>4, AppendToPipe DEF Unhandled
  <2>2. Sends(m)
    BY <1>4, <2>1 DEF Sends
  <2> QED BY <2>2
<1>5. ASSUME UNCHANGED <<pendingCommands, pipe, outstanding>> PROVE Goal
  BY <1>5 DEF Unhandled
<1>6. CASE FindNonePending \/ LockToRead \/ StashTaskIds \/ Processed \/ Ack
  BY <1>5, <1>6 DEF FindNonePending, LockToRead, StashTaskIds, Processed, Ack
<1>7. CASE ReadTaskIds \/ ReadCommandRaises
  BY <1>3, <1>7 DEF ReadTaskIds, IsTaskIds, ReadCommandRaises, IsCommand
<1>8. ASSUME NEW t \in Threads,
             \/ StartEmit(t) \/ TakeReader(t) \/ TakeWriter(t) \/ SendEmit(t)
             \/ ReturnPending(t) \/ AwaitTaskIds(t) \/ GoOn(t) \/ SendRaises(t)
      PROVE  Goal
  BY <1>5, <1>8 DEF StartEmit, TakeReader, TakeWriter, SendEmit, ReturnPending,
                    AwaitTaskIds, GoOn, SendRaises
<1>9. ASSUME NEW t \in Threads, ReturnRead(t) \/ AwaitRaises(t) PROVE Goal
  BY <1>3, <1>9 DEF ReturnRead, IsTaskIds, AwaitRaises, IsCommand
<1>10. ASSUME NEW t \in Threads, StashCommand(t) PROVE Goal
  BY <1>0, <1>10, FromPipeToDeque DEF StashCommand, Stashed, Unhandled
<1>11. CASE StormGarbles
  BY <1>0, <1>4, <1>11 DEF StormGarbles
<1>12. CASE StormAnswers
  <2>1. Head(asked) \in TaskIds
    BY <1>12 DEF StormAnswers, Base, TypeOK
  <2> QED BY <1>0, <1>4, <1>12, <2>1 DEF StormAnswers
<1>13. CASE StormBeats
  BY <1>0, <1>4, <1>13 DEF StormBeats
<1>14. ASSUME NEW c \in Commands, StormSends(c) PROVE Goal
  BY <1>0, <1>4, <1>14 DEF StormSends, In
<1>15. CASE UNCHANGED vars
  BY <1>5, <1>15 DEF vars
<1> QED
  BY <1>1, <1>2, <1>6, <1>7, <1>8, <1>9, <1>10, <1>11, <1>12, <1>13, <1>14,
     <1>15 DEF Next

CInv == Base /\ Same(Unhandled, outstanding) /\ Ordered(Unhandled, outstanding)

LEMMA InitCInv == Init => CInv
<1> SUFFICES ASSUME Init PROVE CInv
  OBVIOUS
<1>1. DOMAIN Unhandled = {} /\ DOMAIN outstanding = {}
  BY DEF Init, Unhandled
<1> QED BY <1>1, InitBase DEF CInv, Same, Ordered, Once, In

LEMMA NextCInv == ASSUME CInv, Base', [Next]_vars PROVE CInv'
<1> USE DEF CInv
<1>1. /\ Unhandled \in Seq(Message) /\ Unhandled' \in Seq(Message)
      /\ outstanding \in Seq(Commands)
  BY DEF Base, TypeOK, Unhandled, Message
<1> DEFINE Goal == Same(Unhandled', outstanding') /\ Ordered(Unhandled', outstanding')
<1>2. CASE Unhandled' = Unhandled /\ outstanding' = outstanding
  BY <1>2
<1>3. ASSUME NEW k \in DOMAIN Unhandled, Takes(k) PROVE Goal
  <2>1. CASE Unhandled[k] \notin Commands /\ outstanding' = outstanding
    BY <1>1, <1>3, <2>1, SameWithout, OrderedWithout DEF Takes
  <2>2. ASSUME NEW l \in DOMAIN outstanding, outstanding[l] = Unhandled[k],
               outstanding' = Without(outstanding, l)
        PROVE  Goal
    BY <1>1, <1>3, <2>2, SameWithout, OrderedWithout DEF Takes
  <2> QED BY <1>3, <2>1, <2>2 DEF Takes
<1>4. ASSUME NEW m \in Message, Sends(m) PROVE Goal
  BY <1>1, <1>4, SameAppend, OrderedAppend DEF Sends
<1>5. Goal
  BY <1>2, <1>3, <1>4, Moves
<1> QED BY <1>5

LEMMA Tracking == Spec => []CInv
<1>1. CInv /\ Base' /\ [Next]_vars => CInv'
  BY NextCInv
<1> QED BY <1>1, InitCInv, BaseInvariant, PTL DEF Spec

\* Each command Storm waits for is in the pipe or in the deque, once, and no
\* other is, however many threads read past the commands and whatever raises in
\* between: none is swallowed, and none is handed out twice.
THEOREM NeverLost == Spec => []NothingLost
<1>1. CInv => NothingLost
  BY DEF CInv, Same, Once, In, NothingLost
<1> QED BY <1>1, Tracking, PTL

-----------------------------------------------------------------------------
(***************************************************************************)
(* Order.                                                                  *)
(***************************************************************************)
\* While only the main thread emits, nothing is put in the deque between its
\* test of the deque and its read.
MainOnly ==
    conf.emitters \subseteq {Main} =>
        /\ \A t \in Workers : pc[t] = "run"
        /\ pc[Main] \in {"wantRead", "reading", "stash"} => pendingCommands = <<>>

LEMMA InitMainOnly == Init => MainOnly
BY MultilangAssumption DEF Init, MainOnly, Threads

LEMMA NextMainOnly == ASSUME Base, MainOnly, [Next]_vars PROVE MainOnly'
<1> SUFFICES ASSUME conf.emitters \subseteq {Main} PROVE MainOnly'
  BY ConfKept DEF MainOnly
<1> USE MultilangAssumption, ConfKept
    DEF MainOnly, Base, TypeOK, Threads, At, deques, locks, storm, emits
<1>1. CASE TakePending \/ FindNonePending \/ LockToRead
  BY <1>1 DEF TakePending, FindNonePending, LockToRead
<1>2. CASE \/ ReadCommand \/ ReadTaskIds \/ StashTaskIds \/ ReadCommandRaises
           \/ Processed \/ Ack
  BY <1>2 DEF ReadCommand, ReadTaskIds, StashTaskIds, ReadCommandRaises,
              Processed, Ack
<1>3. ASSUME NEW t \in Threads, StartEmit(t) PROVE MainOnly'
  BY <1>3 DEF StartEmit
<1>4. ASSUME NEW t \in Threads,
             TakeReader(t) \/ TakeWriter(t) \/ SendEmit(t) \/ AwaitTaskIds(t) \/ GoOn(t)
      PROVE  MainOnly'
  BY <1>4 DEF TakeReader, TakeWriter, SendEmit, AwaitTaskIds, GoOn
<1>5. ASSUME NEW t \in Threads, ReturnPending(t) \/ ReturnRead(t) \/ StashCommand(t)
      PROVE  MainOnly'
  BY <1>5 DEF ReturnPending, ReturnRead, StashCommand
<1>6. CASE StormAnswers \/ StormBeats \/ StormGarbles
  BY <1>6 DEF StormAnswers, StormBeats, StormGarbles
<1>9. ASSUME NEW t \in Threads, SendRaises(t) \/ AwaitRaises(t) PROVE MainOnly'
  BY <1>9 DEF SendRaises, AwaitRaises, Caught
<1>7. ASSUME NEW c \in Commands, StormSends(c) PROVE MainOnly'
  BY <1>7 DEF StormSends
<1>8. CASE UNCHANGED vars
  BY <1>8 DEF vars
<1> QED BY <1>1, <1>2, <1>3, <1>4, <1>5, <1>6, <1>7, <1>8, <1>9 DEF Next

LEMMA TakesFirst ==
    ASSUME CInv, MainOnly, [Next]_vars, conf.emitters \subseteq {Main},
           Len(outstanding') < Len(outstanding)
    PROVE  outstanding' = Tail(outstanding)
<1> USE DEF CInv
<1>1. /\ Unhandled \in Seq(Message) /\ outstanding \in Seq(Commands)
      /\ Len(outstanding) \in Nat
  BY DEF Base, TypeOK, Unhandled, Message
<1>2. outstanding' # outstanding
  BY <1>1
<1>3. ASSUME NEW m \in Message, Sends(m) PROVE FALSE
  BY <1>1, <1>2, <1>3 DEF Sends
<1>4. PICK k \in DOMAIN Unhandled :
         /\ Takes(k)
         /\ Unhandled[k] \in Commands => k = 1
  BY <1>2, <1>3, Moves DEF MainOnly
<1>5. PICK l \in DOMAIN outstanding : /\ outstanding[l] = Unhandled[k]
                                      /\ outstanding' = Without(outstanding, l)
  BY <1>2, <1>4 DEF Takes
<1>6. k = 1
  BY <1>1, <1>4, <1>5
<1> QED BY <1>1, <1>4, <1>5, <1>6, FirstIsFirst

\* A process whose main thread alone emits handles its commands in the order
\* Storm sent them, those that read_task_ids has put aside included.
THEOREM HandledInOrder == Spec => InOrder
<1>1. MainOnly /\ Base /\ [Next]_vars => MainOnly'
  BY NextMainOnly
<1>2. CInv /\ MainOnly /\ [Next]_vars =>
         [conf.emitters \subseteq {Main} /\ Len(outstanding') < Len(outstanding) =>
             outstanding' = Tail(outstanding)]_vars
  BY TakesFirst
<1> QED BY <1>1, <1>2, InitMainOnly, BaseInvariant, Tracking, PTL DEF Spec, InOrder

=============================================================================
