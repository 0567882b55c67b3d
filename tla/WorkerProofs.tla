----------------------------- MODULE WorkerProofs -----------------------------
(***************************************************************************)
(* Proofs about Worker: threads wait for each other only in the situations *)
(* DeadlockNeedsNesting names.                                             *)
(*                                                                         *)
(* Whatever a thread has still to do is a path: step by step it takes the  *)
(* locks held now to none, acquires every lock in order, and gives back    *)
(* the lock of the logging handler only at "caught".                       *)
(***************************************************************************)
EXTENDS Worker, SequenceTheorems, WellFoundedInduction, TLAPS

\* The first number with a property, for proofs along a path.
LEMMA Least ==
    ASSUME NEW T, T \subseteq Nat, T # {}
    PROVE  \E n \in T : \A m \in T : n <= m
<1>1. IsWellFoundedOn(OpToRel(<, Nat), Nat)
  BY NatLessThanWellFounded
<1>2. PICK n \in T : \A m \in T : ~(<<m, n>> \in OpToRel(<, Nat))
  BY <1>1, WFMin
<1>3. \A m \in T : ~(m < n)
  BY <1>2 DEF OpToRel
<1> QED BY <1>3

-----------------------------------------------------------------------------
(* Stacks of locks, and paths between them.                                *)

Stacks == {x \in Seq(Locks) : \A i, j \in DOMAIN x : x[i] = "log" /\ x[j] = "log" => i = j}

\* The step s with the locks x held leaves the locks y held.
Does(x, s, y) ==
    CASE s \in Locks ->
            /\ y = Append(x, s)
            /\ s = "log" => "log" \notin Elements(x)
            /\ s = "reader" => "reader" \in Elements(x) \/ Elements(x) \subseteq {"batch"}
      [] s = "give" -> \E l \in Locks \ {"log"} : x = Append(y, l)
      [] s = "caught" -> x = Append(y, "log")
      [] s = "install" -> x = <<>> /\ y = <<>>
      [] OTHER -> y = x

\* The batch lock is acquired first, but by the signal handler.
BatchFirst(x, p, i) ==
    p[i] = "batch" => x = <<>> \/ (i + 1 \in DOMAIN p /\ p[i + 1] = "check")

\* h are the locks held along p.
Along(h, x, p, z) ==
    /\ h \in [0 .. Len(p) -> Stacks]
    /\ h[0] = x /\ h[Len(p)] = z
    /\ \A i \in 1 .. Len(p) : Does(h[i - 1], p[i], h[i]) /\ BatchFirst(h[i - 1], p, i)
Path(x, p, z) == \E h : Along(h, x, p, z)

LEMMA PathEnds == ASSUME NEW x, NEW z, NEW p \in Seq(Steps), Path(x, p, z)
                  PROVE  x \in Stacks /\ z \in Stacks /\ (p = <<>> => x = z)
<1>1. PICK h : Along(h, x, p, z)
  BY DEF Path
<1>2. Len(p) \in Nat /\ 0 \in 0 .. Len(p) /\ Len(p) \in 0 .. Len(p)
  OBVIOUS
<1> QED BY <1>1, <1>2 DEF Along

LEMMA EmptyPath == ASSUME NEW x \in Stacks PROVE Path(x, <<>>, x)
<1>1. Along([i \in 0 .. 0 |-> x], x, <<>>, x)
  BY DEF Along
<1> QED BY <1>1 DEF Path

LEMMA OnePath ==
    ASSUME NEW x \in Stacks, NEW y \in Stacks, NEW s \in Steps, Does(x, s, y),
           s = "batch" => x = <<>>
    PROVE  Path(x, <<s>>, y)
<1> DEFINE p == <<s>>
           h == [i \in 0 .. 1 |-> IF i = 0 THEN x ELSE y]
<1>1. Len(p) = 1 /\ p[1] = s
  OBVIOUS
<1>2. h \in [0 .. 1 -> Stacks] /\ h[0] = x /\ h[1] = y
  OBVIOUS
<1> HIDE DEF p, h
<1>3. \A i \in 1 .. 1 : i = 1 /\ i - 1 = 0
  OBVIOUS
<1>4. Along(h, x, p, y)
  BY <1>1, <1>2, <1>3 DEF Along, BatchFirst
<1> QED BY <1>4 DEF Path, p

LEMMA PathThenPath ==
    ASSUME NEW x, NEW y, NEW z, NEW p \in Seq(Steps), NEW q \in Seq(Steps),
           Path(x, p, y), Path(y, q, z)
    PROVE  Path(x, p \o q, z)
<1>1. PICK g : Along(g, x, p, y)
  BY DEF Path
<1>2. PICK k : Along(k, y, q, z)
  BY DEF Path
<1> DEFINE m == Len(p)
           n == Len(q)
           r == p \o q
           h == [i \in 0 .. m + n |-> IF i <= m THEN g[i] ELSE k[i - m]]
<1>3. /\ m \in Nat /\ n \in Nat /\ r \in Seq(Steps) /\ Len(r) = m + n
      /\ \A i \in 1 .. m : r[i] = p[i]
      /\ \A i \in m + 1 .. m + n : r[i] = q[i - m]
      /\ DOMAIN p = 1 .. m /\ DOMAIN q = 1 .. n /\ DOMAIN r = 1 .. m + n
  OBVIOUS
<1>4. /\ g \in [0 .. m -> Stacks] /\ g[0] = x /\ g[m] = y
      /\ k \in [0 .. n -> Stacks] /\ k[0] = y /\ k[n] = z
      /\ \A i \in 1 .. m : Does(g[i - 1], p[i], g[i]) /\ BatchFirst(g[i - 1], p, i)
      /\ \A i \in 1 .. n : Does(k[i - 1], q[i], k[i]) /\ BatchFirst(k[i - 1], q, i)
  BY <1>1, <1>2 DEF Along
<1>5. /\ \A i \in 0 .. m : h[i] = g[i]
      /\ \A i \in m .. m + n : h[i] = k[i - m]
      /\ h \in [0 .. m + n -> Stacks]
  BY <1>3, <1>4
<1> HIDE DEF m, n, r, h
<1>6. ASSUME NEW i \in 1 .. m PROVE Does(h[i - 1], r[i], h[i]) /\ BatchFirst(h[i - 1], r, i)
  <2>1. h[i - 1] = g[i - 1] /\ h[i] = g[i] /\ r[i] = p[i]
    BY <1>3, <1>5
  <2>2. i + 1 \in DOMAIN p => i + 1 \in DOMAIN r /\ r[i + 1] = p[i + 1]
    BY <1>3
  <2> QED BY <1>4, <2>1, <2>2 DEF BatchFirst
<1>7. ASSUME NEW i \in m + 1 .. m + n
      PROVE  Does(h[i - 1], r[i], h[i]) /\ BatchFirst(h[i - 1], r, i)
  <2> DEFINE j == i - m
  <2>1. /\ j \in 1 .. n /\ h[i - 1] = k[j - 1] /\ h[i] = k[j] /\ r[i] = q[j]
        /\ j + 1 \in DOMAIN q => i + 1 \in DOMAIN r /\ r[i + 1] = q[j + 1]
    BY <1>3, <1>5
  <2> QED BY <1>4, <2>1 DEF BatchFirst
<1>8. \A i \in 1 .. m + n : i \in 1 .. m \/ i \in m + 1 .. m + n
  BY <1>3
<1>9. h[0] = x /\ h[m + n] = z
  BY <1>3, <1>4, <1>5
<1>10. Along(h, x, r, z)
  BY <1>3, <1>5, <1>6, <1>7, <1>8, <1>9 DEF Along
<1> QED BY <1>10 DEF Path, r

\* What is left of a path after its first n steps.
LEMMA RestOfPath ==
    ASSUME NEW h, NEW x, NEW z, NEW p \in Seq(Steps), Along(h, x, p, z), NEW n \in 0 .. Len(p)
    PROVE  Path(h[n], SubSeq(p, n + 1, Len(p)), z)
<1> DEFINE m == Len(p)
           q == SubSeq(p, n + 1, m)
           k == [i \in 0 .. m - n |-> h[i + n]]
<1>1. /\ m \in Nat /\ n \in Nat /\ n <= m
      /\ q \in Seq(Steps) /\ Len(q) = m - n
      /\ \A i \in 1 .. m - n : q[i] = p[i + n]
      /\ DOMAIN q = 1 .. m - n /\ DOMAIN p = 1 .. m
  OBVIOUS
<1>2. /\ h \in [0 .. m -> Stacks] /\ h[0] = x /\ h[m] = z
      /\ \A i \in 1 .. m : Does(h[i - 1], p[i], h[i]) /\ BatchFirst(h[i - 1], p, i)
  BY DEF Along
<1> HIDE DEF m, q
<1>3. k \in [0 .. m - n -> Stacks] /\ \A i \in 0 .. m - n : k[i] = h[i + n]
  <2>1. \A i \in 0 .. m - n : i + n \in 0 .. m
    BY <1>1
  <2>2. \A i \in 0 .. m - n : h[i + n] \in Stacks
    BY <1>2, <2>1
  <2> QED BY <2>2
<1> HIDE DEF k
<1>4. ASSUME NEW i \in 1 .. m - n PROVE Does(k[i - 1], q[i], k[i]) /\ BatchFirst(k[i - 1], q, i)
  <2> DEFINE j == i + n
  <2>1. j \in 1 .. m /\ q[i] = p[j] /\ i \in 0 .. m - n /\ i - 1 \in 0 .. m - n
    BY <1>1
  <2>2. k[i] = h[j] /\ k[i - 1] = h[i - 1 + n] /\ i - 1 + n = j - 1
    BY <1>1, <1>3, <2>1
  <2>3. j + 1 \in DOMAIN p => i + 1 \in DOMAIN q /\ q[i + 1] = p[i + 1 + n] /\ i + 1 + n = j + 1
    BY <1>1
  <2> QED BY <1>2, <2>1, <2>2, <2>3 DEF BatchFirst
<1>5. k[0] = h[n] /\ k[m - n] = z
  BY <1>1, <1>2, <1>3
<1>6. Along(k, h[n], q, z)
  BY <1>1, <1>3, <1>4, <1>5 DEF Along
<1> QED BY <1>6 DEF Path, q, m

LEMMA FirstOnPath ==
    ASSUME NEW x, NEW z, NEW p \in Seq(Steps), Path(x, p, z), p # <<>>
    PROVE  /\ \E y \in Stacks : Does(x, Head(p), y) /\ Path(y, Tail(p), z)
           /\ Head(p) = "batch" => x = <<>> \/ "check" \in Elements(p)
<1>1. PICK h : Along(h, x, p, z)
  BY DEF Path
<1>2. /\ Len(p) \in Nat \ {0} /\ 1 \in 1 .. Len(p) /\ 1 \in 0 .. Len(p)
      /\ Head(p) = p[1] /\ Tail(p) = SubSeq(p, 1 + 1, Len(p))
  OBVIOUS
<1>3. h[1] \in Stacks /\ h[0] = x /\ Does(h[0], p[1], h[1]) /\ BatchFirst(h[0], p, 1)
  BY <1>1, <1>2 DEF Along
<1>4. Path(h[1], Tail(p), z)
  BY <1>1, <1>2, RestOfPath
<1> QED BY <1>2, <1>3, <1>4 DEF BatchFirst, Elements

-----------------------------------------------------------------------------
(* The except clause of StormHandler.emit.                                 *)

LEMMA FirstFacts ==
    ASSUME NEW S, NEW s \in Seq(S), NEW v \in Elements(s)
    PROVE  /\ FirstOf(v, s) \in DOMAIN s /\ s[FirstOf(v, s)] = v
           /\ \A j \in 1 .. (FirstOf(v, s) - 1) : s[j] # v
<1> DEFINE T == {i \in DOMAIN s : s[i] = v}
<1>1. T \subseteq Nat /\ T # {} /\ DOMAIN s = 1 .. Len(s) /\ Len(s) \in Nat
  BY DEF Elements
<1>2. PICK n \in T : \A m \in T : n <= m
  BY <1>1, Least
<1>3. n \in DOMAIN s /\ s[n] = v /\ \A j \in 1 .. (n - 1) : s[j] # v
  BY <1>1, <1>2
<1> QED BY <1>3 DEF FirstOf

LEMMA PrefixFacts ==
    ASSUME NEW S, NEW s \in Seq(S), NEW m \in 0 .. Len(s)
    PROVE  /\ SubSeq(s, 1, m) \in Seq(S) /\ Len(SubSeq(s, 1, m)) = m
           /\ \A i \in 1 .. m : SubSeq(s, 1, m)[i] = s[i]
OBVIOUS

LEMMA BeforeAppended ==
    ASSUME NEW S, NEW s \in Seq(S), NEW e \in S
    PROVE  SubSeq(Append(s, e), 1, Len(s)) = s
<1> DEFINE a == Append(s, e)
           p == SubSeq(a, 1, Len(s))
<1>1. a \in Seq(S) /\ Len(a) = Len(s) + 1 /\ Len(s) \in Nat /\ \A i \in 1 .. Len(s) : a[i] = s[i]
  OBVIOUS
<1> HIDE DEF a
<1>2. p \in Seq(S) /\ Len(p) = Len(s) /\ \A i \in 1 .. Len(s) : p[i] = a[i]
  BY <1>1, PrefixFacts
<1> HIDE DEF p
<1>3. p = s
  BY <1>1, <1>2, SeqEqual
<1> QED BY <1>3 DEF p, a

\* The first m locks of x are held, up to that of the handler.
Keeps(y, x, m) == m <= Len(y) /\ \A i \in 1 .. m : y[i] = x[i]

LEMMA StepKeeps ==
    ASSUME NEW x \in Stacks, NEW m \in DOMAIN x, x[m] = "log",
           NEW y \in Stacks, NEW z \in Stacks, NEW s \in Steps \ {"caught"},
           Does(y, s, z), Keeps(y, x, m)
    PROVE  Keeps(z, x, m)
<1>1. m \in Nat \ {0} /\ y \in Seq(Locks) /\ z \in Seq(Locks)
  BY DEF Stacks
<1>2. CASE s \in Locks
  <2>1. z = Append(y, s)
    BY <1>2 DEF Does, Locks
  <2> QED BY <1>1, <2>1 DEF Keeps
<1>3. CASE s = "give"
  <2>1. PICK l \in Locks \ {"log"} : y = Append(z, l)
    BY <1>3 DEF Does, Locks
  <2>2. Len(y) = Len(z) + 1 /\ y[Len(z) + 1] # "log" /\ \A i \in 1 .. Len(z) : y[i] = z[i]
    BY <1>1, <2>1
  <2>3. m # Len(z) + 1
    BY <1>1, <2>2 DEF Keeps
  <2> QED BY <1>1, <2>2, <2>3 DEF Keeps
<1>4. CASE s = "install"
  <2>1. y = <<>>
    BY <1>4 DEF Does, Locks
  <2> QED BY <1>1, <2>1 DEF Keeps
<1>5. CASE s \notin Locks \cup {"give", "install"}
  BY <1>5 DEF Does
<1> QED BY <1>2, <1>3, <1>4, <1>5

LEMMA KeepsUntilCaught ==
    ASSUME NEW x \in Stacks, NEW m \in DOMAIN x, x[m] = "log",
           NEW h, NEW p \in Seq(Steps), NEW z, Along(h, x, p, z),
           NEW n \in 0 .. Len(p), \A i \in 1 .. n : p[i] # "caught"
    PROVE  Keeps(h[n], x, m)
<1> DEFINE T == {i \in 0 .. n : ~Keeps(h[i], x, m)}
<1>1. /\ Len(p) \in Nat /\ n \in Nat /\ n <= Len(p)
      /\ \A i \in 1 .. Len(p) : p[i] \in Steps
      /\ h \in [0 .. Len(p) -> Stacks] /\ h[0] = x
      /\ \A i \in 1 .. Len(p) : Does(h[i - 1], p[i], h[i])
  BY DEF Along
<1> SUFFICES ASSUME T # {} PROVE FALSE
  BY <1>1
<1>2. T \subseteq Nat
  OBVIOUS
<1>3. PICK i \in T : \A j \in T : i <= j
  BY <1>2, Least
<1>4. Keeps(h[0], x, m)
  <2>1. x \in Seq(Locks)
    BY DEF Stacks
  <2> QED BY <1>1, <2>1 DEF Keeps
<1>5. i \in 1 .. n /\ i - 1 \in 0 .. n /\ i - 1 \notin T
  BY <1>1, <1>3, <1>4
<1>6. Keeps(h[i - 1], x, m) /\ h[i - 1] \in Stacks /\ h[i] \in Stacks
      /\ p[i] \in Steps \ {"caught"} /\ Does(h[i - 1], p[i], h[i])
  <2>1. i \in 1 .. Len(p) /\ i \in 0 .. Len(p) /\ i - 1 \in 0 .. Len(p)
    BY <1>1, <1>5
  <2>2. Keeps(h[i - 1], x, m)
    BY <1>5
  <2>3. p[i] # "caught"
    BY <1>5
  <2> QED BY <1>1, <2>1, <2>2, <2>3
<1>7. Keeps(h[i], x, m)
  BY <1>6, StepKeeps
<1> QED BY <1>3, <1>7

\* An exception in the handler goes on at "caught", with the lock of the
\* handler held and what was held before it.
LEMMA SwallowPath ==
    ASSUME NEW x, NEW p \in Seq(Steps), Path(x, p, <<>>), "log" \in Elements(x)
    PROVE  LET c == FirstOf("caught", p)
               m == FirstOf("log", x)
           IN  /\ c \in DOMAIN p /\ p[c] = "caught"
               /\ SubSeq(p, c, Len(p)) \in Seq(Steps)
               /\ m \in DOMAIN x
               /\ Path(SubSeq(x, 1, m), SubSeq(p, c, Len(p)), <<>>)
<1> DEFINE c == FirstOf("caught", p)
           m == FirstOf("log", x)
<1>1. PICK h : Along(h, x, p, <<>>)
  BY DEF Path
<1>2. /\ x \in Stacks /\ x \in Seq(Locks) /\ Len(p) \in Nat /\ DOMAIN p = 1 .. Len(p)
      /\ h \in [0 .. Len(p) -> Stacks] /\ h[Len(p)] = <<>>
      /\ \A i \in 1 .. Len(p) : Does(h[i - 1], p[i], h[i])
  BY <1>1, PathEnds DEF Along, Stacks
<1>3. m \in DOMAIN x /\ x[m] = "log" /\ m \in Nat \ {0}
  BY <1>2, FirstFacts
<1> HIDE DEF m
<1>4. "caught" \in Elements(p)
  <2> SUFFICES ASSUME "caught" \notin Elements(p) PROVE FALSE
    OBVIOUS
  <2>1. \A i \in 1 .. Len(p) : p[i] # "caught"
    BY <1>2 DEF Elements
  <2>2. Len(p) \in 0 .. Len(p)
    BY <1>2
  <2>3. Keeps(h[Len(p)], x, m)
    BY <1>1, <1>2, <1>3, <2>1, <2>2, KeepsUntilCaught
  <2>4. Keeps(<<>>, x, m)
    BY <1>2, <2>3
  <2> QED BY <1>3, <2>4 DEF Keeps
<1>5. c \in DOMAIN p /\ p[c] = "caught" /\ \A j \in 1 .. (c - 1) : p[j] # "caught"
  BY <1>4, FirstFacts
<1> HIDE DEF c
<1>6. c - 1 \in 0 .. Len(p) /\ c - 1 + 1 = c /\ c \in 1 .. Len(p)
  BY <1>2, <1>5
<1>7. Keeps(h[c - 1], x, m)
  BY <1>1, <1>2, <1>3, <1>5, <1>6, KeepsUntilCaught
<1>8. h[c - 1] = SubSeq(x, 1, m)
  <2> DEFINE y == h[c - 1]
             z == h[c]
             q == SubSeq(x, 1, m)
  <2>1. y = Append(z, "log") /\ y \in Stacks /\ z \in Stacks
    BY <1>2, <1>5, <1>6 DEF Does, Locks
  <2>2. y \in Seq(Locks) /\ z \in Seq(Locks) /\ Len(y) \in DOMAIN y /\ y[Len(y)] = "log"
    BY <2>1 DEF Stacks, Locks
  <2>3. m \in DOMAIN y /\ y[m] = "log" /\ \A i \in 1 .. m : y[i] = x[i]
    BY <1>3, <1>7, <2>2 DEF Keeps
  <2>4. Len(y) = m
    BY <2>1, <2>2, <2>3 DEF Stacks
  <2>5. q \in Seq(Locks) /\ Len(q) = m /\ \A i \in 1 .. m : q[i] = x[i]
    BY <1>2, <1>3, PrefixFacts
  <2> HIDE DEF y, q
  <2>6. y = q
    BY <2>2, <2>3, <2>4, <2>5, SeqEqual
  <2> QED BY <2>6 DEF y, q
<1>9. Path(h[c - 1], SubSeq(p, c - 1 + 1, Len(p)), <<>>)
  BY <1>1, <1>6, RestOfPath
<1>10. SubSeq(p, c, Len(p)) \in Seq(Steps)
  BY <1>6
<1> QED BY <1>3, <1>5, <1>6, <1>8, <1>9, <1>10 DEF c, m

-----------------------------------------------------------------------------
(* The programs.  None of them is a signal handler.                        *)

Program(p, x, y) == p \in Seq(Steps) /\ "check" \notin Elements(p) /\ Path(x, p, y)

LEMMA ProgramThenProgram ==
    ASSUME NEW x, NEW y, NEW z, NEW p, NEW q, Program(p, x, y), Program(q, y, z)
    PROVE  Program(p \o q, x, z)
<1>1. p \in Seq(Steps) /\ q \in Seq(Steps) /\ Path(x, p \o q, z)
  BY PathThenPath DEF Program
<1>2. Elements(p \o q) \subseteq Elements(p) \cup Elements(q)
  BY <1>1 DEF Elements
<1>3. p \o q \in Seq(Steps)
  BY <1>1
<1> QED BY <1>1, <1>2, <1>3 DEF Program

LEMMA EmptyProgram == ASSUME NEW x \in Stacks PROVE Program(<<>>, x, x)
BY EmptyPath DEF Program, Elements

LEMMA OneProgram ==
    ASSUME NEW x \in Stacks, NEW y \in Stacks, NEW s \in Steps \ {"check"}, Does(x, s, y),
           s = "batch" => x = <<>>
    PROVE  Program(<<s>>, x, y)
<1>1. <<s>> \in Seq(Steps) /\ "check" \notin Elements(<<s>>)
  BY DEF Elements
<1> QED BY <1>1, OnePath DEF Program

LEMMA Pairs ==
    ASSUME NEW S, NEW u \in Seq(S), NEW v \in Seq(S), Len(u) = 1, Len(v) = 1
    PROVE  u \o v = <<u[1], v[1]>>
<1>1. /\ u \o v \in Seq(S) /\ Len(u \o v) = 2
      /\ (u \o v)[1] = u[1] /\ (u \o v)[2] = v[1]
  BY ConcatProperties
<1>2. u[1] \in S /\ v[1] \in S
  OBVIOUS
<1> DEFINE w == u \o v
           a == u[1]
           b == v[1]
           t == <<a, b>>
<1> HIDE DEF w, a, b
<1>3. w \in Seq(S) /\ Len(w) = 2 /\ w[1] = a /\ w[2] = b /\ a \in S /\ b \in S
  BY <1>1, <1>2 DEF w, a, b
<1>4. t \in Seq(S) /\ Len(t) = 2 /\ t[1] = a /\ t[2] = b
  BY <1>3
<1> HIDE DEF t
<1>5. w = t
  BY <1>3, <1>4, SeqEqual
<1> QED BY <1>5 DEF w, t, a, b

LEMMA TwoProgram ==
    ASSUME NEW x, NEW y, NEW z, NEW a \in Steps, NEW b \in Steps,
           Program(<<a>>, x, y), Program(<<b>>, y, z)
    PROVE  Program(<<a, b>>, x, z)
<1>1. <<a, b>> = <<a>> \o <<b>>
  <2> DEFINE u == <<a>>
             v == <<b>>
  <2>1. u \in Seq(Steps) /\ Len(u) = 1 /\ u[1] = a /\ v \in Seq(Steps) /\ Len(v) = 1 /\ v[1] = b
    OBVIOUS
  <2> HIDE DEF u, v
  <2>2. u \o v = <<u[1], v[1]>>
    BY <2>1, Pairs
  <2> QED BY <2>1, <2>2 DEF u, v
<1> QED BY <1>1, ProgramThenProgram

LEMMA ThreeProgram ==
    ASSUME NEW w, NEW x, NEW y, NEW z, NEW a \in Steps, NEW b \in Steps, NEW c \in Steps,
           Program(<<a>>, w, x), Program(<<b>>, x, y), Program(<<c>>, y, z)
    PROVE  Program(<<a, b, c>>, w, z)
<1>1. <<a, b, c>> = <<a, b>> \o <<c>>
  OBVIOUS
<1> QED BY <1>1, TwoProgram, ProgramThenProgram

\* A lock can be acquired with the locks x held, and given back.
MayTake(x, l) == /\ l = "log" => "log" \notin Elements(x)
                 /\ l = "reader" => "reader" \in Elements(x) \/ Elements(x) \subseteq {"batch"}
                 /\ l = "batch" => x = <<>>

LEMMA PushFacts ==
    ASSUME NEW x \in Stacks, NEW l \in Locks, l = "log" => "log" \notin Elements(x)
    PROVE  Append(x, l) \in Stacks /\ Elements(Append(x, l)) = Elements(x) \cup {l}
<1> DEFINE y == Append(x, l)
<1>1. /\ x \in Seq(Locks) /\ Len(x) \in Nat /\ DOMAIN x = 1 .. Len(x)
      /\ \A i, j \in DOMAIN x : x[i] = "log" /\ x[j] = "log" => i = j
  BY DEF Stacks
<1>2. /\ y \in Seq(Locks) /\ DOMAIN y = 1 .. Len(x) + 1 /\ y[Len(x) + 1] = l
      /\ \A i \in DOMAIN x : y[i] = x[i]
  BY <1>1
<1> HIDE DEF y
<1>3. y \in Stacks
  BY <1>1, <1>2 DEF Stacks, Elements
<1>4. \A i \in DOMAIN y : i \in DOMAIN x \/ i = Len(x) + 1
  BY <1>1, <1>2
<1>5. Elements(y) = Elements(x) \cup {l}
  BY <1>1, <1>2, <1>4 DEF Elements
<1> QED BY <1>3, <1>5 DEF y

LEMMA TakeProgram ==
    ASSUME NEW x \in Stacks, NEW l \in Locks, MayTake(x, l)
    PROVE  Program(<<l>>, x, Append(x, l))
<1>1. Append(x, l) \in Stacks
  BY PushFacts DEF MayTake
<1>2. l \in Steps \ {"check"} /\ Does(x, l, Append(x, l))
  BY DEF Does, Steps, Locks, MayTake
<1> QED BY <1>1, <1>2, OneProgram DEF MayTake

LEMMA GiveProgram ==
    ASSUME NEW x \in Stacks, NEW l \in Locks \ {"log"}
    PROVE  Program(<<"give">>, Append(x, l), x)
<1>1. Append(x, l) \in Stacks
  BY PushFacts
<1>2. "give" \in Steps \ {"check"} /\ Does(Append(x, l), "give", x)
  BY DEF Does, Steps, Points, Locks
<1> QED BY <1>1, <1>2, OneProgram

LEMMA CaughtProgram ==
    ASSUME NEW x \in Stacks, "log" \notin Elements(x)
    PROVE  Program(<<"caught">>, Append(x, "log"), x)
<1>1. Append(x, "log") \in Stacks
  BY PushFacts DEF Locks
<1>2. "caught" \in Steps \ {"check"} /\ Does(Append(x, "log"), "caught", x)
  BY DEF Does, Steps, Points, Locks
<1> QED BY <1>1, <1>2, OneProgram

LEMMA OtherProgram ==
    ASSUME NEW x \in Stacks, NEW s \in Kinds \cup {"read", "user"}
    PROVE  Program(<<s>>, x, x)
<1>1. s \in Steps \ {"check"} /\ Does(x, s, x) /\ s # "batch"
  BY DEF Does, Steps, Points, Kinds, Locks
<1> QED BY <1>1, OneProgram

LEMMA SendProgram ==
    ASSUME NEW x \in Stacks, NEW kind \in Kinds
    PROVE  Program(Send(kind), x, x)
<1> DEFINE y == Append(x, "writer")
<1>1. y \in Stacks /\ "writer" \in Locks \ {"log"}
  BY PushFacts DEF Locks
<1>2. Program(<<"writer">>, x, y) /\ Program(<<"give">>, y, x)
  BY <1>1, TakeProgram, GiveProgram DEF MayTake
<1> HIDE DEF y
<1>3. Program(<<kind>>, y, y)
  BY <1>1, OtherProgram
<1>4. "writer" \in Steps /\ kind \in Steps /\ "give" \in Steps
  BY DEF Steps, Locks, Points
<1> QED BY <1>2, <1>3, <1>4, ThreeProgram DEF Send

LEMMA LogProgram ==
    ASSUME NEW x \in Stacks, "log" \notin Elements(x), NEW logger, NEW level
    PROVE  Program(Log(logger, level), x, x)
<1> DEFINE y == Append(x, "log")
<1>1. y \in Stacks /\ "log" \in Locks
  BY PushFacts DEF Locks
<1>2. Program(<<"log">>, x, y) /\ Program(<<"caught">>, y, x)
  BY <1>1, TakeProgram, CaughtProgram DEF MayTake
<1> HIDE DEF y
<1>3. Program(Send("record"), y, y)
  BY <1>1, SendProgram DEF Kinds
<1>4. Program(<<"log">> \o Send("record") \o <<"caught">>, x, x)
  BY <1>2, <1>3, ProgramThenProgram
<1> QED BY <1>4, EmptyProgram DEF Log

LEMMA WarnProgram ==
    ASSUME NEW x \in Stacks, "log" \notin Elements(x), NEW warns
    PROVE  Program(Warn(warns), x, x)
BY LogProgram, EmptyProgram DEF Warn

LEMMA ReadProgram ==
    ASSUME NEW x \in Stacks, "log" \notin Elements(x), NEW warns,
           "reader" \in Elements(x) \/ Elements(x) \subseteq {"batch"}
    PROVE  Program(Read(warns), x, x)
<1> DEFINE y == Append(x, "reader")
<1>1. y \in Stacks /\ "log" \notin Elements(y) /\ "reader" \in Locks \ {"log"}
  BY PushFacts DEF Locks
<1>2. Program(<<"reader">>, x, y) /\ Program(<<"give">>, y, x)
  BY <1>1, TakeProgram, GiveProgram DEF MayTake
<1> HIDE DEF y
<1>3. Program(<<"read">>, y, y)
  BY <1>1, OtherProgram
<1>4. "read" \in Steps /\ "give" \in Steps
  BY DEF Steps, Points
<1>5. Program(<<"read", "give">>, y, x)
  BY <1>2, <1>3, <1>4, TwoProgram
<1>6. Program(Warn(warns), y, y)
  BY <1>1, WarnProgram
<1>7. Program(<<"reader">> \o Warn(warns), x, y)
  BY <1>2, <1>6, ProgramThenProgram
<1> QED BY <1>5, <1>7, ProgramThenProgram DEF Read

LEMMA EmitProgram ==
    ASSUME NEW x \in Stacks, "log" \notin Elements(x), NEW warns
    PROVE  Program(Emit(warns), x, x)
<1>1. Program(Send("emit"), x, x)
  BY SendProgram DEF Kinds
<1> QED BY <1>1, WarnProgram, ProgramThenProgram DEF Emit

LEMMA EmitForIdsProgram ==
    ASSUME NEW x \in Stacks, Elements(x) \subseteq {"batch"}, NEW warns, NEW blank
    PROVE  Program(EmitForIds(warns, blank), x, x)
<1> DEFINE y == Append(x, "reader")
           z == Append(y, "writer")
<1>0. {"reader", "writer"} \subseteq Locks \ {"log"}
  BY DEF Locks
<1>1. y \in Stacks /\ Elements(y) \subseteq {"batch", "reader"}
  BY <1>0, PushFacts
<1>2. Program(<<"reader">>, x, y) /\ Program(<<"give">>, y, x)
  BY <1>0, TakeProgram, GiveProgram DEF MayTake
<1> HIDE DEF y
<1>3. z \in Stacks /\ Elements(z) = Elements(y) \cup {"writer"}
  BY <1>0, <1>1, PushFacts
<1>4. Program(<<"writer">>, y, z) /\ Program(<<"give">>, z, y)
  BY <1>0, <1>1, TakeProgram, GiveProgram DEF MayTake
<1> HIDE DEF z
<1>5. "reader" \in Elements(y)
  BY <1>0, PushFacts DEF y
<1>6. "log" \notin Elements(z) /\ "reader" \in Elements(z)
  BY <1>1, <1>3, <1>5
<1>7. {"reader", "writer", "give"} \subseteq Steps
  BY DEF Steps, Locks, Points
<1>8. Program(BothLocks, x, z) /\ Program(<<"give", "give">>, z, x)
  BY <1>2, <1>4, <1>7, TwoProgram DEF BothLocks
<1>9. Program(Emit(warns), z, z) /\ Program(Read(blank), z, z)
  BY <1>3, <1>6, EmitProgram, ReadProgram
<1>10. Program(BothLocks \o Emit(warns), x, z)
  BY <1>8, <1>9, ProgramThenProgram
<1>11. Program(BothLocks \o Emit(warns) \o Read(blank), x, z)
  BY <1>9, <1>10, ProgramThenProgram
<1> QED BY <1>8, <1>11, ProgramThenProgram DEF EmitForIds

LEMMA UserProgram ==
    ASSUME NEW x \in Stacks, Elements(x) \subseteq {"batch"}, NEW code \in UserCode
    PROVE  Program(code, x, x)
<1>1. "log" \notin Elements(x)
  OBVIOUS
<1>2. ASSUME NEW call \in Calls PROVE Program(call, x, x)
  BY <1>1, <1>2, EmptyProgram, LogProgram, EmitProgram, EmitForIdsProgram DEF Calls
<1>3. PICK call \in Calls : code = call \o <<"user">>
  BY DEF UserCode
<1> QED BY <1>2, <1>3, OtherProgram, ProgramThenProgram

LEMMA NoLocks == <<>> \in Stacks /\ Elements(<<>>) = {} /\ {"batch", "log"} \cap Elements(<<>>) = {}
BY DEF Stacks, Elements

LEMMA RunsProgram == ASSUME NEW program \in Runs PROVE Program(program, <<>>, <<>>)
<1>0. /\ <<>> \in Stacks /\ Elements(<<>>) \subseteq {"batch"} /\ "log" \notin Elements(<<>>)
      /\ "answer" \in Kinds
  BY NoLocks DEF Kinds
<1>1. ASSUME NEW b PROVE Program(Read(b), <<>>, <<>>)
  BY <1>0, ReadProgram
<1>2. CASE conf.tickless
  <2> DEFINE x == Append(<<>>, "batch")
  <2>1. x \in Stacks /\ Elements(x) \subseteq {"batch"} /\ "batch" \in Locks \ {"log"}
    BY <1>0, PushFacts DEF Locks
  <2>2. Program(<<"batch">>, <<>>, x) /\ Program(<<"give">>, x, <<>>)
    BY <1>0, <2>1, TakeProgram, GiveProgram DEF MayTake
  <2> HIDE DEF x
  <2>3. PICK b \in MayWarn, c \in UserCode \cup {Send("answer")} :
           program = Read(b) \o <<"batch">> \o c \o <<"give">>
    <3> DEFINE Run(b, c) == Read(b) \o <<"batch">> \o c \o <<"give">>
    <3>1. Runs = {Run(b, c) : b \in MayWarn, c \in UserCode \cup {Send("answer")}}
      BY <1>2 DEF Runs
    <3> HIDE DEF Run
    <3>2. \E b \in MayWarn, c \in UserCode \cup {Send("answer")} : program = Run(b, c)
      BY <3>1
    <3> QED BY <3>2 DEF Run
  <2>4. Program(c, x, x)
    BY <1>0, <2>1, UserProgram, SendProgram
  <2>5. Program(Read(b) \o <<"batch">>, <<>>, x)
    BY <1>1, <2>2, ProgramThenProgram
  <2>6. Program(Read(b) \o <<"batch">> \o c, <<>>, x)
    BY <2>4, <2>5, ProgramThenProgram
  <2> QED BY <2>2, <2>3, <2>6, ProgramThenProgram
<1>3. CASE ~conf.tickless
  <2>1. PICK b \in MayWarn, c \in UserCode : program = Read(b) \o c \o Send("answer")
    BY <1>3 DEF Runs
  <2>2. Program(c, <<>>, <<>>) /\ Program(Send("answer"), <<>>, <<>>)
    BY <1>0, UserProgram, SendProgram
  <2>3. Program(Read(b) \o c, <<>>, <<>>)
    BY <1>1, <2>2, ProgramThenProgram
  <2> QED BY <2>1, <2>2, <2>3, ProgramThenProgram
<1> QED BY <1>2, <1>3

LEMMA HelperProgram == ASSUME NEW program \in HelperRuns PROVE Program(program, <<>>, <<>>)
<1>0. <<>> \in Stacks /\ Elements(<<>>) \subseteq {"batch"} /\ "answer" \in Kinds
  BY NoLocks DEF Kinds
<1>1. CASE conf.tickless
  <2> DEFINE x == Append(<<>>, "batch")
  <2>1. x \in Stacks /\ Elements(x) \subseteq {"batch"} /\ "batch" \in Locks \ {"log"}
    BY <1>0, NoLocks, PushFacts DEF Locks
  <2>2. Program(<<"batch">>, <<>>, x) /\ Program(<<"give">>, x, <<>>)
    BY <1>0, <2>1, TakeProgram, GiveProgram DEF MayTake
  <2> HIDE DEF x
  <2>3. PICK c \in UserCode : program = <<"batch">> \o c \o Send("answer") \o <<"give">>
    BY <1>1 DEF HelperRuns
  <2>4. Program(c, x, x) /\ Program(Send("answer"), x, x)
    BY <1>0, <2>1, UserProgram, SendProgram
  <2>5. Program(<<"batch">> \o c, <<>>, x)
    BY <2>2, <2>4, ProgramThenProgram
  <2>6. Program(<<"batch">> \o c \o Send("answer"), <<>>, x)
    BY <2>4, <2>5, ProgramThenProgram
  <2> QED BY <2>2, <2>3, <2>6, ProgramThenProgram
<1>2. CASE ~conf.tickless
  BY <1>0, <1>2, UserProgram DEF HelperRuns
<1> QED BY <1>1, <1>2

LEMMA FirstProgram == Program(Handshake \o Setup, <<>>, <<>>)
<1>0. /\ <<>> \in Stacks /\ Elements(<<>>) \subseteq {"batch"} /\ "log" \notin Elements(<<>>)
      /\ {"pid", "record"} \subseteq Kinds
  BY NoLocks DEF Kinds
<1>1. /\ Program(Read(FALSE), <<>>, <<>>) /\ Program(Send("pid"), <<>>, <<>>)
      /\ Program(Send("record"), <<>>, <<>>)
  BY <1>0, ReadProgram, SendProgram
<1>2. Program(<<"install">>, <<>>, <<>>)
  <2>1. "install" \in Steps \ {"check"} /\ Does(<<>>, "install", <<>>)
    BY DEF Does, Steps, Points, Locks
  <2> QED BY <1>0, <2>1, OneProgram
<1>3. Program(Handshake, <<>>, <<>>)
  BY <1>1, ProgramThenProgram DEF Handshake
<1>4. Program(Setup, <<>>, <<>>)
  BY <1>1, <1>2, ProgramThenProgram DEF Setup
<1> QED BY <1>3, <1>4, ProgramThenProgram

LEMMA LandsProgram ==
    ASSUME NEW exc
    PROVE  Program(Lands(exc)[2], <<>>, <<>>) /\ Lands(exc)[1] # "none"
<1>0. /\ <<>> \in Stacks /\ "log" \notin Elements(<<>>) /\ {"error", "answer"} \subseteq Kinds
  BY NoLocks DEF Kinds
<1>1. /\ Program(<<>>, <<>>, <<>>)
      /\ Program(Send("error"), <<>>, <<>>) /\ Program(Send("answer"), <<>>, <<>>)
      /\ Program(Log("component", Error), <<>>, <<>>) /\ Program(LogAgain, <<>>, <<>>)
  BY <1>0, EmptyProgram, SendProgram, LogProgram DEF LogAgain
<1>2. Program(Handle, <<>>, <<>>)
  <2>1. Program(Log("component", Error) \o Send("error"), <<>>, <<>>)
    BY <1>1, ProgramThenProgram
  <2>2. Program(Log("component", Error) \o Send("error") \o Send("answer"), <<>>, <<>>)
    BY <1>1, <2>1, ProgramThenProgram
  <2> QED BY <1>1, <2>2, ProgramThenProgram DEF Handle
<1>3. Program(LogAgain \o LogAgain, <<>>, <<>>)
  BY <1>1, ProgramThenProgram
<1> QED BY <1>1, <1>2, <1>3 DEF Lands, InRun, InHandling

-----------------------------------------------------------------------------
(* The invariant.                                                          *)

Once(p) == \A i, j \in DOMAIN p : p[i] = "check" /\ p[j] = "check" => i = j

Typed == /\ conf \in Configs
         /\ where \in Places
         /\ todo \in [Threads -> Seq(Steps)]
         /\ held \in [Threads -> Seq(Locks)]
         /\ excInfo \in Exceptions \cup {"none"}
         /\ signal \in BOOLEAN
         /\ strays \in 0 .. conf.strays
         /\ closed \in BOOLEAN

Paths == \A t \in Threads : Path(held[t], todo[t], <<>>)

Exclusive == \A t, u \in Threads : t # u => Held(t) \cap Held(u) = {}

\* The signal handler runs in the main thread, and does not interrupt itself.
HandlerInMain ==
    /\ conf.tickless \/ ~signal
    /\ \A t \in Threads : /\ Once(todo[t])
                          /\ t # Main \/ ~conf.tickless => "check" \notin Elements(todo[t])

Idle == \A t \in Helpers \ conf.helpers : todo[t] = <<>>

\* Without strays, a signal that comes in time finds the batcher at rest.
AtRest == /\ signal \/ "check" \in Elements(todo[Main]) => excInfo # "none"
          /\ ~(signal /\ "check" \in Elements(todo[Main]))
          /\ excInfo # "none" => \A t \in Helpers : todo[t] = <<>>
Quiet == conf.tickless /\ conf.prompt /\ conf.strays = 0 => AtRest

Structure == Typed /\ Paths /\ Exclusive /\ HandlerInMain /\ Idle
IInv == Structure /\ Quiet

-----------------------------------------------------------------------------
(* What a thread goes on with.                                             *)

LEMMA RestFacts ==
    ASSUME NEW p \in Seq(Steps), NEW n \in DOMAIN p
    PROVE  LET q == SubSeq(p, n, Len(p))
           IN  /\ q \in Seq(Steps) /\ Elements(q) \subseteq Elements(p)
               /\ Once(p) => Once(q)
               /\ Once(p) /\ p[1] = "check" /\ n > 1 => "check" \notin Elements(q)
<1> DEFINE q == SubSeq(p, n, Len(p))
<1>1. /\ q \in Seq(Steps) /\ DOMAIN q = 1 .. (Len(p) - n + 1) /\ DOMAIN p = 1 .. Len(p)
      /\ Len(p) \in Nat /\ n \in Nat /\ n >= 1
      /\ \A i \in 1 .. (Len(p) - n + 1) : q[i] = p[i + n - 1]
  OBVIOUS
<1> HIDE DEF q
<1>2. \A i \in DOMAIN q : i + n - 1 \in DOMAIN p /\ q[i] = p[i + n - 1] /\ 1 \in DOMAIN p
  BY <1>1
<1>3. Elements(q) \subseteq Elements(p)
  BY <1>2 DEF Elements
<1>4. ASSUME Once(p) PROVE Once(q)
  BY <1>1, <1>2, <1>4 DEF Once
<1>5. ASSUME Once(p), p[1] = "check", n > 1 PROVE "check" \notin Elements(q)
  <2> SUFFICES ASSUME NEW i \in DOMAIN q, q[i] = "check" PROVE FALSE
    BY DEF Elements
  <2>1. i + n - 1 = 1
    BY <1>2, <1>5 DEF Once
  <2> QED BY <1>1, <1>5, <2>1
<1> QED BY <1>1, <1>3, <1>4, <1>5 DEF q

LEMMA TailFacts ==
    ASSUME NEW p \in Seq(Steps), p # <<>>
    PROVE  /\ Tail(p) \in Seq(Steps) /\ Elements(Tail(p)) \subseteq Elements(p)
           /\ Head(p) \in Steps /\ Head(p) = p[1]
           /\ Once(p) => Once(Tail(p))
           /\ Once(p) /\ Head(p) = "check" => "check" \notin Elements(Tail(p))
<1> DEFINE q == Tail(p)
<1>1. /\ q \in Seq(Steps) /\ DOMAIN q = 1 .. (Len(p) - 1) /\ DOMAIN p = 1 .. Len(p)
      /\ Len(p) \in Nat /\ Head(p) = p[1] /\ p[1] \in Steps
      /\ \A i \in 1 .. (Len(p) - 1) : q[i] = p[i + 1]
  OBVIOUS
<1> HIDE DEF q
<1>2. \A i \in DOMAIN q : i + 1 \in DOMAIN p /\ q[i] = p[i + 1] /\ 1 \in DOMAIN p
  BY <1>1
<1>3. Elements(q) \subseteq Elements(p)
  BY <1>2 DEF Elements
<1>4. ASSUME Once(p) PROVE Once(q)
  BY <1>1, <1>2, <1>4 DEF Once
<1>5. ASSUME Once(p), p[1] = "check" PROVE "check" \notin Elements(q)
  BY <1>1, <1>2, <1>5 DEF Once, Elements
<1> QED BY <1>1, <1>3, <1>4, <1>5 DEF q

\* The signal handler takes the batch lock whatever the main thread holds.
LEMMA HandlerPath == ASSUME NEW x \in Stacks PROVE Path(x, SignalHandler, x)
<1> DEFINE p == SignalHandler
           y == Append(x, "batch")
           h == [i \in 0 .. 3 |-> IF i \in {1, 2} THEN y ELSE x]
<1>1. Len(p) = 3 /\ p[1] = "batch" /\ p[2] = "check" /\ p[3] = "give" /\ DOMAIN p = 1 .. 3
  BY DEF SignalHandler
<1>2. y \in Stacks
  BY PushFacts DEF Locks
<1>3. Does(x, "batch", y) /\ Does(y, "check", y) /\ Does(y, "give", x)
  BY DEF Does, Locks
<1> HIDE DEF p, y
<1>4. h \in [0 .. 3 -> Stacks] /\ h[0] = x /\ h[1] = y /\ h[2] = y /\ h[3] = x
  BY <1>2
<1> HIDE DEF h
<1>5. ASSUME NEW i \in 1 .. 3 PROVE Does(h[i - 1], p[i], h[i]) /\ BatchFirst(h[i - 1], p, i)
  <2>1. i = 1 \/ i = 2 \/ i = 3
    OBVIOUS
  <2>2. 1 - 1 = 0 /\ 2 - 1 = 1 /\ 3 - 1 = 2 /\ 1 + 1 = 2
    OBVIOUS
  <2> QED BY <1>1, <1>3, <1>4, <2>1, <2>2 DEF BatchFirst
<1>6. Along(h, x, p, x)
  BY <1>1, <1>4, <1>5 DEF Along
<1> QED BY <1>6 DEF Path, p

LEMMA HandlerFacts ==
    ASSUME NEW p \in Seq(Steps), "check" \notin Elements(p)
    PROVE  SignalHandler \o p \in Seq(Steps) /\ Once(SignalHandler \o p)
<1> DEFINE a == SignalHandler
           q == a \o p
<1>1. a \in Seq(Steps) /\ Len(a) = 3 /\ a[1] # "check" /\ a[3] # "check"
  BY DEF SignalHandler, Steps, Locks, Points
<1> HIDE DEF a
<1>2. /\ q \in Seq(Steps) /\ DOMAIN q = 1 .. (3 + Len(p)) /\ Len(p) \in Nat
      /\ \A i \in 1 .. (3 + Len(p)) : q[i] = IF i <= 3 THEN a[i] ELSE p[i - 3]
  <2>1. /\ q \in Seq(Steps) /\ Len(q) = Len(a) + Len(p)
        /\ \A i \in 1 .. Len(a) + Len(p) : q[i] = IF i <= Len(a) THEN a[i] ELSE p[i - Len(a)]
    BY <1>1, ConcatProperties
  <2> HIDE DEF q
  <2> QED BY <1>1, <2>1
<1> HIDE DEF q
<1>3. \A i \in 1 .. Len(p) : p[i] # "check"
  BY DEF Elements
<1>4. ASSUME NEW i \in DOMAIN q, q[i] = "check" PROVE i = 2
  BY <1>1, <1>2, <1>3, <1>4
<1> QED BY <1>2, <1>4 DEF Once, q, a

-----------------------------------------------------------------------------
(* The steps of a thread keep the structure.                               *)

\* Thread t goes on with the program p and the locks x.
Moves(t, p, x) ==
    /\ todo' \in [Threads -> Seq(Steps)] /\ held' \in [Threads -> Seq(Locks)]
    /\ todo'[t] = p /\ held'[t] = x
    /\ \A u \in Threads \ {t} : todo'[u] = todo[u] /\ held'[u] = held[u]

\* It can: p is a path from x, and nobody else has acquired what is in x.
Fits(t, p, x) ==
    /\ p \in Seq(Steps) /\ Path(x, p, <<>>) /\ Once(p)
    /\ t # Main \/ ~conf.tickless => "check" \notin Elements(p)
    /\ t \in Helpers \ conf.helpers => p = <<>>
    /\ \A l \in Elements(x) : Available(l, t)

\* What is not in the threads.
Around == /\ conf' = conf /\ where' \in Places
          /\ strays' \in 0 .. conf.strays /\ closed' \in BOOLEAN

LEMMA MoveKeeps ==
    ASSUME Structure, NEW t \in Threads, NEW p, NEW x, Moves(t, p, x), Fits(t, p, x), Around,
           excInfo' \in Exceptions \cup {"none"}, signal' \in BOOLEAN, conf.tickless \/ ~signal'
    PROVE  Structure'
<1> USE DEF Structure
<1>1. Typed'
  BY DEF Typed, Moves, Around
<1>2. Paths'
  BY DEF Paths, Moves, Fits
<1>3. Exclusive'
  <2> SUFFICES ASSUME NEW u \in Threads, NEW v \in Threads, u # v
               PROVE  Held(u)' \cap Held(v)' = {}
    BY DEF Exclusive
  <2>1. \A w \in Threads \ {t} : Held(w)' = Held(w)
    BY DEF Moves, Held, Elements
  <2>2. Held(t)' = Elements(x)
    BY DEF Moves, Held, Elements
  <2>3. \A w \in Threads \ {t} : Held(w) \cap Elements(x) = {}
    BY DEF Fits, Available
  <2> QED BY <2>1, <2>2, <2>3 DEF Exclusive
<1>4. HandlerInMain'
  <2>1. ASSUME NEW u \in Threads
        PROVE  /\ Once(todo'[u])
               /\ u # Main \/ ~conf.tickless => "check" \notin Elements(todo'[u])
    <3>1. CASE u = t
      BY <3>1 DEF Moves, Fits
    <3>2. CASE u # t
      BY <3>2 DEF Moves, HandlerInMain
    <3> QED BY <3>1, <3>2
  <2>2. HandlerInMain' <=>
           /\ conf'.tickless \/ ~signal'
           /\ \A u \in Threads :
                 /\ Once(todo'[u])
                 /\ u # Main \/ ~conf'.tickless => "check" \notin Elements(todo'[u])
    BY DEF HandlerInMain, Once, Elements
  <2> QED BY <2>1, <2>2 DEF Around
<1>5. Idle'
  BY DEF Idle, Moves, Fits, Around, Threads
<1> QED BY <1>1, <1>2, <1>3, <1>4, <1>5

LEMMA Mine ==
    ASSUME Structure, NEW t \in Threads
    PROVE  /\ \A l \in Held(t) : Available(l, t)
           /\ held[t] \in Stacks /\ held[t] \in Seq(Locks) /\ todo[t] \in Seq(Steps)
           /\ todo[t] = <<>> => held[t] = <<>>
<1>1. held[t] \in Seq(Locks) /\ todo[t] \in Seq(Steps) /\ Path(held[t], todo[t], <<>>)
  BY DEF Structure, Typed, Paths
<1>2. held[t] \in Stacks /\ (todo[t] = <<>> => held[t] = <<>>)
  BY <1>1, PathEnds
<1>3. \A l \in Held(t) : Available(l, t)
  BY DEF Structure, Exclusive, Available
<1> QED BY <1>1, <1>2, <1>3

\* The first step done, the rest is left.
LEMMA FirstDone ==
    ASSUME Structure, NEW t \in Threads, todo[t] # <<>>
    PROVE  /\ Next1(t) \in Steps /\ todo[t] \in Seq(Steps)
           /\ \E y \in Stacks :
                 /\ Does(held[t], Next1(t), y)
                 /\ (\A l \in Elements(y) : Available(l, t)) => Fits(t, Tail(todo[t]), y)
           /\ Next1(t) = "batch" => held[t] = <<>> \/ "check" \in Elements(todo[t])
           /\ "check" \in Elements(Tail(todo[t])) =>
                 "check" \in Elements(todo[t]) /\ Next1(t) # "check"
<1> DEFINE p == todo[t]
<1>1. /\ p \in Seq(Steps) /\ Path(held[t], p, <<>>) /\ Once(p)
      /\ t # Main \/ ~conf.tickless => "check" \notin Elements(p)
      /\ t \in Helpers \ conf.helpers => p = <<>>
      /\ p # <<>> /\ Next1(t) = Head(p)
  BY DEF Structure, Typed, Paths, HandlerInMain, Idle, Next1
<1> HIDE DEF p
<1>2. PICK y \in Stacks : Does(held[t], Head(p), y) /\ Path(y, Tail(p), <<>>)
  BY <1>1, FirstOnPath
<1>3. Head(p) = "batch" => held[t] = <<>> \/ "check" \in Elements(p)
  BY <1>1, FirstOnPath
<1>4. /\ Tail(p) \in Seq(Steps) /\ Elements(Tail(p)) \subseteq Elements(p) /\ Head(p) \in Steps
      /\ Once(Tail(p)) /\ (Head(p) = "check" => "check" \notin Elements(Tail(p)))
  BY <1>1, TailFacts
<1>5. (\A l \in Elements(y) : Available(l, t)) => Fits(t, Tail(p), y)
  BY <1>1, <1>2, <1>4 DEF Fits
<1> QED BY <1>1, <1>2, <1>3, <1>4, <1>5 DEF p

\* A step that takes no lock and gives none back.
LEMMA SameLocks ==
    ASSUME Structure, NEW t \in Threads, todo[t] # <<>>,
           Next1(t) \notin Locks \cup {"give", "caught"}
    PROVE  Fits(t, Tail(todo[t]), held[t])
<1>1. PICK y \in Stacks :
         /\ Does(held[t], Next1(t), y)
         /\ (\A l \in Elements(y) : Available(l, t)) => Fits(t, Tail(todo[t]), y)
  BY FirstDone
<1>2. y = held[t]
  BY <1>1 DEF Does
<1> QED BY <1>1, <1>2, Mine DEF Held

\* A whole program, for a thread that holds no lock.
LEMMA ProgramFits ==
    ASSUME NEW t \in Threads, NEW p, Program(p, <<>>, <<>>), t = Main \/ t \in conf.helpers \/ p = <<>>
    PROVE  Fits(t, p, <<>>) /\ "check" \notin Elements(p)
<1>1. Elements(<<>>) = {}
  BY NoLocks
<1>2. Once(p)
  BY DEF Program, Once, Elements
<1> QED BY <1>1, <1>2, WorkerAssumption DEF Program, Fits, Threads

-----------------------------------------------------------------------------
(* Exceptions.                                                             *)

LEMMA SwallowMoves ==
    ASSUME Structure, NEW t \in Threads, Logging(t), Swallow(t)
    PROVE  \E p, x : /\ Moves(t, p, x) /\ Fits(t, p, x)
                     /\ "check" \in Elements(p) =>
                           "check" \in Elements(todo[t]) /\ Next1(t) # "check"
                     /\ todo[t] # <<>>
<1> DEFINE s == todo[t]
           r == held[t]
           c == FirstOf("caught", s)
           m == FirstOf("log", r)
           p == SubSeq(s, c, Len(s))
           x == SubSeq(r, 1, m)
<1>1. /\ s \in Seq(Steps) /\ r \in Seq(Locks) /\ Path(r, s, <<>>) /\ Once(s)
      /\ t # Main \/ ~conf.tickless => "check" \notin Elements(s)
      /\ t \in Helpers \ conf.helpers => s = <<>>
      /\ "log" \in Elements(r)
      /\ \A l \in Elements(r) : Available(l, t)
  BY Mine DEF Structure, Typed, Paths, HandlerInMain, Idle, Logging, Held
<1>2. /\ todo' = [todo EXCEPT ![t] = p] /\ held' = [held EXCEPT ![t] = x]
      /\ todo \in [Threads -> Seq(Steps)] /\ held \in [Threads -> Seq(Locks)]
  BY DEF Swallow, KeptBySwallow, Structure, Typed
<1> HIDE DEF s, r
<1>3. c \in DOMAIN s /\ m \in DOMAIN r /\ Path(x, p, <<>>) /\ s[c] = "caught"
  BY <1>1, SwallowPath
<1> HIDE DEF c, m
<1>4. /\ p \in Seq(Steps) /\ Elements(p) \subseteq Elements(s) /\ Once(p)
      /\ s[1] = "check" => "check" \notin Elements(p)
  <2>1. s[1] = "check" => c > 1
    BY <1>1, <1>3
  <2> QED BY <1>1, <1>3, <2>1, RestFacts
<1>5. /\ x \in Seq(Locks) /\ Elements(x) \subseteq Elements(r)
  <2>1. x \in Seq(Locks) /\ DOMAIN x = 1 .. m /\ \A i \in 1 .. m : i \in DOMAIN r /\ x[i] = r[i]
    BY <1>1, <1>3
  <2> QED BY <2>1 DEF Elements
<1>6. s # <<>>
  BY <1>3
<1> HIDE DEF p, x
<1>7. Moves(t, p, x)
  BY <1>2, <1>4, <1>5 DEF Moves
<1>8. Fits(t, p, x)
  BY <1>1, <1>3, <1>4, <1>5, <1>6 DEF Fits
<1>9. s # <<>> => Next1(t) = s[1]
  BY <1>1 DEF Next1, s
<1> QED BY <1>4, <1>6, <1>7, <1>8, <1>9 DEF s

LEMMA UnwindMoves ==
    ASSUME Structure, NEW t \in Threads, NEW program, Unwind(t, program),
           Program(program, <<>>, <<>>), t = Main \/ program = <<>>
    PROVE  \E p, x : /\ Moves(t, p, x) /\ Fits(t, p, x)
                     /\ "check" \notin Elements(p)
<1>1. program \in Seq(Steps) /\ <<>> \in Seq(Locks)
  BY DEF Program
<1>2. Moves(t, program, <<>>)
  BY <1>1 DEF Unwind, KeptByUnwind, Moves, Structure, Typed
<1> QED BY <1>2, ProgramFits

LEMMA LandsSomewhere == ASSUME where \in Places, NEW exc PROVE Lands(exc)[1] \in Places
BY DEF Lands, InRun, InHandling, Places

LEMMA MainRaises ==
    ASSUME Structure, NEW exc, RaiseInMain(exc)
    PROVE  /\ \E p, x : /\ Moves(Main, p, x) /\ Fits(Main, p, x)
                        /\ "check" \in Elements(p) =>
                              "check" \in Elements(todo[Main]) /\ Next1(Main) # "check"
           /\ where' \in Places
<1>0. Main \in Threads /\ where \in Places
  BY DEF Threads, Structure, Typed
<1>1. CASE Logging(Main)
  <2>1. Swallow(Main)
    BY <1>1 DEF RaiseInMain
  <2>2. where' \in Places
    BY <1>0, <2>1 DEF Swallow
  <2> QED BY <1>0, <1>1, <2>1, <2>2, SwallowMoves
<1>2. CASE ~Logging(Main)
  <2>1. Unwind(Main, Lands(exc)[2]) /\ where' = Lands(exc)[1]
    BY <1>2 DEF RaiseInMain
  <2> QED BY <1>0, <2>1, UnwindMoves, LandsProgram, LandsSomewhere
<1> QED BY <1>1, <1>2

LEMMA HelperRaises ==
    ASSUME Structure, NEW t \in Helpers, todo[t] # <<>>, NEW exc \in Exceptions,
           RaiseInHelper(t, exc)
    PROVE  /\ \E p, x : Moves(t, p, x) /\ Fits(t, p, x)
           /\ where' \in Places
           /\ \/ UNCHANGED signals
              \/ conf.tickless /\ todo'[t] = <<>> /\ excInfo' = exc /\ signal' = TRUE
<1>0. t \in Threads /\ where \in Places /\ todo \in [Threads -> Seq(Steps)]
  BY DEF Threads, Structure, Typed
<1>1. CASE Logging(t)
  <2>1. Swallow(t) /\ UNCHANGED signals
    BY <1>1 DEF RaiseInHelper
  <2>2. where' \in Places
    BY <1>0, <2>1 DEF Swallow
  <2> QED BY <1>0, <1>1, <2>1, <2>2, SwallowMoves
<1>2. CASE ~Logging(t)
  <2>1. /\ Unwind(t, <<>>) /\ UNCHANGED where
        /\ IF conf.tickless THEN excInfo' = exc /\ signal' = TRUE ELSE UNCHANGED signals
    BY <1>2 DEF RaiseInHelper
  <2>2. Program(<<>>, <<>>, <<>>)
    BY EmptyProgram, NoLocks
  <2>3. todo'[t] = <<>>
    BY <1>0, <2>1 DEF Unwind
  <2> QED BY <1>0, <2>1, <2>2, <2>3, UnwindMoves
<1> QED BY <1>1, <1>2

-----------------------------------------------------------------------------
(* The invariant holds.                                                    *)

LEMMA Initially == Init => IInv
<1> SUFFICES ASSUME Init PROVE IInv
  OBVIOUS
<1> DEFINE p == Handshake \o Setup
<1>1. p \in Seq(Steps) /\ "check" \notin Elements(p) /\ Path(<<>>, p, <<>>)
  BY FirstProgram DEF Program
<1>2. /\ conf \in Configs /\ conf.strays \in Nat /\ excInfo = "none" /\ ~signal
      /\ todo = [t \in Threads |-> IF t = Main THEN p ELSE <<>>]
      /\ held = [t \in Threads |-> <<>>]
  BY WorkerAssumption DEF Init, Config
<1> HIDE DEF p
<1>3. Path(<<>>, <<>>, <<>>) /\ Elements(<<>>) = {}
  BY EmptyPath, NoLocks
<1>4. Typed
  <2>1. todo \in [Threads -> Seq(Steps)] /\ held \in [Threads -> Seq(Locks)]
    BY <1>1, <1>2
  <2>2. strays \in 0 .. conf.strays
    BY <1>2 DEF Init
  <2>3. where \in Places /\ excInfo \in Exceptions \cup {"none"}
    BY DEF Init, Places
  <2> QED BY <1>2, <2>1, <2>2, <2>3 DEF Init, Typed
<1>5. Paths
  BY <1>1, <1>2, <1>3 DEF Paths
<1>6. Exclusive
  BY <1>2, <1>3 DEF Exclusive, Held
<1>7. ASSUME NEW t \in Threads PROVE "check" \notin Elements(todo[t])
  BY <1>1, <1>2, <1>3
<1>8. HandlerInMain
  BY <1>2, <1>7 DEF HandlerInMain, Once, Elements
<1>9. Idle /\ \A t \in Helpers : todo[t] = <<>>
  BY <1>2, WorkerAssumption DEF Idle, Threads
<1>10. Quiet
  BY <1>2, <1>7, <1>9 DEF Quiet, AtRest, Threads
<1> QED BY <1>4, <1>5, <1>6, <1>8, <1>9, <1>10 DEF IInv, Structure

\* A step that leaves the signals alone and starts nothing.
LEMMA QuietStays ==
    ASSUME Quiet, conf' = conf, UNCHANGED signals,
           "check" \in Elements(todo'[Main]) => "check" \in Elements(todo[Main]),
           \A t \in Helpers : todo[t] = <<>> => todo'[t] = <<>>
    PROVE  Quiet'
<1>1. Quiet' <=> (conf'.tickless /\ conf'.prompt /\ conf'.strays = 0 => AtRest')
  BY DEF Quiet
<1>2. AtRest' <=> /\ signal' \/ "check" \in Elements(todo'[Main]) => excInfo' # "none"
                  /\ ~(signal' /\ "check" \in Elements(todo'[Main]))
                  /\ excInfo' # "none" => \A t \in Helpers : todo'[t] = <<>>
  BY DEF AtRest, Elements
<1> QED BY <1>1, <1>2 DEF Quiet, AtRest, signals

\* Such a step of one thread.
LEMMA PlainStep ==
    ASSUME IInv, NEW t \in Threads, NEW p, NEW x, Moves(t, p, x), Fits(t, p, x), Around,
           UNCHANGED signals,
           "check" \in Elements(p) => "check" \in Elements(todo[t]),
           t = Main \/ todo[t] # <<>>
    PROVE  IInv'
<1>1. Structure'
  BY MoveKeeps DEF IInv, Structure, Typed, HandlerInMain, signals
<1>2. "check" \in Elements(todo'[Main]) => "check" \in Elements(todo[Main])
  BY DEF Moves, Threads
<1>3. \A u \in Helpers : todo[u] = <<>> => todo'[u] = <<>>
  BY WorkerAssumption DEF Moves, Threads
<1> QED BY <1>1, <1>2, <1>3, QuietStays DEF IInv, Around

\* Nothing happens around a thread.
LEMMA Still == ASSUME Structure, UNCHANGED <<outside, where>> PROVE Around
BY DEF Structure, Typed, Around, outside

\* The thread does its first step, with the locks y then.
LEMMA DoneMoves ==
    ASSUME Structure, NEW t \in Threads, todo[t] # <<>>, Done(t),
           NEW y \in Seq(Locks), held' = [held EXCEPT ![t] = y]
    PROVE  Moves(t, Tail(todo[t]), y)
<1>1. Tail(todo[t]) \in Seq(Steps)
  BY TailFacts DEF Structure, Typed
<1> QED BY <1>1 DEF Done, Moves, Structure, Typed

LEMMA DoneInPlace ==
    ASSUME Structure, NEW t \in Threads, todo[t] # <<>>, Done(t), UNCHANGED held
    PROVE  Moves(t, Tail(todo[t]), held[t])
<1>1. held[t] \in Seq(Locks) /\ held' = [held EXCEPT ![t] = held[t]]
  BY DEF Structure, Typed
<1> QED BY <1>1, DoneMoves

LEMMA AcquireStep == ASSUME IInv, NEW t \in Threads, Acquire(t) PROVE IInv'
<1> DEFINE y == Append(held[t], Next1(t))
<1>1. Structure /\ todo[t] # <<>> /\ Next1(t) \in Locks /\ Available(Next1(t), t) /\ Done(t)
  BY DEF IInv, Acquire, Next1, Locks
<1>2. /\ Does(held[t], Next1(t), y)
      /\ (\A l \in Elements(y) : Available(l, t)) => Fits(t, Tail(todo[t]), y)
      /\ "check" \in Elements(Tail(todo[t])) => "check" \in Elements(todo[t])
  <2>1. PICK z \in Stacks :
           /\ Does(held[t], Next1(t), z)
           /\ (\A l \in Elements(z) : Available(l, t)) => Fits(t, Tail(todo[t]), z)
    BY <1>1, FirstDone
  <2>2. z = y
    BY <1>1, <2>1 DEF Does, Locks
  <2>3. "check" \in Elements(Tail(todo[t])) => "check" \in Elements(todo[t])
    BY <1>1, FirstDone
  <2> QED BY <2>1, <2>2, <2>3
<1>3. y \in Seq(Locks) /\ Elements(y) = Elements(held[t]) \cup {Next1(t)}
  <2>1. Next1(t) = "log" => "log" \notin Elements(held[t])
    BY <1>1, <1>2 DEF Does
  <2> QED BY <1>1, <2>1, Mine, PushFacts DEF Stacks
<1>4. held' = [held EXCEPT ![t] = y] /\ UNCHANGED <<outside, where, signals>>
  BY DEF Acquire
<1> HIDE DEF y
<1>5. \A l \in Elements(y) : Available(l, t)
  BY <1>1, <1>3, Mine DEF Held
<1>6. Moves(t, Tail(todo[t]), y)
  BY <1>1, <1>3, <1>4, DoneMoves
<1> QED BY <1>1, <1>2, <1>4, <1>5, <1>6, Still, PlainStep

LEMMA ReleaseStep == ASSUME IInv, NEW t \in Threads, Release(t) PROVE IInv'
<1>1. Structure /\ todo[t] # <<>> /\ Next1(t) \in {"give", "caught"} /\ Done(t)
  BY DEF IInv, Release, Next1
<1>2. PICK y \in Stacks :
         /\ Does(held[t], Next1(t), y)
         /\ (\A l \in Elements(y) : Available(l, t)) => Fits(t, Tail(todo[t]), y)
  BY <1>1, FirstDone
<1>3. "check" \in Elements(Tail(todo[t])) => "check" \in Elements(todo[t])
  BY <1>1, FirstDone
<1>4. PICK l \in Locks : held[t] = Append(y, l)
  <2>1. "log" \in Locks
    BY DEF Locks
  <2> QED BY <1>1, <1>2, <2>1 DEF Does, Locks
<1>5. y \in Seq(Locks) /\ Len(held[t]) - 1 = Len(y)
  BY <1>4 DEF Stacks
<1>6. SubSeq(held[t], 1, Len(held[t]) - 1) = y
  BY <1>4, <1>5, BeforeAppended
<1>7. Elements(y) \subseteq Held(t)
  BY <1>4, <1>5 DEF Elements, Held
<1>8. held' = [held EXCEPT ![t] = y] /\ UNCHANGED <<outside, where, signals>>
  BY <1>6 DEF Release
<1>9. Moves(t, Tail(todo[t]), y) /\ Fits(t, Tail(todo[t]), y)
  BY <1>1, <1>2, <1>5, <1>7, <1>8, Mine, DoneMoves
<1> QED BY <1>1, <1>3, <1>8, <1>9, Still, PlainStep

\* A step that takes and gives nothing, and is done.
LEMMA StepDone ==
    ASSUME IInv, NEW t \in Threads, todo[t] # <<>>, Done(t),
           Next1(t) \notin Locks \cup {"give", "caught"},
           UNCHANGED <<outside, where, held, signals>>
    PROVE  IInv'
<1>1. Structure
  BY DEF IInv
<1>2. /\ Moves(t, Tail(todo[t]), held[t]) /\ Fits(t, Tail(todo[t]), held[t])
      /\ "check" \in Elements(Tail(todo[t])) => "check" \in Elements(todo[t])
  BY <1>1, DoneInPlace, SameLocks, FirstDone
<1> QED BY <1>1, <1>2, Still, PlainStep

LEMMA RaiseStep ==
    ASSUME IInv, NEW t \in Threads, todo[t] # <<>>, NEW exc \in Exceptions, Raise(t, exc),
           UNCHANGED outside
    PROVE  IInv'
<1>1. Structure
  BY DEF IInv
<1>2. where' \in Places => Around
  BY <1>1 DEF Structure, Typed, Around, outside
<1>3. CASE t = Main
  <2>1. RaiseInMain(exc) /\ UNCHANGED signals
    BY <1>3 DEF Raise
  <2> QED BY <1>1, <1>2, <1>3, <2>1, MainRaises, PlainStep
<1>4. CASE t # Main
  <2>1. t \in Helpers /\ RaiseInHelper(t, exc)
    BY <1>4 DEF Raise, Threads
  <2>2. PICK p, x : Moves(t, p, x) /\ Fits(t, p, x)
    BY <1>1, <2>1, HelperRaises
  <2>3. Around
    BY <1>1, <1>2, <2>1, HelperRaises
  <2>4. CASE UNCHANGED signals
    BY <1>4, <2>2, <2>3, <2>4, PlainStep DEF Fits
  <2>5. CASE conf.tickless /\ todo'[t] = <<>> /\ excInfo' = exc /\ signal' = TRUE
    <3>1. Structure'
      BY <1>1, <2>2, <2>3, <2>5, MoveKeeps
    <3>2. ASSUME conf.prompt, conf.strays = 0 PROVE AtRest'
      <4>1. excInfo = "none" /\ "check" \notin Elements(todo[Main])
        BY <2>1, <2>5, <3>2 DEF IInv, Quiet, AtRest
      <4>2. todo'[Main] = todo[Main]
        BY <1>4, <2>2 DEF Moves, Threads
      <4>3. ASSUME NEW u \in Helpers PROVE todo'[u] = <<>>
        <5>1. t \in conf.helpers /\ \A v \in conf.helpers : v = t
          BY <1>1, <2>1, <2>5, WorkerAssumption DEF Structure, Typed, Idle
        <5>2. u # t => todo[u] = <<>>
          BY <1>1, <5>1 DEF Structure, Idle
        <5> QED BY <2>2, <2>5, <5>2 DEF Moves, Threads
      <4>4. excInfo' # "none"
        BY <2>5 DEF Exceptions
      <4> QED BY <4>1, <4>2, <4>3, <4>4 DEF AtRest, Elements
    <3>3. Quiet'
      BY <2>3, <3>2 DEF Quiet, Around
    <3> QED BY <3>1, <3>3 DEF IInv
  <2> QED BY <1>1, <2>1, <2>4, <2>5, HelperRaises
<1> QED BY <1>3, <1>4

LEMMA UsePipeStep == ASSUME IInv, NEW t \in Threads, UsePipe(t) PROVE IInv'
<1>1. /\ todo[t] # <<>> /\ Next1(t) \notin Locks \cup {"give", "caught"}
      /\ UNCHANGED outside
  BY DEF UsePipe, Next1, Kinds, Locks
<1>2. CASE closed
  BY <1>1, <1>2, RaiseStep DEF UsePipe, Exceptions
<1>3. CASE ~closed
  <2>1. Done(t) /\ UNCHANGED <<outside, where, held, signals>>
    BY <1>1, <1>3 DEF UsePipe
  <2> QED BY <1>1, <2>1, StepDone
<1> QED BY <1>2, <1>3

LEMMA UserStep ==
    ASSUME IInv, NEW t \in Threads, UserReturns(t) \/ UserRaises(t) PROVE IInv'
<1>1. todo[t] # <<>> /\ Next1(t) \notin Locks \cup {"give", "caught"}
  BY DEF UserReturns, UserRaises, Next1, Locks
<1>2. CASE UserReturns(t)
  BY <1>1, <1>2, StepDone DEF UserReturns
<1>3. CASE UserRaises(t)
  BY <1>1, <1>3, RaiseStep DEF UserRaises, Exceptions
<1> QED BY <1>2, <1>3

\* A thread that holds no lock starts a program.
LEMMA StartMoves ==
    ASSUME Structure, NEW t \in Threads, held[t] = <<>>, NEW p, Program(p, <<>>, <<>>),
           t = Main \/ t \in conf.helpers \/ p = <<>>,
           todo' = [todo EXCEPT ![t] = p], UNCHANGED held
    PROVE  Moves(t, p, <<>>) /\ Fits(t, p, <<>>) /\ "check" \notin Elements(p)
<1>1. Moves(t, p, <<>>)
  BY DEF Moves, Structure, Typed, Program
<1> QED BY <1>1, ProgramFits

LEMMA InstallStep == ASSUME IInv, Install PROVE IInv'
<1>1. /\ Main \in Threads /\ Structure /\ todo[Main] # <<>> /\ Next1(Main) = "install"
      /\ UNCHANGED <<outside, held, signals>> /\ where' = "initialize"
  BY DEF IInv, Install, Threads, Next1
<1>2. held[Main] = <<>>
  <2>1. PICK y \in Stacks : Does(held[Main], "install", y)
    BY <1>1, FirstDone
  <2> QED BY <2>1 DEF Does, Locks
<1>3. PICK code \in UserCode : todo' = [todo EXCEPT ![Main] = code]
  BY DEF Install
<1>4. Program(code, <<>>, <<>>)
  BY NoLocks, UserProgram
<1>5. Moves(Main, code, <<>>) /\ Fits(Main, code, <<>>) /\ "check" \notin Elements(code)
  BY <1>1, <1>2, <1>3, <1>4, StartMoves
<1>6. Around
  BY <1>1 DEF Structure, Typed, Around, outside, Places
<1> QED BY <1>1, <1>5, <1>6, PlainStep

LEMMA GoOnStep == ASSUME IInv, GoOn PROVE IInv'
<1>1. /\ Main \in Threads /\ Structure /\ todo[Main] = <<>> /\ UNCHANGED <<outside, held, signals>>
  BY DEF IInv, GoOn, Threads
<1>2. held[Main] = <<>>
  BY <1>1, Mine
<1>3. Around
  BY <1>1 DEF Structure, Typed, Around, outside, Places, GoOn
<1>4. PICK p : Program(p, <<>>, <<>>) /\ todo' = [todo EXCEPT ![Main] = p]
  <2>1. CASE UNCHANGED todo
    <3>1. todo' = [todo EXCEPT ![Main] = <<>>]
      BY <1>1, <2>1 DEF Structure, Typed
    <3> QED BY <3>1, EmptyProgram, NoLocks
  <2>2. CASE \E program \in Runs : todo' = [todo EXCEPT ![Main] = program]
    BY <2>2, RunsProgram
  <2> QED BY <2>1, <2>2 DEF GoOn
<1>5. Moves(Main, p, <<>>) /\ Fits(Main, p, <<>>) /\ "check" \notin Elements(p)
  BY <1>1, <1>2, <1>4, StartMoves
<1> QED BY <1>1, <1>3, <1>5, PlainStep

LEMMA HelperStartsStep == ASSUME IInv, NEW t \in Helpers, HelperStarts(t) PROVE IInv'
<1>1. /\ t \in Threads /\ Structure /\ todo[t] = <<>> /\ t \in conf.helpers
      /\ UNCHANGED <<outside, where, held, signals>>
      /\ conf.tickless /\ conf.prompt => Settled
  BY DEF IInv, HelperStarts, Threads
<1>2. held[t] = <<>>
  BY <1>1, Mine
<1>3. PICK p \in HelperRuns : todo' = [todo EXCEPT ![t] = p]
  BY DEF HelperStarts
<1>4. Moves(t, p, <<>>) /\ Fits(t, p, <<>>)
  BY <1>1, <1>2, <1>3, HelperProgram, StartMoves
<1>5. Structure'
  BY <1>1, <1>4, Still, MoveKeeps DEF Structure, Typed, HandlerInMain, signals
<1>6. todo'[Main] = todo[Main] /\ conf' = conf /\ UNCHANGED signals
  BY <1>1, <1>4, WorkerAssumption DEF Moves, Threads, outside
<1>7. Quiet'
  BY <1>1, <1>6 DEF IInv, Quiet, AtRest, Elements, Settled, signals
<1> QED BY <1>5, <1>7 DEF IInv

LEMMA HandleSignalStep == ASSUME IInv, HandleSignal PROVE IInv'
<1> DEFINE s == todo[Main]
           p == SignalHandler \o s
           x == held[Main]
<1>1. /\ Main \in Threads /\ Structure /\ signal /\ "check" \notin Elements(s) /\ signal' = FALSE
      /\ UNCHANGED <<outside, where, held, excInfo>> /\ todo' = [todo EXCEPT ![Main] = p]
  BY DEF IInv, HandleSignal, Threads
<1>2. /\ s \in Seq(Steps) /\ Path(x, s, <<>>) /\ x \in Stacks /\ x \in Seq(Locks)
      /\ SignalHandler \in Seq(Steps) /\ conf.tickless
      /\ \A l \in Elements(x) : Available(l, Main)
  BY <1>1, Mine DEF Structure, Paths, HandlerInMain, SignalHandler, Steps, Locks, Points, Held
<1>3. p \in Seq(Steps) /\ Once(p) /\ Path(x, p, <<>>)
  BY <1>1, <1>2, HandlerFacts, HandlerPath, PathThenPath
<1> HIDE DEF p
<1>4. held' = [held EXCEPT ![Main] = x]
  BY <1>1 DEF Structure, Typed
<1>5. Moves(Main, p, x)
  BY <1>1, <1>2, <1>3, <1>4 DEF Moves, Structure, Typed
<1>6. Fits(Main, p, x)
  BY <1>1, <1>2, <1>3, WorkerAssumption DEF Fits
<1>7. Structure'
  BY <1>1, <1>5, <1>6, Still, MoveKeeps DEF Structure, Typed
<1>8. Quiet'
  <2>1. conf' = conf /\ excInfo' = excInfo
    BY <1>1 DEF outside
  <2>2. \A t \in Helpers : todo'[t] = todo[t]
    BY <1>5, WorkerAssumption DEF Moves, Threads
  <2> QED BY <1>1, <2>1, <2>2 DEF IInv, Quiet, AtRest
<1> QED BY <1>7, <1>8 DEF IInv

LEMMA CheckStep == ASSUME IInv, CheckExcInfo PROVE IInv'
<1>1. /\ Main \in Threads /\ Structure /\ todo[Main] # <<>> /\ Next1(Main) = "check"
      /\ UNCHANGED <<outside, signal>>
  BY DEF IInv, CheckExcInfo, Threads, Next1
<1>2. "check" \in Elements(todo[Main])
  BY <1>1 DEF Structure, Typed, Next1, Elements
<1>3. CASE excInfo = "none"
  <2>1. Done(Main) /\ UNCHANGED <<outside, where, held, signals>>
    BY <1>1, <1>3 DEF CheckExcInfo, signals
  <2> QED BY <1>1, <2>1, StepDone DEF Locks
<1>4. CASE excInfo # "none"
  <2>1. RaiseInMain(excInfo) /\ excInfo' = "none"
    BY <1>4 DEF CheckExcInfo
  <2>2. PICK p, x : Moves(Main, p, x) /\ Fits(Main, p, x) /\ "check" \notin Elements(p)
    BY <1>1, <2>1, MainRaises
  <2>3. Around
    BY <1>1, <2>1, MainRaises DEF Structure, Typed, Around, outside
  <2>4. Structure'
    BY <1>1, <2>1, <2>2, <2>3, MoveKeeps DEF Structure, Typed, HandlerInMain
  <2>5. Quiet'
    <3>1. todo'[Main] = p
      BY <2>2 DEF Moves
    <3>2. conf.tickless /\ conf.prompt /\ conf.strays = 0 => ~signal'
      BY <1>1, <1>2 DEF IInv, Quiet, AtRest
    <3>3. "check" \notin Elements(todo'[Main])
      BY <2>2, <3>1
    <3> QED BY <2>1, <2>3, <3>2, <3>3 DEF Quiet, AtRest, Around, Elements
  <2> QED BY <2>4, <2>5 DEF IInv
<1> QED BY <1>3, <1>4

\* The steps of the signal and of Storm leave the threads where they are.
LEMMA OutsideStep ==
    ASSUME IInv, StraySignal \/ StormGoesAway \/ UNCHANGED vars PROVE IInv'
<1>1. /\ conf' = conf /\ UNCHANGED <<where, todo, held, excInfo>> /\ strays' \in 0 .. conf.strays
      /\ closed' \in BOOLEAN /\ signal' \in BOOLEAN
      /\ \/ signal' = signal
         \/ conf.tickless /\ conf.strays # 0
  <2>1. /\ closed \in BOOLEAN /\ signal \in BOOLEAN /\ strays \in 0 .. conf.strays
        /\ conf.strays \in Nat
    BY WorkerAssumption DEF IInv, Structure, Typed, Config
  <2>2. CASE StraySignal
    <3>1. strays' \in 0 .. conf.strays /\ conf.strays # 0
      <4>1. strays > 0 /\ strays' = strays - 1
        BY <2>2 DEF StraySignal
      <4> QED BY <2>1, <4>1
    <3> QED BY <2>1, <2>2, <3>1 DEF StraySignal
  <2>3. CASE StormGoesAway \/ UNCHANGED vars
    BY <2>1, <2>3 DEF StormGoesAway, signals, vars, outside
  <2> QED BY <2>2, <2>3
<1>2. Typed' /\ Paths' /\ Exclusive' /\ Idle'
  BY <1>1 DEF IInv, Structure, Typed, Paths, Exclusive, Held, Idle
<1>3. HandlerInMain'
  BY <1>1 DEF IInv, Structure, HandlerInMain
<1>4. Quiet'
  BY <1>1 DEF IInv, Quiet, AtRest
<1> QED BY <1>2, <1>3, <1>4 DEF IInv, Structure

LEMMA Stepwise == IInv /\ [Next]_vars => IInv'
<1> SUFFICES ASSUME IInv, [Next]_vars PROVE IInv'
  OBVIOUS
<1>1. CASE \E t \in Threads : Acquire(t) \/ Works(t)
  BY <1>1, AcquireStep, ReleaseStep, UsePipeStep, UserStep DEF Works
<1>2. CASE Install
  BY <1>2, InstallStep
<1>3. CASE GoOn
  BY <1>3, GoOnStep
<1>4. CASE CheckExcInfo
  BY <1>4, CheckStep
<1>5. CASE \E t \in Helpers : HelperStarts(t)
  BY <1>5, HelperStartsStep
<1>6. CASE HandleSignal
  BY <1>6, HandleSignalStep
<1>7. CASE StraySignal \/ StormGoesAway \/ UNCHANGED vars
  BY <1>7, OutsideStep
<1> QED BY <1>1, <1>2, <1>3, <1>4, <1>5, <1>6, <1>7 DEF Next

LEMMA Invariance == Spec => []IInv
BY Initially, Stepwise, PTL DEF Spec

\* Each thread is in one of the places of the code, and holds only locks that
\* there are: whatever it does, it gives back what it took.
THEOREM TypeCorrect == Spec => []TypeOK
<1>1. IInv => TypeOK
  BY Mine DEF IInv, Structure, Typed, TypeOK
<1> QED BY <1>1, Invariance, PTL

-----------------------------------------------------------------------------
(* Who waits for whom.                                                     *)

\* A thread that waits for the batch lock holds no other, unless the signal
\* handler has interrupted it.
LEMMA BatchTakers ==
    ASSUME IInv, NEW S \in SUBSET Threads, Stuck(S), NEW t \in S, Next1(t) = "batch",
           ~Interrupted(t)
    PROVE  held[t] = <<>>
<1> SUFFICES ASSUME held[t] # <<>> PROVE FALSE
  OBVIOUS
<1>1. Structure /\ t \in Threads /\ todo[t] # <<>>
  BY DEF IInv, Next1
<1>2. "check" \in Elements(todo[t])
  BY <1>1, FirstDone
<1>3. t = Main /\ conf.tickless
  BY <1>1, <1>2 DEF Structure, HandlerInMain
<1>4. conf.prompt /\ conf.strays = 0
  <2>1. conf.strays \in Nat /\ conf.prompt \in BOOLEAN
    BY WorkerAssumption DEF IInv, Structure, Typed, Config
  <2> QED BY <1>3, <2>1 DEF Interrupted
<1>5. \A u \in Helpers : todo[u] = <<>>
  BY <1>2, <1>3, <1>4 DEF IInv, Quiet, AtRest
<1>6. PICK u \in S \ {t} : Next1(t) \in Held(u)
  BY DEF Stuck
<1>7. todo[u] # <<>> /\ u \in Threads
  BY <1>6 DEF Stuck, Waiting, Next1, Locks
<1> QED BY <1>3, <1>5, <1>6, <1>7 DEF Threads

\* What a thread that waits for a lock can hold.
LEMMA WaitersHold ==
    ASSUME IInv, NEW S \in SUBSET Threads, Stuck(S), NEW t \in S,
           ~WarnsInEmit(t), ~Interrupted(t)
    PROVE  /\ Next1(t) \in Locks /\ Next1(t) \notin Held(t)
           /\ Next1(t) = "batch" => Held(t) = {}
           /\ Next1(t) = "reader" => Held(t) \subseteq {"batch"}
           /\ Next1(t) = "log" => Held(t) \subseteq {"batch", "reader"}
<1>1. /\ Structure /\ t \in Threads /\ todo[t] # <<>> /\ Next1(t) \in Locks
      /\ \E u \in S \ {t} : Next1(t) \in Held(u)
  BY DEF IInv, Stuck, Waiting, Next1, Locks
<1>2. Next1(t) \notin Held(t)
  BY <1>1 DEF Structure, Exclusive
<1>3. /\ Held(t) \subseteq Locks
  BY <1>1 DEF Structure, Typed, Held, Elements
<1>4. CASE Next1(t) = "batch"
  BY <1>1, <1>2, <1>4, BatchTakers, NoLocks DEF Held
<1>5. CASE Next1(t) = "reader"
  <2>1. PICK y : Does(held[t], "reader", y)
    BY <1>1, <1>5, FirstDone
  <2> QED BY <1>1, <1>2, <1>5, <2>1 DEF Does, Locks, Held
<1>6. CASE Next1(t) = "log"
  BY <1>1, <1>2, <1>3, <1>6 DEF WarnsInEmit, Locks
<1> QED BY <1>1, <1>2, <1>4, <1>5, <1>6

\* The holder of the lock some thread of S waits for waits for one that comes
\* after it: there is none after the writer lock.
LEMMA Ordered == IInv => DeadlockNeedsNesting
<1> SUFFICES ASSUME IInv, NEW S \in SUBSET Threads, Stuck(S),
                    \A t \in S : ~WarnsInEmit(t) /\ ~Interrupted(t)
             PROVE  FALSE
  BY DEF DeadlockNeedsNesting
<1>1. \A t \in S : /\ Next1(t) \in Locks /\ Next1(t) \notin Held(t)
                   /\ Next1(t) = "batch" => Held(t) = {}
                   /\ Next1(t) = "reader" => Held(t) \subseteq {"batch"}
                   /\ Next1(t) = "log" => Held(t) \subseteq {"batch", "reader"}
  BY WaitersHold
<1>2. S # {} /\ \A t \in S : \E u \in S : Next1(t) \in Held(u)
  BY DEF Stuck
<1>3. \A t \in S : Next1(t) # "writer"
  BY <1>1, <1>2 DEF Locks
<1>4. \A t \in S : Next1(t) # "log"
  BY <1>1, <1>2, <1>3 DEF Locks
<1>5. \A t \in S : Next1(t) # "reader"
  BY <1>1, <1>2, <1>3, <1>4 DEF Locks
<1> QED BY <1>1, <1>2, <1>3, <1>4, <1>5 DEF Locks

\* However many threads the user starts, and whatever the configuration: the
\* threads of a worker wait for each other for ever only when one logs a warning
\* in an emit that waits for task IDs, or when the signal handler interrupts.
THEOREM WaitsOnlyWhenNested == Spec => []DeadlockNeedsNesting
BY Invariance, Ordered, PTL

=============================================================================
