----------------------------- MODULE SubmitProofs -----------------------------
(***************************************************************************)
(* Proofs about Submit.                                                    *)
(***************************************************************************)
EXTENDS Submit, FiniteSetTheorems, SequenceTheorems, TLAPS

-----------------------------------------------------------------------------
(* Dicts.                                                                  *)

\* What u is after u = dict and u.update(new).
Update(u, dict, new) == /\ DOMAIN u = DOMAIN dict \cup DOMAIN new
                        /\ \A k \in DOMAIN new : u[k] = new[k]
                        /\ \A k \in DOMAIN dict \ DOMAIN new : u[k] = dict[k]
Assign(u, dict, key, v) == /\ DOMAIN u = DOMAIN dict \cup {key}
                           /\ u[key] = v
                           /\ \A k \in DOMAIN dict : k # key => u[k] = dict[k]

LEMMA UpdatedIs ==
    ASSUME NEW dict, NEW new
    PROVE  Update(Updated(dict, new), dict, new)
<1>1. {Over(d, n) : d \in {dict}, n \in {new}} = {Over(dict, new)}
  OBVIOUS
<1>2. Updated(dict, new) = Over(dict, new)
  BY <1>1 DEF Updated
<1> QED BY <1>2 DEF Over, Update

LEMMA UpdatedWithOne ==
    ASSUME NEW dict, NEW key, NEW v
    PROVE  Assign(Updated(dict, Only(key, v)), dict, key, v)
<1> DEFINE new == Only(key, v)
           u == Updated(dict, new)
<1>1. DOMAIN new = {key} /\ new[key] = v
  BY DEF Only
<1>2. Update(u, dict, new)
  BY UpdatedIs
<1> HIDE DEF new, u
<1>3. Assign(u, dict, key, v)
  BY <1>1, <1>2 DEF Assign, Update
<1> QED BY <1>3 DEF u, new

\* dict.get after dict.update.
LEMMA GetUpdated ==
    ASSUME NEW dict, NEW new, NEW k
    PROVE  /\ k \in DOMAIN new => Get(Updated(dict, new), k) = new[k]
           /\ k \notin DOMAIN new => Get(Updated(dict, new), k) = Get(dict, k)
<1> DEFINE u == Updated(dict, new)
<1>1. Update(u, dict, new)
  BY UpdatedIs
<1> HIDE DEF u
<1>2. k \in DOMAIN new => Get(u, k) = new[k]
  BY <1>1 DEF Get, Update
<1>3. k \notin DOMAIN new => Get(u, k) = Get(dict, k)
  BY <1>1 DEF Get, Update
<1> QED BY <1>2, <1>3 DEF u

LEMMA GetUpdatedWithOne ==
    ASSUME NEW dict, NEW key, NEW v, NEW k
    PROVE  /\ Get(Updated(dict, Only(key, v)), key) = v
           /\ k # key => Get(Updated(dict, Only(key, v)), k) = Get(dict, k)
<1> DEFINE new == Only(key, v)
<1>1. DOMAIN new = {key} /\ new[key] = v
  BY DEF Only
<1> HIDE DEF new
<1>2. Get(Updated(dict, new), key) = v
  BY <1>1, GetUpdated
<1>3. k # key => Get(Updated(dict, new), k) = Get(dict, k)
  BY <1>1, GetUpdated
<1> QED BY <1>2, <1>3 DEF new

LEMMA BeforeAppended ==
    ASSUME NEW S, NEW s \in Seq(S), NEW x \in S
    PROVE  SubSeq(Append(s, x), 1, Len(s)) = s
<1> DEFINE a == Append(s, x)
<1>1. a \in Seq(S) /\ Len(a) = Len(s) + 1 /\ Len(s) \in Nat /\ \A i \in 1 .. Len(s) : a[i] = s[i]
  OBVIOUS
<1> HIDE DEF a
<1>2. \A i \in 1 .. Len(s) : a[i] \in S
  BY <1>1
<1> DEFINE p == SubSeq(a, 1, Len(s))
<1>3. /\ p \in Seq(S)
      /\ Len(p) = IF 1 <= Len(s) THEN Len(s) - 1 + 1 ELSE 0
      /\ \A i \in 1 .. Len(s) - 1 + 1 : p[i] = a[1 + i - 1]
  BY <1>1, <1>2, SubSeqProperties
<1> HIDE DEF p
<1>4. Len(p) = Len(s) /\ \A i \in 1 .. Len(s) : p[i] = s[i]
  BY <1>1, <1>3
<1>5. p = s
  BY <1>3, <1>4, SeqEqual
<1> QED BY <1>5 DEF p, a

-----------------------------------------------------------------------------
(* The topology of a request, whatever the number of workers.              *)

Numbers(r) == {r.workers, Supervisors} \ {None}
Settings(r, n) == IF NeedsWorkers(ResolveOptions(r)) THEN WithWorkers(ResolveOptions(r), n)
                                                     ELSE ResolveOptions(r)
Prepared(r, t) ==
    /\ MissingParallelism(r.hints, Chosen(r.env, Env)) = {}
    /\ \E n \in Numbers(r) :
          t = [options |-> Updated(Settings(r, n), Only(OriginalName, Chosen(r.name, Files))),
               commands |-> RewriteExecutionCommands(r.commands),
               par |-> ResolveParallelism(r.hints, Chosen(r.env, Env))]

\* VirtualenvAgrees and RunsAsAsked, of one request and one topology.
Agrees(r, t) ==
    LET bin == <<"..", t.options[BlobMap][r.venvKey].localname, "bin">>
    IN  /\ "PATH" \in DOMAIN t.options[Environment]
        /\ t.options[Environment]["PATH"][1] = bin
        /\ \A c \in DOMAIN r.commands : r.commands[c] \in RunCommands =>
               SubSeq(t.commands[c], 1, 3) = bin
        /\ \A k \in DOMAIN Blobs(r) :
               t.options[BlobMap][k].localname # t.options[BlobMap][r.venvKey].localname

AsAsked(r, t) ==
    LET env == Chosen(r.env, Env)
    IN  /\ \A k \in (UNION {DOMAIN Sources(r)[i] : i \in 1 .. 4}) \ Derived(r) :
               MostSpecific(r, k) # None => Get(t.options, k) = MostSpecific(r, k)
        /\ Get(t.options, Workers) # None
        /\ \A c \in DOMAIN r.hints : /\ env \in DOMAIN r.hints[c]
                                     /\ t.par[c] = r.hints[c][env]

\* What blobstore_options has set stays, and everything else is what was
\* merged, but for the settings derived later.
LEMMA ResolvedIs ==
    ASSUME NEW r
    PROVE  LET o == ResolveOptions(r)
           IN  /\ {BlobMap, Environment} \subseteq DOMAIN o
               /\ o[BlobMap] = BlobstoreMap(r)
               /\ \E u, e : o[Environment] = u /\ Assign(u, e, "PATH", WorkerPath)
               /\ \A k : k \notin Derived(r) => Get(o, k) = Get(Merged(r), k)
               /\ Get(o, Workers) = Get(Merged(r), Workers)
<1> DEFINE m == Merged(r)
           given == Get(m, Environment)
           e == IF given = None THEN Empty ELSE given
           u == Updated(e, Only("PATH", WorkerPath))
           map == BlobstoreMap(r)
           b == BlobstoreOptions(r, given)
           v == WithVirtualenv(r, m)
           o == ResolveOptions(r)
           names == BlobMap # Environment /\ LogLevel \notin {BlobMap, Environment}
                    /\ Debug \notin {BlobMap, Environment} /\ Workers \notin {BlobMap, Environment}
                    /\ Workers # LogLevel
<1>0. names
  BY DEF BlobMap, Environment, LogLevel, Debug, Workers
<1>1. Assign(u, e, "PATH", WorkerPath)
  BY UpdatedWithOne
<1>2. b = Updated(Only(BlobMap, map), Only(Environment, u))
  BY DEF BlobstoreOptions
<1>3. Update(v, m, b) /\ \A k : k \notin DOMAIN b => Get(v, k) = Get(m, k)
  BY UpdatedIs, GetUpdated DEF WithVirtualenv
<1>4. o = IF Truthy(Get(v, Debug)) THEN Updated(v, Only(LogLevel, "debug")) ELSE v
  BY DEF ResolveOptions
<1> HIDE DEF m, u, map, b, v, o, e, given
<1>5. DOMAIN Only(BlobMap, map) = {BlobMap} /\ Only(BlobMap, map)[BlobMap] = map
  BY DEF Only
<1>6. Assign(b, Only(BlobMap, map), Environment, u)
  BY <1>2, UpdatedWithOne
<1>7. DOMAIN b = {BlobMap, Environment} /\ b[BlobMap] = map /\ b[Environment] = u
  BY <1>0, <1>5, <1>6 DEF Assign
<1>8. {BlobMap, Environment} \subseteq DOMAIN v /\ v[BlobMap] = map /\ v[Environment] = u
  BY <1>3, <1>7 DEF Update
<1>9. \A k : k \notin {BlobMap, Environment} => Get(v, k) = Get(m, k)
  BY <1>3, <1>7
<1>10. CASE Truthy(Get(v, Debug))
  <2>1. Assign(o, v, LogLevel, "debug") /\ \A k : k # LogLevel => Get(o, k) = Get(v, k)
    BY <1>4, <1>10, UpdatedWithOne, GetUpdatedWithOne
  <2>2. {BlobMap, Environment} \subseteq DOMAIN o /\ o[BlobMap] = map /\ o[Environment] = u
    BY <1>0, <1>8, <2>1 DEF Assign
  <2>3. Truthy(Get(m, Debug))
    BY <1>0, <1>9, <1>10
  <2>4. {BlobMap, Environment, LogLevel} \subseteq Derived(r)
    BY <2>3 DEF Derived, m
  <2> QED BY <1>0, <1>1, <1>9, <2>1, <2>2, <2>4 DEF m, map, o
<1>11. CASE ~Truthy(Get(v, Debug))
  <2>1. o = v
    BY <1>4, <1>11
  <2>2. {BlobMap, Environment} \subseteq Derived(r)
    BY DEF Derived
  <2> QED BY <1>0, <1>1, <1>8, <1>9, <2>1, <2>2 DEF m, map, o
<1> QED BY <1>10, <1>11

LEMMA PreparedIs ==
    ASSUME NEW r, NEW t, Prepared(r, t)
    PROVE  /\ {BlobMap, Environment} \subseteq DOMAIN t.options
           /\ t.options[BlobMap] = BlobstoreMap(r)
           /\ \E u, e : t.options[Environment] = u /\ Assign(u, e, "PATH", WorkerPath)
           /\ \A k : k \notin Derived(r) /\ k # Workers => Get(t.options, k) = Get(Merged(r), k)
           /\ Get(Merged(r), Workers) # None =>
                  Get(t.options, Workers) = Get(Merged(r), Workers)
           /\ Get(t.options, Workers) # None
           /\ t.commands = RewriteExecutionCommands(r.commands)
           /\ t.par = ResolveParallelism(r.hints, Chosen(r.env, Env))
<1> DEFINE o == ResolveOptions(r)
<1>1. PICK n \in Numbers(r) :
         t = [options |-> Updated(Settings(r, n), Only(OriginalName, Chosen(r.name, Files))),
              commands |-> RewriteExecutionCommands(r.commands),
              par |-> ResolveParallelism(r.hints, Chosen(r.env, Env))]
  BY DEF Prepared
<1> DEFINE s == Settings(r, n)
<1>2. /\ t.options = Updated(s, Only(OriginalName, Chosen(r.name, Files)))
      /\ t.commands = RewriteExecutionCommands(r.commands)
      /\ t.par = ResolveParallelism(r.hints, Chosen(r.env, Env))
  BY <1>1
<1>3. s = IF Get(o, Workers) = None THEN Updated(o, Only(Workers, n)) ELSE o
  BY DEF Settings, NeedsWorkers, WithWorkers
<1>4. n # None
  BY DEF Numbers
<1> HIDE DEF o, s
<1>5. /\ {BlobMap, Environment} \subseteq DOMAIN o
      /\ o[BlobMap] = BlobstoreMap(r)
      /\ \E u, e : o[Environment] = u /\ Assign(u, e, "PATH", WorkerPath)
      /\ \A k : k \notin Derived(r) => Get(o, k) = Get(Merged(r), k)
      /\ Get(o, Workers) = Get(Merged(r), Workers)
  BY ResolvedIs DEF o
<1>0. {Workers, OriginalName} \cap {BlobMap, Environment} = {}
  BY DEF Workers, OriginalName, BlobMap, Environment
<1>6. {BlobMap, Environment} \subseteq DOMAIN s
      /\ s[BlobMap] = o[BlobMap] /\ s[Environment] = o[Environment]
  <2>1. s = o \/ Assign(s, o, Workers, n)
    BY <1>3, UpdatedWithOne
  <2> QED BY <1>0, <1>5, <2>1 DEF Assign
<1>7. {BlobMap, Environment} \subseteq DOMAIN t.options
      /\ t.options[BlobMap] = s[BlobMap] /\ t.options[Environment] = s[Environment]
  <2>1. Assign(t.options, s, OriginalName, Chosen(r.name, Files))
    BY <1>2, UpdatedWithOne
  <2> QED BY <1>0, <1>6, <2>1 DEF Assign
<1>8. \A k : k # Workers => Get(s, k) = Get(o, k)
  BY <1>3, GetUpdatedWithOne
<1>9. Get(s, Workers) # None /\ (Get(o, Workers) # None => s = o)
  BY <1>3, <1>4, GetUpdatedWithOne
<1>10. \A k : k # OriginalName => Get(t.options, k) = Get(s, k)
  BY <1>2, GetUpdatedWithOne
<1>11. Workers # OriginalName /\ OriginalName \in Derived(r)
  BY DEF Workers, OriginalName, Derived
<1> QED BY <1>2, <1>5, <1>6, <1>7, <1>8, <1>9, <1>10, <1>11

\* The file names of other blobs differ from that of the virtualenv.
LEMMA PreparedAgrees ==
    ASSUME NEW r, NEW t, Prepared(r, t), OptionsAreUsable(r)
    PROVE  Agrees(r, t)
<1> DEFINE map == t.options[BlobMap]
<1>1. /\ map = BlobstoreMap(r)
      /\ t.commands = RewriteExecutionCommands(r.commands)
  BY PreparedIs
<1>2. /\ r.venvKey \notin DOMAIN Blobs(r)
      /\ \A k \in DOMAIN Blobs(r) : Blobs(r)[k] # VirtualenvName
  BY DEF OptionsAreUsable, BlobsAreUsable, IsPlainFileName
<1> DEFINE venv == Only(r.venvKey, [localname |-> VirtualenvName, uncompress |-> TRUE])
           blobs == [k \in DOMAIN Blobs(r) |-> [localname |-> Blobs(r)[k], uncompress |-> FALSE]]
<1>3. Update(map, venv, blobs)
  BY <1>1, UpdatedIs DEF BlobstoreMap
<1>4. /\ DOMAIN venv = {r.venvKey} /\ venv[r.venvKey].localname = VirtualenvName
      /\ DOMAIN blobs = DOMAIN Blobs(r)
      /\ \A k \in DOMAIN Blobs(r) : blobs[k].localname = Blobs(r)[k]
  BY DEF Only
<1> HIDE DEF map, venv, blobs
<1>9. /\ map[r.venvKey].localname = VirtualenvName
      /\ \A k \in DOMAIN Blobs(r) : map[k].localname = Blobs(r)[k]
  BY <1>2, <1>3, <1>4 DEF Update
<1>5. /\ "PATH" \in DOMAIN t.options[Environment]
      /\ t.options[Environment]["PATH"] = WorkerPath
  BY PreparedIs DEF Assign
<1>6. WorkerPath[1] = VirtualenvBin
  BY DEF WorkerPath
<1>7. \A c \in DOMAIN r.commands : r.commands[c] \in RunCommands => t.commands[c] = RunPath
  BY <1>1 DEF RewriteExecutionCommands
<1>8. SubSeq(RunPath, 1, 3) = VirtualenvBin
  <2> DEFINE S == {"..", VirtualenvName, "bin", "pystorm-a8c-run"}
  <2>1. VirtualenvBin \in Seq(S) /\ Len(VirtualenvBin) = 3 /\ "pystorm-a8c-run" \in S
    BY DEF VirtualenvBin
  <2> HIDE DEF S
  <2> QED BY <2>1, BeforeAppended DEF RunPath
<1> QED BY <1>2, <1>5, <1>6, <1>7, <1>8, <1>9 DEF Agrees, map, VirtualenvBin

\* Of the four sources the most specific one that has a key is merged last.
LEMMA MergedIs ==
    ASSUME NEW r, NEW k, k \in UNION {DOMAIN Sources(r)[i] : i \in 1 .. 4}, k # PythonPath
    PROVE  Get(Merged(r), k) = MostSpecific(r, k)
<1> DEFINE has == {i \in 1 .. 4 : k \in DOMAIN Sources(r)[i]}
           cli == CliOptions(r)
           log == IF r.logLevel = None THEN Empty ELSE Only(LogLevel, Lower(r.logLevel))
           defaults == Updated(r.envOptions, Only(PythonPath, Append(VirtualenvBin, "python")))
           logged == IF r.logLevel = None THEN defaults
                     ELSE Updated(defaults, Only(LogLevel, Lower(r.logLevel)))
<1>1. /\ Sources(r)[1] = cli /\ Sources(r)[2] = r.config
      /\ Sources(r)[3] = log /\ Sources(r)[4] = r.envOptions
  BY DEF Sources
<1>2. Merged(r) = Updated(Updated(logged, r.config), cli)
  BY DEF Merged
<1>3. Get(defaults, k) = Get(r.envOptions, k)
  BY GetUpdatedWithOne
<1>4. /\ k \in DOMAIN log => Get(logged, k) = log[k]
      /\ k \notin DOMAIN log => Get(logged, k) = Get(defaults, k)
  BY GetUpdated DEF Empty
<1> HIDE DEF cli, log, defaults, logged
<1>5. /\ k \in DOMAIN cli => Get(Merged(r), k) = cli[k]
      /\ k \notin DOMAIN cli /\ k \in DOMAIN r.config => Get(Merged(r), k) = r.config[k]
      /\ k \notin DOMAIN cli /\ k \notin DOMAIN r.config => Get(Merged(r), k) = Get(logged, k)
  BY <1>2, GetUpdated
<1>6. PICK i \in has : \A j \in has : i <= j
  <2>1. has # {} /\ has \subseteq 1 .. 4
    OBVIOUS
  <2>2. 1 \in has \/ 2 \in has \/ 3 \in has \/ 4 \in has
    BY <2>1
  <2> QED BY <2>1, <2>2
<1>7. i = CHOOSE x \in has : \A j \in has : x <= j
  <2>1. \A x \in has : (\A j \in has : x <= j) => x = i
    BY <1>6
  <2> QED BY <1>6, <2>1
<1>8. MostSpecific(r, k) = Sources(r)[i][k]
  BY <1>7 DEF MostSpecific
<1>9. i \in 1 .. 4 /\ k \in DOMAIN Sources(r)[i] /\ \A j \in 1 .. (i - 1) : k \notin DOMAIN Sources(r)[j]
  BY <1>6
<1> HIDE DEF has
<1>10. Get(Merged(r), k) = Sources(r)[i][k]
  <2>1. CASE i = 1
    BY <1>1, <1>5, <1>9, <2>1
  <2>2. CASE i = 2
    BY <1>1, <1>5, <1>9, <2>2
  <2>3. CASE i = 3
    BY <1>1, <1>4, <1>5, <1>9, <2>3
  <2>4. CASE i = 4
    BY <1>1, <1>3, <1>4, <1>5, <1>9, <2>4 DEF Get
  <2> QED BY <1>9, <2>1, <2>2, <2>3, <2>4
<1> QED BY <1>8, <1>10

LEMMA PreparedAsAsked ==
    ASSUME NEW r, NEW t, Prepared(r, t)
    PROVE  AsAsked(r, t)
<1> DEFINE env == Chosen(r.env, Env)
<1>1. ASSUME NEW k, k \in UNION {DOMAIN Sources(r)[i] : i \in 1 .. 4}, k \notin Derived(r),
             MostSpecific(r, k) # None
      PROVE  Get(t.options, k) = MostSpecific(r, k)
  <2>2. k # PythonPath
    BY <1>1 DEF Derived
  <2>3. Get(Merged(r), k) = MostSpecific(r, k)
    BY <1>1, <2>2, MergedIs, Zenon
  <2>4. CASE k = Workers
    BY <1>1, <2>3, <2>4, PreparedIs, Zenon
  <2>5. CASE k # Workers
    BY <1>1, <2>3, <2>5, PreparedIs, Zenon
  <2> QED BY <2>4, <2>5
<1>2. ASSUME NEW c \in DOMAIN r.hints
      PROVE  env \in DOMAIN r.hints[c] /\ t.par[c] = r.hints[c][env]
  <2>1. env \in DOMAIN r.hints[c]
    BY DEF Prepared, MissingParallelism
  <2>2. t.par = ResolveParallelism(r.hints, env)
    BY PreparedIs, Zenon
  <2> QED BY <2>1, <2>2 DEF ResolveParallelism, Get
<1>3. \A k \in (UNION {DOMAIN Sources(r)[i] : i \in 1 .. 4}) \ Derived(r) :
         MostSpecific(r, k) # None => Get(t.options, k) = MostSpecific(r, k)
  <2> TAKE k \in (UNION {DOMAIN Sources(r)[i] : i \in 1 .. 4}) \ Derived(r)
  <2> QED BY <1>1
<1> QED BY <1>2, <1>3, PreparedIs DEF AsAsked

-----------------------------------------------------------------------------
(* The invariant.                                                          *)

Pcs == {"resolve", "prepare", "done", "failed"} \cup Calls
Statuses == {"gone", "active", "inactive", "killed"}

SubmitterShape == /\ \A s \in Submitters : request[s] \in Requests[s]
                  /\ pc \in [Submitters -> Pcs]
                  /\ reason \in [Submitters -> Reasons \cup {None}]
                  /\ DOMAIN topology = Submitters
                  /\ node \in [Submitters -> Nodes]
                  /\ sent \in [Submitters -> Nat]
NimbusShape == /\ leader \in Nodes
               /\ uploads \in [Submitters -> [bytes : Nat, finished : BOOLEAN]]
               /\ topologies \in [Names -> [by : Submitters \cup {Old, None}, status : Statuses,
                                           jar : Submitters \cup {None}]]
BoundShape == /\ late \subseteq {"kill", "submit"} \X Submitters
              /\ timeouts \in 0 .. MaxTimeouts
              /\ elections \in 0 .. MaxElections
Shape == SubmitterShape /\ NimbusShape /\ BoundShape

\* What was not refused, and has a jar that Nimbus has all of.
Accepted(r) == Chosen(r.name, Files) # None /\ OptionsAreUsable(r)
Uploaded(r, u) == r.jar # "remote" => u = [bytes |-> r.jarSize, finished |-> TRUE]
Ready(r, t, u) == Accepted(r) /\ Prepared(r, t) /\ Uploaded(r, u)

Checked == {"check", "kill", "await", "nameAllowed", "submit", "done"}
Connected == {"connect", "beginUpload", "uploadChunk", "finishUpload"} \cup Checked

\* How far a command with request r is that makes the call p: t is what it has
\* prepared, n what it has sent, and u what Nimbus has.
Gone(r, p, t, n, u) ==
    /\ u.bytes = n /\ n <= r.jarSize
    /\ p \notin {"resolve", "failed"} => Accepted(r)
    /\ p = "workers" => t = [options |-> ResolveOptions(r)] /\ NeedsWorkers(ResolveOptions(r))
    /\ p = "prepare" => \E w \in Numbers(r) : t = [options |-> Settings(r, w)]
    /\ p \in Connected => Prepared(r, t)
    /\ p = "finishUpload" => n = r.jarSize
    /\ p \in Checked => Uploaded(r, u)
    /\ p \in {"kill", "await"} => r.force

Progress ==
    \A s \in Submitters : Gone(request[s], pc[s], topology[s], sent[s], uploads[s])

\* What is on the way was sent by a command that gave up.
Underway ==
    \A s \in Submitters :
        /\ {<<"kill", s>>, <<"submit", s>>} \cap late # {} => pc[s] = "failed" /\ reason[s] = "timeout"
        /\ <<"kill", s>> \in late => request[s].force
        /\ <<"submit", s>> \in late => Ready(request[s], topology[s], uploads[s])

\* What runs was submitted by a command that is through.
Runs ==
    \A n \in Names :
        LET by == topologies[n].by
        IN  /\ topologies[n].status = "gone" => by = None
            /\ by \in Submitters =>
                  /\ pc[by] \in {"done", "failed"}
                  /\ Ready(request[by], topology[by], uploads[by])
                  /\ topologies[n].jar # None =>
                        topologies[n].jar = by /\ request[by].jar # "remote"

\* The old topology does not come back.
Replaced ==
    \A s \in Submitters : pc[s] \in {"nameAllowed", "submit"} /\ request[s].force =>
        topologies[Name(s)].by # Old

IInv == Shape /\ Progress /\ Underway /\ Runs /\ Replaced

\* What a step of s leaves alone, of every other command u.
Same(u) == /\ request'[u] = request[u] /\ pc'[u] = pc[u] /\ reason'[u] = reason[u]
           /\ topology'[u] = topology[u] /\ sent'[u] = sent[u] /\ uploads'[u] = uploads[u]

LEMMA OthersStay ==
    ASSUME Shape, NEW s \in Submitters, Step(s) \/ TimeOut(s), NEW u \in Submitters, u # s
    PROVE  Same(u)
<1> USE DEF Shape, SubmitterShape, NimbusShape, GoTo, Fail, Same
<1>1. CASE ResolveRequest(s)
  BY <1>1 DEF ResolveRequest, nimbus
<1>2. CASE GetStormWorkers(s)
  BY <1>2 DEF GetStormWorkers, nimbus
<1>3. CASE Prepare(s)
  BY <1>3 DEF Prepare, nimbus
<1>4. CASE Connect(s) \/ BeginFileUpload(s)
  BY <1>4 DEF Connect, BeginFileUpload, nimbus
<1>5. CASE UploadChunk(s) \/ FinishFileUpload(s)
  BY <1>5 DEF UploadChunk, FinishFileUpload
<1>6. CASE CheckRunning(s) \/ AwaitQuit(s) \/ CheckName(s)
  BY <1>6 DEF CheckRunning, AwaitQuit, CheckName, nimbus
<1>7. CASE KillTopology(s) \/ SubmitTopology(s)
  BY <1>7 DEF KillTopology, SubmitTopology
<1>8. CASE TimeOut(s)
  BY <1>8 DEF TimeOut, nimbus
<1> QED BY <1>1, <1>2, <1>3, <1>4, <1>5, <1>6, <1>7, <1>8 DEF Step

LEMMA RequestFacts ==
    ASSUME Shape, NEW s \in Submitters
    PROVE  /\ request[s].overrideName \in Names \cup {None}
           /\ request[s].jar \in {"build", "local", "missing", "remote"}
           /\ request[s].jarSize \in Nat
BY SubmitAssumption DEF Shape, SubmitterShape

LEMMA ChunkFacts ==
    ASSUME Shape, Progress, NEW s \in Submitters
    PROVE  /\ Chunk(s) \in Nat
           /\ sent[s] + Chunk(s) <= request[s].jarSize
           /\ Chunk(s) = 0 => sent[s] = request[s].jarSize
<1>1. request[s].jarSize \in Nat /\ sent[s] \in Nat /\ sent[s] <= request[s].jarSize
  BY RequestFacts DEF Shape, SubmitterShape, Progress, Gone
<1>2. ChunkSize \in Nat \ {0}
  BY SubmitAssumption
<1> QED BY <1>1, <1>2 DEF Chunk

LEMMA InitShape == Init => Shape
<1> SUFFICES ASSUME Init PROVE Shape
  OBVIOUS
<1>1. SubmitterShape
  BY SubmitAssumption DEF Init, SubmitterShape, Pcs, Reasons
<1>2. NimbusShape
  <2> DEFINE T == [by : Submitters \cup {Old, None}, status : Statuses,
                   jar : Submitters \cup {None}]
  <2>1. NoTopology \in T
    BY DEF NoTopology, Statuses
  <2>2. [NoTopology EXCEPT !.by = Old, !.status = "active"] \in T
    BY DEF NoTopology, Statuses
  <2> HIDE DEF T
  <2>3. topologies \in [Names -> T]
    BY <2>1, <2>2 DEF Init
  <2>4. uploads \in [Submitters -> [bytes : Nat, finished : BOOLEAN]]
    BY DEF Init, NoUpload
  <2> QED BY <2>3, <2>4 DEF Init, NimbusShape, T
<1>3. BoundShape
  BY SubmitAssumption DEF Init, BoundShape
<1> QED BY <1>1, <1>2, <1>3 DEF Shape

LEMMA StartedShape ==
    ASSUME Shape, NEW s \in Submitters, Started(s) \/ (\E n : Killed(n))
    PROVE  topologies' \in [Names -> [by : Submitters \cup {Old, None}, status : Statuses,
                                     jar : Submitters \cup {None}]]
<1> DEFINE T == [by : Submitters \cup {Old, None}, status : Statuses,
                 jar : Submitters \cup {None}]
<1>1. topologies \in [Names -> T]
  BY DEF Shape, NimbusShape
<1>2. CASE Started(s)
  <2> DEFINE new == [by |-> s, status |-> IF request[s].active THEN "active" ELSE "inactive",
                     jar |-> IF request[s].jar = "remote" THEN None ELSE s]
  <2>1. new \in T
    BY DEF Statuses
  <2>2. topologies' = [topologies EXCEPT ![Name(s)] = new]
    BY <1>2 DEF Started
  <2> HIDE DEF new, T
  <2>3. topologies' \in [Names -> T]
    BY <1>1, <2>1, <2>2
  <2> QED BY <2>3 DEF T
<1>3. ASSUME NEW n, Killed(n)
      PROVE  topologies' \in [Names -> T]
  <2>1. n \in Names => [topologies[n] EXCEPT !.status = "killed"] \in T
    BY <1>1 DEF Statuses
  <2>2. topologies' = [topologies EXCEPT ![n] = [topologies[n] EXCEPT !.status = "killed"]]
    BY <1>3 DEF Killed
  <2> HIDE DEF T
  <2> QED BY <1>1, <2>1, <2>2
<1> QED BY <1>2, <1>3

LEMMA NextShape == ASSUME Shape, Progress, [Next]_vars PROVE Shape'
<1> USE DEF Shape, SubmitterShape, NimbusShape, BoundShape, GoTo, Fail, Calls, Pcs, Reasons
<1>1. ASSUME NEW s \in Submitters, ResolveRequest(s) PROVE Shape'
  BY <1>1 DEF ResolveRequest, nimbus
<1>2. ASSUME NEW s \in Submitters, GetStormWorkers(s) PROVE Shape'
  BY <1>2 DEF GetStormWorkers, nimbus
<1>3. ASSUME NEW s \in Submitters, Prepare(s) PROVE Shape'
  BY <1>3 DEF Prepare, nimbus
<1>4. ASSUME NEW s \in Submitters, Connect(s) \/ BeginFileUpload(s) PROVE Shape'
  <2>1. CASE Connect(s)
    <3>1. node' \in [Submitters -> Nodes]
      BY <2>1 DEF Connect, ConnectedTo
    <3>2. pc' \in [Submitters -> Pcs] /\ reason' \in [Submitters -> Reasons \cup {None}]
      BY <2>1 DEF Connect
    <3> QED BY <2>1, <3>1, <3>2 DEF Connect, nimbus
  <2>2. CASE BeginFileUpload(s)
    BY <2>2 DEF BeginFileUpload, nimbus
  <2> QED BY <1>4, <2>1, <2>2
<1>5. ASSUME NEW s \in Submitters, UploadChunk(s) PROVE Shape'
  <2>1. Chunk(s) \in Nat
    BY ChunkFacts
  <2>2. uploads' \in [Submitters -> [bytes : Nat, finished : BOOLEAN]]
    BY <1>5, <2>1 DEF UploadChunk
  <2>3. sent' \in [Submitters -> Nat]
    BY <1>5, <2>1 DEF UploadChunk
  <2> QED BY <1>5, <2>2, <2>3 DEF UploadChunk
<1>6. ASSUME NEW s \in Submitters, FinishFileUpload(s) PROVE Shape'
  BY <1>6 DEF FinishFileUpload
<1>7. ASSUME NEW s \in Submitters, CheckRunning(s) \/ AwaitQuit(s) \/ CheckName(s) PROVE Shape'
  BY <1>7 DEF CheckRunning, AwaitQuit, CheckName, nimbus
<1>8. ASSUME NEW s \in Submitters, KillTopology(s) PROVE Shape'
  BY <1>8, StartedShape DEF KillTopology
<1>9. ASSUME NEW s \in Submitters, SubmitTopology(s) PROVE Shape'
  BY <1>9, StartedShape DEF SubmitTopology
<1>10. ASSUME NEW s \in Submitters, TimeOut(s) PROVE Shape'
  BY <1>10, SubmitAssumption DEF TimeOut, nimbus
<1>11. ASSUME NEW s \in Submitters, HandleLateKill(s) PROVE Shape'
  BY <1>11, StartedShape DEF HandleLateKill, submitter
<1>12. ASSUME NEW s \in Submitters, HandleLateSubmit(s) PROVE Shape'
  BY <1>12, StartedShape DEF HandleLateSubmit, submitter
<1>13. ASSUME NEW n \in Names, Quit(n) PROVE Shape'
  BY <1>13 DEF Quit, NoTopology, Statuses, submitter
<1>14. ASSUME NEW l \in Nodes, Elect(l) PROVE Shape'
  BY <1>14, SubmitAssumption DEF Elect, submitter
<1>15. CASE UNCHANGED vars
  BY <1>15 DEF vars, submitter, nimbus
<1> QED
  BY <1>1, <1>2, <1>3, <1>4, <1>5, <1>6, <1>7, <1>8, <1>9, <1>10, <1>11, <1>12, <1>13,
     <1>14, <1>15 DEF Next, Step

LEMMA InitProgress == Init => Progress
BY RequestFacts, InitShape DEF Init, Progress, Gone, NoUpload, Connected, Checked

\* A command that does not step goes no further.
LEMMA SameProgress ==
    ASSUME NEW u \in Submitters, Progress, Same(u)
    PROVE  Gone(request'[u], pc'[u], topology'[u], sent'[u], uploads'[u])
BY DEF Progress, Same

\* The step of a command takes it on by one call.
LEMMA StepProgress ==
    ASSUME Shape, Progress, NEW s \in Submitters, Step(s) \/ TimeOut(s)
    PROVE  Gone(request'[s], pc'[s], topology'[s], sent'[s], uploads'[s])
<1> DEFINE r == request[s]
           Goal == Gone(request'[s], pc'[s], topology'[s], sent'[s], uploads'[s])
<1>0. /\ Gone(r, pc[s], topology[s], sent[s], uploads[s])
      /\ r.jarSize \in Nat /\ sent[s] \in Nat
      /\ DOMAIN topology = Submitters /\ pc \in [Submitters -> Pcs]
      /\ uploads \in [Submitters -> [bytes : Nat, finished : BOOLEAN]]
      /\ sent \in [Submitters -> Nat]
  BY RequestFacts DEF Progress, Shape, SubmitterShape, NimbusShape
<1> USE DEF GoTo, Fail, Connected, Checked
<1>1. CASE ResolveRequest(s)
  <2>1. request' = request /\ sent' = sent /\ uploads' = uploads
    BY <1>1 DEF ResolveRequest, nimbus
  <2>2. CASE ~(HasVirtualenv(r) /\ FilesAreUsable(s) /\ OptionsAreUsable(r))
    BY <1>0, <1>1, <2>1, <2>2 DEF ResolveRequest, Gone
  <2>3. CASE HasVirtualenv(r) /\ FilesAreUsable(s) /\ OptionsAreUsable(r)
    <3> DEFINE o == ResolveOptions(r)
    <3>1. Accepted(r)
      BY <2>3 DEF Accepted, FilesAreUsable
    <3>2. CASE NeedsWorkers(o) /\ r.workers = None
      <4>1. pc'[s] = "workers" /\ topology'[s] = [options |-> o]
        BY <1>0, <1>1, <2>3, <3>2 DEF ResolveRequest
      <4> QED BY <1>0, <2>1, <3>1, <3>2, <4>1 DEF Gone
    <3>3. CASE ~(NeedsWorkers(o) /\ r.workers = None)
      <4>1. /\ pc'[s] = "prepare"
            /\ topology'[s] = [options |-> IF NeedsWorkers(o) THEN WithWorkers(o, r.workers)
                                                              ELSE o]
        BY <1>0, <1>1, <2>3, <3>3 DEF ResolveRequest
      <4>2. \E w \in Numbers(r) : topology'[s] = [options |-> Settings(r, w)]
        <5>1. CASE NeedsWorkers(o)
          BY <3>3, <4>1, <5>1 DEF Settings, Numbers
        <5>2. CASE ~NeedsWorkers(o)
          BY <4>1, <5>2, SubmitAssumption DEF Settings, Numbers
        <5> QED BY <5>1, <5>2
      <4> QED BY <1>0, <2>1, <3>1, <4>1, <4>2 DEF Gone
    <3> QED BY <3>2, <3>3
  <2> QED BY <2>2, <2>3
<1>2. CASE GetStormWorkers(s)
  <2> DEFINE o == ResolveOptions(r)
  <2>1. /\ request' = request /\ sent' = sent /\ uploads' = uploads
        /\ pc[s] = "workers"
    BY <1>0, <1>2 DEF GetStormWorkers, nimbus
  <2>2. topology[s] = [options |-> o] /\ NeedsWorkers(o) /\ Accepted(r)
    BY <1>0, <2>1 DEF Gone
  <2>3. \/ /\ pc'[s] = "prepare"
           /\ topology'[s] = [options |-> WithWorkers(o, Supervisors)]
        \/ pc'[s] = "failed"
    BY <1>0, <1>2, <2>2 DEF GetStormWorkers
  <2>4. Supervisors \in Numbers(r) /\ Settings(r, Supervisors) = WithWorkers(o, Supervisors)
    BY <2>2, SubmitAssumption DEF Numbers, Settings
  <2> QED BY <1>0, <2>1, <2>2, <2>3, <2>4 DEF Gone
<1>3. CASE Prepare(s)
  <2> DEFINE env == Chosen(r.env, Env)
             t == [options |-> Updated(topology[s].options,
                                       Only(OriginalName, Chosen(r.name, Files))),
                   commands |-> RewriteExecutionCommands(r.commands),
                   par |-> ResolveParallelism(r.hints, env)]
  <2>1. /\ request' = request /\ sent' = sent /\ uploads' = uploads
        /\ pc[s] = "prepare" /\ topology'[s] = t
        /\ \/ MissingParallelism(r.hints, env) = {} /\ pc'[s] = "connect"
           \/ pc'[s] = "failed"
    BY <1>0, <1>3 DEF Prepare, nimbus
  <2>2. Accepted(r) /\ \E w \in Numbers(r) : topology[s] = [options |-> Settings(r, w)]
    BY <1>0, <2>1 DEF Gone
  <2>3. PICK w \in Numbers(r) : topology[s].options = Settings(r, w)
    BY <2>2
  <2>4. pc'[s] = "connect" => Prepared(r, t)
    BY <2>1, <2>3 DEF Prepared
  <2> HIDE DEF t
  <2> QED BY <1>0, <2>1, <2>2, <2>4 DEF Gone
<1>4. CASE Connect(s) \/ BeginFileUpload(s)
  BY <1>0, <1>4 DEF Connect, BeginFileUpload, nimbus, Gone, Uploaded
<1>5. CASE UploadChunk(s)
  <2>1. /\ request' = request /\ topology' = topology /\ pc[s] = "uploadChunk"
        /\ sent'[s] = sent[s] + Chunk(s)
        /\ uploads'[s].bytes = uploads[s].bytes + Chunk(s)
        /\ pc'[s] = IF Chunk(s) = 0 THEN "finishUpload" ELSE "uploadChunk"
    BY <1>0, <1>5 DEF UploadChunk
  <2> QED BY <1>0, <2>1, ChunkFacts DEF Gone
<1>6. CASE FinishFileUpload(s)
  <2>1. /\ request' = request /\ topology' = topology /\ sent' = sent
        /\ pc[s] = "finishUpload" /\ pc'[s] = "check"
        /\ uploads'[s] = [bytes |-> uploads[s].bytes, finished |-> TRUE]
    BY <1>0, <1>6 DEF FinishFileUpload
  <2>2. /\ Accepted(r) /\ Prepared(r, topology[s])
        /\ uploads[s].bytes = r.jarSize /\ sent[s] = r.jarSize
    BY <1>0, <2>1 DEF Gone
  <2>3. Uploaded(r, uploads'[s]) /\ uploads'[s].bytes = r.jarSize
    BY <2>1, <2>2 DEF Uploaded
  <2> QED BY <1>0, <2>1, <2>2, <2>3 DEF Gone
<1>7. CASE CheckRunning(s) \/ AwaitQuit(s) \/ CheckName(s)
  BY <1>0, <1>7 DEF CheckRunning, MustKill, AwaitQuit, CheckName, nimbus, Gone
<1>8. CASE KillTopology(s) \/ SubmitTopology(s)
  BY <1>0, <1>8 DEF KillTopology, SubmitTopology, Gone
<1>9. CASE TimeOut(s)
  BY <1>0, <1>9 DEF TimeOut, nimbus, Gone
<1> QED BY <1>1, <1>2, <1>3, <1>4, <1>5, <1>6, <1>7, <1>8, <1>9 DEF Step

\* The cluster does nothing to a command.
LEMMA ClusterStep ==
    ASSUME [Next]_vars
    PROVE  \/ \E s \in Submitters : Step(s) \/ TimeOut(s)
           \/ UNCHANGED <<submitter, uploads>> /\ late' \subseteq late
BY DEF Next, HandleLateKill, HandleLateSubmit, Quit, Elect, vars, nimbus

LEMMA NextProgress == ASSUME Shape, Progress, [Next]_vars PROVE Progress'
<1> SUFFICES ASSUME NEW u \in Submitters
             PROVE  Gone(request'[u], pc'[u], topology'[u], sent'[u], uploads'[u])
  BY DEF Progress
<1>1. CASE UNCHANGED <<submitter, uploads>>
  BY <1>1, SameProgress DEF Same, submitter
<1>2. ASSUME NEW s \in Submitters, Step(s) \/ TimeOut(s)
      PROVE  Gone(request'[u], pc'[u], topology'[u], sent'[u], uploads'[u])
  BY <1>2, StepProgress, OthersStay, SameProgress
<1> QED BY <1>1, <1>2, ClusterStep

\* A command that has ended makes no step.
LEMMA StepsOn ==
    ASSUME NEW s \in Submitters, Step(s) \/ TimeOut(s)
    PROVE  pc[s] \notin {"done", "failed"}
BY DEF Step, TimeOut, Calling, Calls, ResolveRequest, GetStormWorkers, Prepare, Connect,
       BeginFileUpload, UploadChunk, FinishFileUpload, CheckRunning, KillTopology, AwaitQuit,
       CheckName, SubmitTopology

LEMMA RequestStays == [Next]_vars => request' = request
BY DEF Next, Step, TimeOut, ResolveRequest, GetStormWorkers, Prepare, Connect, BeginFileUpload,
       UploadChunk, FinishFileUpload, CheckRunning, KillTopology, AwaitQuit, CheckName,
       SubmitTopology, HandleLateKill, HandleLateSubmit, Quit, Elect, vars, submitter

LEMMA NameFacts ==
    ASSUME Shape, NEW s \in Submitters, Accepted(request[s])
    PROVE  Name(s) \in Names
<1>1. Files \subseteq Names
  BY SubmitAssumption
<1>2. Chosen(request[s].name, Files) \in Files
  <2>1. Cardinality({}) = 0
    BY FS_EmptySet
  <2>2. Cardinality(Files) = 1 => \E x \in Files : TRUE
    BY <2>1
  <2> QED BY <2>2 DEF Accepted, Chosen
<1> QED BY <1>1, <1>2, RequestFacts DEF Name

-----------------------------------------------------------------------------
(* What can happen to a topology.                                          *)

Kills(s, n) == /\ n = Name(s)
               /\ \/ pc[s] = "kill" /\ pc'[s] = "await"
                  \/ <<"kill", s>> \in late \ late'
               /\ topologies[n].status # "gone"
               /\ topologies'[n] = [topologies[n] EXCEPT !.status = "killed"]
Starts(s, n) ==
    /\ n = Name(s)
    /\ \/ pc[s] = "submit" /\ pc'[s] = "done" /\ UNCHANGED <<topology, uploads>>
       \/ <<"submit", s>> \in late /\ UNCHANGED <<submitter, uploads>>
    /\ topologies'[n] = [by |-> s, status |-> IF request[s].active THEN "active" ELSE "inactive",
                         jar |-> IF request[s].jar = "remote" THEN None ELSE s]
Fate(n) == \/ topologies'[n] = topologies[n]
           \/ topologies[n].status = "killed" /\ topologies'[n] = NoTopology
           \/ \E s \in Submitters : Kills(s, n) \/ Starts(s, n)

LEMMA KilledIs ==
    ASSUME Shape, NEW m, Killed(m), NEW n \in Names
    PROVE  topologies'[n] = IF n = m THEN [topologies[n] EXCEPT !.status = "killed"]
                            ELSE topologies[n]
BY DEF Killed, Shape, NimbusShape

LEMMA StartedIs ==
    ASSUME Shape, NEW s, Started(s), NEW n \in Names
    PROVE  topologies'[n] =
             IF n = Name(s)
             THEN [by |-> s, status |-> IF request[s].active THEN "active" ELSE "inactive",
                   jar |-> IF request[s].jar = "remote" THEN None ELSE s]
             ELSE topologies[n]
BY DEF Started, Shape, NimbusShape

LEMMA Fates == ASSUME Shape, [Next]_vars, NEW n \in Names PROVE Fate(n)
<1>0. pc \in [Submitters -> Pcs]
  BY DEF Shape, SubmitterShape
<1>1. CASE topologies' = topologies
  BY <1>1 DEF Fate
<1>2. ASSUME NEW s \in Submitters, KillTopology(s) PROVE Fate(n)
  <2>1. CASE topologies' = topologies
    BY <2>1 DEF Fate
  <2>2. CASE /\ Running(Name(s)) /\ Killed(Name(s))
             /\ pc[s] = "kill" /\ pc'[s] = "await"
    BY <2>2, KilledIs DEF Fate, Kills, Running
  <2> QED BY <1>0, <1>2, <2>1, <2>2 DEF KillTopology, GoTo
<1>3. ASSUME NEW s \in Submitters, SubmitTopology(s) PROVE Fate(n)
  <2>1. CASE topologies' = topologies
    BY <2>1 DEF Fate
  <2>2. CASE /\ Started(s) /\ pc[s] = "submit" /\ pc'[s] = "done"
             /\ UNCHANGED <<topology, uploads>>
    BY <2>2, StartedIs DEF Fate, Starts
  <2> QED BY <1>0, <1>3, <2>1, <2>2 DEF SubmitTopology, GoTo
<1>4. ASSUME NEW s \in Submitters, HandleLateKill(s) PROVE Fate(n)
  <2>1. CASE topologies' = topologies
    BY <2>1 DEF Fate
  <2>2. CASE Running(Name(s)) /\ Killed(Name(s)) /\ <<"kill", s>> \in late \ late'
    BY <2>2, KilledIs DEF Fate, Kills, Running
  <2> QED BY <1>4, <2>1, <2>2 DEF HandleLateKill
<1>5. ASSUME NEW s \in Submitters, HandleLateSubmit(s) PROVE Fate(n)
  <2>1. CASE topologies' = topologies
    BY <2>1 DEF Fate
  <2>2. CASE Started(s) /\ <<"submit", s>> \in late /\ UNCHANGED <<submitter, uploads>>
    BY <2>2, StartedIs DEF Fate, Starts
  <2> QED BY <1>5, <2>1, <2>2 DEF HandleLateSubmit
<1>6. ASSUME NEW m \in Names, Quit(m) PROVE Fate(n)
  BY <1>6 DEF Quit, Fate, Shape, NimbusShape
<1>7. ASSUME NEW s \in Submitters,
             \/ ResolveRequest(s) \/ GetStormWorkers(s) \/ Prepare(s) \/ Connect(s)
             \/ BeginFileUpload(s) \/ UploadChunk(s) \/ FinishFileUpload(s)
             \/ CheckRunning(s) \/ AwaitQuit(s) \/ CheckName(s) \/ TimeOut(s)
      PROVE  Fate(n)
  BY <1>1, <1>7 DEF ResolveRequest, GetStormWorkers, Prepare, Connect, BeginFileUpload,
     UploadChunk, FinishFileUpload, CheckRunning, AwaitQuit, CheckName, TimeOut, nimbus
<1>8. ASSUME NEW l \in Nodes, Elect(l) PROVE Fate(n)
  BY <1>1, <1>8 DEF Elect
<1>9. CASE UNCHANGED vars
  BY <1>1, <1>9 DEF vars, nimbus
<1> QED BY <1>2, <1>3, <1>4, <1>5, <1>6, <1>7, <1>8, <1>9 DEF Next, Step

-----------------------------------------------------------------------------
(* What is under way, and what runs.                                       *)

LEMMA InitRest == Init => Underway /\ Runs /\ Replaced
<1> SUFFICES ASSUME Init PROVE Underway /\ Runs /\ Replaced
  OBVIOUS
<1>1. Underway
  BY DEF Init, Underway
<1>2. Runs
  <2>1. Old \notin Submitters /\ None \notin Submitters
    BY SubmitAssumption
  <2>2. ASSUME NEW n \in Names
        PROVE  /\ topologies[n].by \in {None, Old}
               /\ topologies[n].status = "gone" => topologies[n].by = None
    <3>1. topologies[n] = NoTopology \/
          topologies[n] = [NoTopology EXCEPT !.by = Old, !.status = "active"]
      BY DEF Init
    <3> DEFINE old == [NoTopology EXCEPT !.by = Old, !.status = "active"]
    <3>2. old.by = Old /\ old.status = "active"
      BY DEF NoTopology
    <3>3. CASE topologies[n] = NoTopology
      BY <3>3 DEF NoTopology
    <3>4. CASE topologies[n] = old
      BY <3>2, <3>4
    <3> QED BY <3>1, <3>3, <3>4
  <2> QED BY <2>1, <2>2 DEF Runs
<1>3. Replaced
  BY DEF Init, Replaced
<1> QED BY <1>1, <1>2, <1>3

LEMMA LateStep ==
    ASSUME NEW s \in Submitters
    PROVE  /\ Step(s) => late' = late
           /\ TimeOut(s) => late' \subseteq late \cup ({<<pc[s], s>>} \cap ({"kill", "submit"} \X {s}))
BY DEF Step, TimeOut, ResolveRequest, GetStormWorkers, Prepare, Connect, BeginFileUpload,
       UploadChunk, FinishFileUpload, CheckRunning, KillTopology, AwaitQuit, CheckName,
       SubmitTopology

LEMMA NextUnderway == ASSUME IInv, [Next]_vars PROVE Underway'
<1> SUFFICES ASSUME NEW u \in Submitters
             PROVE  /\ {<<"kill", u>>, <<"submit", u>>} \cap late' # {} =>
                           pc'[u] = "failed" /\ reason'[u] = "timeout"
                    /\ <<"kill", u>> \in late' => request'[u].force
                    /\ <<"submit", u>> \in late' =>
                           Ready(request'[u], topology'[u], uploads'[u])
  BY DEF Underway
<1> USE DEF IInv
<1>0. /\ Gone(request[u], pc[u], topology[u], sent[u], uploads[u])
      /\ pc \in [Submitters -> Pcs] /\ reason \in [Submitters -> Reasons \cup {None}]
  BY DEF Progress, Shape, SubmitterShape
<1>1. CASE UNCHANGED <<submitter, uploads>> /\ late' \subseteq late
  BY <1>1 DEF Underway, submitter
<1>2. ASSUME NEW s \in Submitters, Step(s) \/ TimeOut(s), s # u,
             <<"kill", u>> \in late' \/ <<"submit", u>> \in late'
      PROVE  /\ pc'[u] = "failed" /\ reason'[u] = "timeout"
             /\ <<"kill", u>> \in late' => request'[u].force
             /\ <<"submit", u>> \in late' => Ready(request'[u], topology'[u], uploads'[u])
  <2>1. \A k : <<k, u>> \in late' => <<k, u>> \in late
    BY <1>2, LateStep
  <2>2. Same(u)
    BY <1>2, OthersStay
  <2> QED BY <1>2, <2>1, <2>2 DEF Underway, Same
<1>3. ASSUME Step(u) PROVE <<"kill", u>> \notin late' /\ <<"submit", u>> \notin late'
  <2>1. late' = late /\ pc[u] # "failed"
    BY <1>3, LateStep, StepsOn
  <2> QED BY <2>1 DEF Underway
<1>4. CASE TimeOut(u)
  <2>1. /\ UNCHANGED <<request, topology, uploads>>
        /\ pc'[u] = "failed" /\ reason'[u] = "timeout" /\ pc[u] # "failed"
    BY <1>0, <1>4, StepsOn DEF TimeOut, Fail, nimbus
  <2>2. <<"kill", u>> \notin late /\ <<"submit", u>> \notin late
    BY <2>1 DEF Underway
  <2>3. /\ <<"kill", u>> \in late' => pc[u] = "kill"
        /\ <<"submit", u>> \in late' => pc[u] = "submit"
    BY <1>4, <2>2, LateStep
  <2>4. /\ pc[u] = "kill" => request[u].force
        /\ pc[u] = "submit" => Ready(request[u], topology[u], uploads[u])
    BY <1>0 DEF Gone, Ready, Connected, Checked
  <2> QED BY <2>1, <2>3, <2>4
<1> QED BY <1>1, <1>2, <1>3, <1>4, ClusterStep

\* A command that is through stays as it is.
LEMMA EndedStays ==
    ASSUME Shape, [Next]_vars, NEW s \in Submitters, pc[s] \in {"done", "failed"}
    PROVE  Same(s)
<1>1. ASSUME NEW u \in Submitters, Step(u) \/ TimeOut(u) PROVE Same(s)
  BY <1>1, StepsOn, OthersStay
<1>2. CASE UNCHANGED <<submitter, uploads>>
  BY <1>2 DEF Same, submitter
<1> QED BY <1>1, <1>2, ClusterStep

LEMMA NextRuns == ASSUME IInv, [Next]_vars PROVE Runs'
<1> SUFFICES ASSUME NEW n \in Names
             PROVE  LET by == topologies'[n].by
                    IN  /\ topologies'[n].status = "gone" => by = None
                        /\ by \in Submitters =>
                              /\ pc'[by] \in {"done", "failed"}
                              /\ Ready(request'[by], topology'[by], uploads'[by])
                              /\ topologies'[n].jar # None =>
                                    topologies'[n].jar = by /\ request'[by].jar # "remote"
  BY DEF Runs
<1> USE DEF IInv
<1>0. None \notin Submitters
  BY SubmitAssumption
<1>1. ASSUME topologies'[n].by = topologies[n].by, topologies'[n].jar = topologies[n].jar,
             topologies'[n].status = "gone" => topologies[n].status = "gone",
             NEW by, by = topologies[n].by
      PROVE  /\ topologies'[n].status = "gone" => by = None
             /\ by \in Submitters =>
                   /\ pc'[by] \in {"done", "failed"}
                   /\ Ready(request'[by], topology'[by], uploads'[by])
                   /\ topologies'[n].jar # None =>
                         topologies'[n].jar = by /\ request'[by].jar # "remote"
  <2>1. by \in Submitters => Same(by)
    BY <1>1, EndedStays DEF Runs
  <2> QED BY <1>1, <2>1 DEF Runs, Same
<1>2. CASE topologies'[n] = topologies[n]
  BY <1>1, <1>2
<1>3. CASE topologies'[n] = NoTopology
  BY <1>0, <1>3 DEF NoTopology
<1>4. ASSUME NEW s \in Submitters, Kills(s, n)
      PROVE  /\ topologies'[n].by = topologies[n].by
             /\ topologies'[n].jar = topologies[n].jar
             /\ topologies'[n].status = "killed"
  BY <1>4 DEF Kills, Shape, NimbusShape
<1>5. ASSUME NEW s \in Submitters, Starts(s, n)
      PROVE  /\ topologies'[n].by = s
             /\ topologies'[n].status # "gone"
             /\ topologies'[n].jar # None => topologies'[n].jar = s /\ request[s].jar # "remote"
             /\ pc'[s] \in {"done", "failed"}
             /\ Ready(request[s], topology'[s], uploads'[s])
  <2>1. Gone(request[s], pc[s], topology[s], sent[s], uploads[s])
    BY DEF Progress
  <2>2. CASE pc[s] = "submit" /\ pc'[s] = "done" /\ UNCHANGED <<topology, uploads>>
    <3>1. Ready(request[s], topology[s], uploads[s])
      BY <2>1, <2>2 DEF Gone, Ready, Connected, Checked
    <3> QED BY <1>5, <2>2, <3>1 DEF Starts
  <2>3. CASE <<"submit", s>> \in late /\ UNCHANGED <<submitter, uploads>>
    <3>1. pc[s] = "failed" /\ Ready(request[s], topology[s], uploads[s])
      BY <2>3 DEF Underway
    <3>2. pc' = pc /\ topology' = topology /\ uploads' = uploads
      BY <2>3 DEF submitter
    <3> QED BY <1>5, <3>1, <3>2 DEF Starts
  <2> QED BY <1>5, <2>2, <2>3 DEF Starts
<1>6. request' = request
  BY RequestStays
<1> QED BY <1>0, <1>1, <1>2, <1>3, <1>4, <1>5, <1>6, Fates DEF Fate

LEMMA NextReplaced == ASSUME IInv, [Next]_vars PROVE Replaced'
<1> USE DEF IInv
<1>0. /\ request' = request
      /\ \A s \in Submitters : Gone(request[s], pc[s], topology[s], sent[s], uploads[s])
      /\ pc \in [Submitters -> Pcs]
      /\ Old \notin Submitters /\ None # Old
  BY RequestStays, SubmitAssumption DEF Progress, Shape, SubmitterShape
<1> SUFFICES ASSUME NEW u \in Submitters, pc'[u] \in {"nameAllowed", "submit"}, request[u].force
             PROVE  topologies'[Name(u)].by # Old
  BY <1>0 DEF Replaced, Name
<1>1. ASSUME NEW n \in Names, topologies[n].by # Old PROVE topologies'[n].by # Old
  <2>1. ASSUME NEW s \in Submitters, Kills(s, n) PROVE topologies'[n].by = topologies[n].by
    BY <2>1 DEF Kills, Shape, NimbusShape
  <2>2. ASSUME NEW s \in Submitters, Starts(s, n) PROVE topologies'[n].by = s
    BY <2>2 DEF Starts
  <2>3. NoTopology.by = None
    BY DEF NoTopology
  <2> QED BY <1>0, <1>1, <2>1, <2>2, <2>3, Fates DEF Fate
<1>2. pc[u] \in {"check", "await", "nameAllowed", "submit"}
  <2>1. CASE Step(u) \/ TimeOut(u)
    BY <1>0, <2>1
       DEF Step, TimeOut, ResolveRequest, GetStormWorkers, Prepare, Connect, BeginFileUpload,
           UploadChunk, FinishFileUpload, CheckRunning, KillTopology, AwaitQuit, CheckName,
           SubmitTopology, GoTo, Fail
  <2>2. ASSUME NEW s \in Submitters, s # u, Step(s) \/ TimeOut(s) PROVE Same(u)
    BY <2>2, OthersStay
  <2>3. CASE UNCHANGED <<submitter, uploads>>
    BY <2>3 DEF submitter
  <2> QED BY <2>1, <2>2, <2>3, ClusterStep DEF Same
<1>3. Name(u) \in Names
  BY <1>0, <1>2, NameFacts DEF Gone
<1>4. CASE pc[u] \in {"nameAllowed", "submit"}
  BY <1>1, <1>3, <1>4 DEF Replaced
<1>5. CASE pc[u] \in {"check", "await"}
  <2>1. Step(u) \/ TimeOut(u)
    BY <1>5, OthersStay, ClusterStep DEF Same, submitter
  <2>2. topologies[Name(u)].status = "gone"
    BY <1>0, <1>5, <2>1
       DEF Step, TimeOut, ResolveRequest, GetStormWorkers, Prepare, Connect, BeginFileUpload,
           UploadChunk, FinishFileUpload, CheckRunning, KillTopology, AwaitQuit, CheckName,
           SubmitTopology, GoTo, Fail, MustKill, IsSafeToSubmit, Running
  <2> QED BY <1>0, <1>1, <1>3, <2>2 DEF Runs
<1> QED BY <1>2, <1>4, <1>5

LEMMA Invariance == Spec => []IInv
<1>1. Init => IInv
  BY InitShape, InitProgress, InitRest DEF IInv
<1>2. IInv /\ [Next]_vars => IInv'
  BY NextShape, NextProgress, NextUnderway, NextRuns, NextReplaced DEF IInv
<1> QED BY <1>1, <1>2, PTL DEF Spec

-----------------------------------------------------------------------------
(* The properties.                                                         *)

\* What submitters keep and what Nimbus keeps has the shape it should have,
\* and no more is uploaded than the jar has.
THEOREM TypeCorrect == Spec => []TypeOK
<1>1. IInv => TypeOK
  <2> SUFFICES ASSUME IInv PROVE TypeOK
    OBVIOUS
  <2>1. \A s \in Submitters : /\ sent[s] \in 0 .. request[s].jarSize
                             /\ uploads[s].bytes \in 0 .. request[s].jarSize
    BY RequestFacts DEF IInv, Shape, SubmitterShape, NimbusShape, Progress, Gone
  <2>2. \A n \in Names : /\ topologies[n].by \in Submitters \cup {Old, None}
                        /\ topologies[n].status \in {"gone", "active", "inactive", "killed"}
    BY DEF IInv, Shape, NimbusShape, Statuses
  <2> QED BY <2>1, <2>2
          DEF IInv, Shape, SubmitterShape, NimbusShape, BoundShape, TypeOK, Pcs, Reasons
<1> QED BY <1>1, Invariance, PTL

\* Nimbus has every byte of the jar of each topology it runs for a submitter,
\* whatever the size of the jar and of a chunk, and whichever calls time out.
THEOREM JarsAreComplete == Spec => []JarComplete
<1>1. IInv => JarComplete
  BY DEF IInv, Runs, JarComplete, Submitted, Ready, Uploaded
<1> QED BY <1>1, Invariance, PTL

\* The three settings agree about the path of the virtualenv for every request
\* that is not refused.
THEOREM VirtualenvsAgree == Spec => []VirtualenvAgrees
<1>1. IInv => VirtualenvAgrees
  <2>1. ASSUME IInv, NEW n \in Submitted
        PROVE  Agrees(request[topologies[n].by], topology[topologies[n].by])
    BY <2>1, PreparedAgrees DEF IInv, Runs, Submitted, Ready, Accepted
  <2> QED BY <2>1 DEF VirtualenvAgrees, Agrees
<1> QED BY <1>1, Invariance, PTL

\* Every option that counts is the one the most specific source has, and every
\* hint is the one for the environment of the request.
THEOREM AlwaysAsAsked == Spec => []RunsAsAsked
<1>1. IInv => RunsAsAsked
  <2>1. ASSUME IInv, NEW n \in Submitted
        PROVE  AsAsked(request[topologies[n].by], topology[topologies[n].by])
    BY <2>1, PreparedAsAsked DEF IInv, Runs, Submitted, Ready
  <2> QED BY <2>1 DEF RunsAsAsked, AsAsked
<1> QED BY <1>1, Invariance, PTL

\* Nothing is killed but on behalf of a command that was given --force for it.
THEOREM OnlyForceKills == Spec => KilledByForce
<1> DEFINE A == \A n \in Names :
                  topologies[n].status # "killed" /\ topologies[n]'.status = "killed" =>
                    \E s \in Submitters :
                       /\ request[s].force /\ Name(s) = n
                       /\ \/ pc[s] = "kill" /\ pc[s]' = "await"
                          \/ <<"kill", s>> \in late \ late'
<1>1. IInv /\ [Next]_vars => A
  <2> SUFFICES ASSUME IInv, [Next]_vars, NEW n \in Names,
                      topologies[n].status # "killed", topologies'[n].status = "killed"
               PROVE  \E s \in Submitters :
                         /\ request[s].force /\ Name(s) = n
                         /\ \/ pc[s] = "kill" /\ pc'[s] = "await"
                            \/ <<"kill", s>> \in late \ late'
    OBVIOUS
  <2>1. ASSUME NEW s \in Submitters, Starts(s, n) PROVE FALSE
    BY <2>1 DEF Starts
  <2>2. ASSUME NEW s \in Submitters, Kills(s, n) PROVE request[s].force
    BY <2>2 DEF Kills, IInv, Progress, Gone, Underway
  <2>3. NoTopology.status # "killed"
    BY DEF NoTopology
  <2>4. PICK s \in Submitters : Kills(s, n)
    BY <2>1, <2>3, Fates DEF Fate, IInv
  <2> QED BY <2>2, <2>4 DEF Kills
<1> QED BY <1>1, Invariance, PTL DEF Spec, KilledByForce

\* A command with --force never finds the topology it is to replace running.
THEOREM ForceAlwaysReplaces == Spec => ForceReplaces
<1> DEFINE A == \A s \in Submitters :
                  request[s].force /\ reason[s]' = "alreadyAlive" /\ reason[s] = None =>
                      topologies[Name(s)].by # Old
<1>1. IInv /\ [Next]_vars => A
  <2> SUFFICES ASSUME IInv, [Next]_vars, NEW s \in Submitters,
                      request[s].force, reason'[s] = "alreadyAlive", reason[s] = None
               PROVE  topologies[Name(s)].by # Old
    OBVIOUS
  <2>1. None # "alreadyAlive"
    BY SubmitAssumption DEF Reasons
  <2>2. Step(s) \/ TimeOut(s)
    BY <2>1, OthersStay, ClusterStep DEF Same, submitter, IInv
  <2>3. pc[s] = "submit"
    BY <2>1, <2>2
       DEF Step, TimeOut, ResolveRequest, GetStormWorkers, Prepare, Connect, BeginFileUpload,
           UploadChunk, FinishFileUpload, CheckRunning, KillTopology, AwaitQuit, CheckName,
           SubmitTopology, GoTo, Fail, IInv, Shape, SubmitterShape
  <2> QED BY <2>3 DEF IInv, Replaced
<1> QED BY <1>1, Invariance, PTL DEF Spec, ForceReplaces

\* What a command reports is what it has done, unless its last call timed out.
THEOREM AlwaysReportsTruly == Spec => ReportsTruly
<1> DEFINE A == \A s \in Submitters :
                  /\ pc[s] # "done" /\ pc[s]' = "done" => topologies[Name(s)]'.by = s
                  /\ \A n \in Names : topologies[n].by # s /\ topologies[n]'.by = s =>
                         pc[s]' = "done" \/ reason[s] = "timeout"
<1>1. IInv /\ [Next]_vars => A
  <2>1. ASSUME IInv, [Next]_vars, NEW s \in Submitters, pc[s] # "done", pc'[s] = "done"
        PROVE  topologies'[Name(s)].by = s
    <3>1. Step(s) \/ TimeOut(s)
      BY <2>1, OthersStay, ClusterStep DEF Same, submitter, IInv
    <3>2. SubmitTopology(s) /\ pc[s] = "submit"
      BY <2>1, <3>1
         DEF Step, TimeOut, ResolveRequest, GetStormWorkers, Prepare, Connect, BeginFileUpload,
             UploadChunk, FinishFileUpload, CheckRunning, KillTopology, AwaitQuit, CheckName,
             SubmitTopology, GoTo, Fail, IInv, Shape, SubmitterShape
    <3>3. Started(s)
      BY <2>1, <3>2 DEF SubmitTopology, Fail, IInv, Shape, SubmitterShape
    <3>4. Accepted(request[s])
      BY <2>1, <3>2 DEF IInv, Progress, Gone
    <3>5. Name(s) \in Names
      BY <2>1, <3>4, NameFacts DEF IInv
    <3> QED BY <2>1, <3>3, <3>5 DEF Started, IInv, Shape, NimbusShape
  <2>2. ASSUME IInv, [Next]_vars, NEW s \in Submitters, NEW n \in Names,
               topologies[n].by # s, topologies'[n].by = s
        PROVE  pc'[s] = "done" \/ reason[s] = "timeout"
    <3>1. NoTopology.by # s
      BY SubmitAssumption DEF NoTopology
    <3>2. ASSUME NEW u \in Submitters, Kills(u, n) PROVE topologies'[n].by = topologies[n].by
      BY <2>2, <3>2 DEF Kills, IInv, Shape, NimbusShape
    <3>3. ASSUME NEW u \in Submitters, Starts(u, n) PROVE u = s
      BY <2>2, <3>3 DEF Starts
    <3>4. Starts(s, n)
      BY <2>2, <3>1, <3>2, <3>3, Fates DEF Fate, IInv
    <3> QED BY <2>2, <3>4 DEF Starts, IInv, Underway
  <2>3. ASSUME IInv, [Next]_vars, NEW s \in Submitters
        PROVE  request' = request /\ Name(s)' = Name(s)
    BY <2>3, RequestStays DEF Name
  <2> QED BY <2>1, <2>2, <2>3
<1> QED BY <1>1, Invariance, PTL DEF Spec, ReportsTruly

=============================================================================
