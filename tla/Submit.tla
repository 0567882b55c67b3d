-------------------------------- MODULE Submit --------------------------------
(***************************************************************************)
(* pystorm-a8c submit: cli.submit.submit_topology and the Nimbus client of *)
(* util.py.  Each submitter is one run of the command; several may run at  *)
(* a time against one cluster.  A run ends at its first exception.         *)
(*                                                                         *)
(* A call of Nimbus is one step, what happens on the way back being seen   *)
(* by nobody else; a call may also time out, and then a kill or a submit   *)
(* may still be carried out later.                                         *)
(***************************************************************************)
EXTENDS SubmitOptions, FiniteSets

CONSTANTS Submitters,
          Requests,        \* of each submitter, what it may be run with
          Env,             \* the environments it may choose from
          Files,           \* topology definition files
          Names,           \* names of topologies
          BadNames,        \* names Nimbus does not allow
          Nodes,           \* Nimbus hosts
          Seed,            \* the one config.json names
          Supervisors,     \* how many supervisors the cluster has
          ChunkSize,       \* THRIFT_CHUNK_SIZE
          MaxTimeouts,     \* bound: calls that time out
          MaxElections     \* bound: changes of the leader

Old == "old"   \* who submitted what runs at the start
Reasons == {"refused", "timeout", "notLeader", "notAlive", "alreadyAlive", "serializer", "name"}

\* A jar is built, or is a local file, which may be missing, or is in the
\* cluster already.
ASSUME SubmitAssumption ==
    /\ Seed \in Nodes
    /\ Files \cup BadNames \subseteq Names
    /\ None \notin Reasons \cup {Old}
    /\ {None, Old} \cap Submitters = {}
    /\ Supervisors # None
    /\ ChunkSize \in Nat \ {0}
    /\ {MaxTimeouts, MaxElections} \subseteq Nat
    /\ \A s \in Submitters : \A r \in Requests[s] :
          /\ r.overrideName \in Names \cup {None}
          /\ r.jar \in {"build", "local", "missing", "remote"}
          /\ r.jarSize \in Nat

VARIABLES request,      \* what each submitter was run with
          pc,           \* the call each is about to make
          reason,       \* why it has failed
          topology,     \* the options and the topology it has prepared
          node,         \* the Nimbus host it is connected to
          sent,         \* bytes of the jar it has read and uploaded
          leader,
          uploads,      \* of each submitter's upload location, what Nimbus has
          topologies,   \* of each name, what Nimbus runs
          late,         \* calls that timed out and are still on the way
          timeouts, elections

submitter == <<request, pc, reason, topology, node, sent>>
nimbus == <<leader, uploads, topologies>>
vars == <<submitter, nimbus, late, timeouts, elections>>

NoTopology == [by |-> None, status |-> "gone", jar |-> None]
NoUpload == [bytes |-> 0, finished |-> FALSE]
Calls == {"workers", "connect", "beginUpload", "uploadChunk", "finishUpload", "check",
          "kill", "await", "nameAllowed", "submit"}

\* None picks the only one there is; otherwise what is named has to exist.
Chosen(given, available) ==
    IF given = None /\ Cardinality(available) = 1 THEN CHOOSE x \in available : TRUE
    ELSE IF given \in available THEN given ELSE None

Name(s) == IF request[s].overrideName # None THEN request[s].overrideName
           ELSE Chosen(request[s].name, Files)
Running(n) == topologies[n].status # "gone"
IsSafeToSubmit(s) == ~Running(Name(s))

TypeOK == /\ \A s \in Submitters : request[s] \in Requests[s]
          /\ pc \in [Submitters -> {"resolve", "prepare", "done", "failed"} \cup Calls]
          /\ reason \in [Submitters -> Reasons \cup {None}]
          /\ node \in [Submitters -> Nodes]
          /\ \A s \in Submitters : sent[s] \in 0 .. request[s].jarSize
          /\ leader \in Nodes
          /\ \A s \in Submitters : uploads[s].bytes \in 0 .. request[s].jarSize
          /\ \A n \in Names : /\ topologies[n].by \in Submitters \cup {Old, None}
                              /\ topologies[n].status \in {"gone", "active", "inactive", "killed"}
          /\ late \subseteq {"kill", "submit"} \X Submitters
          /\ timeouts \in 0 .. MaxTimeouts
          /\ elections \in 0 .. MaxElections

Init == /\ request \in [Submitters -> UNION {Requests[s] : s \in Submitters}]
        /\ \A s \in Submitters : request[s] \in Requests[s]
        /\ pc = [s \in Submitters |-> "resolve"]
        /\ reason = [s \in Submitters |-> None]
        /\ topology = [s \in Submitters |-> None]
        /\ node = [s \in Submitters |-> Seed]
        /\ sent = [s \in Submitters |-> 0]
        /\ leader \in Nodes
        /\ uploads = [s \in Submitters |-> NoUpload]
        /\ topologies \in [Names -> {NoTopology, [NoTopology EXCEPT !.by = Old, !.status = "active"]}]
        /\ \A n \in BadNames : topologies[n] = NoTopology
        /\ late = {}
        /\ timeouts = 0
        /\ elections = 0

GoTo(s, l) == /\ pc' = [pc EXCEPT ![s] = l]
              /\ UNCHANGED reason
Fail(s, why) == /\ pc' = [pc EXCEPT ![s] = "failed"]
                /\ reason' = [reason EXCEPT ![s] = why]

-----------------------------------------------------------------------------
(* Before Nimbus is called.                                                *)

HasVirtualenv(r) == r.venvKey \notin {None, ""}

FilesAreUsable(s) == /\ Chosen(request[s].name, Files) # None
                     /\ Chosen(request[s].env, Env) # None

ResolveRequest(s) ==
    /\ pc[s] = "resolve"
    /\ IF HasVirtualenv(request[s]) /\ FilesAreUsable(s) /\ OptionsAreUsable(request[s])
       THEN LET options == ResolveOptions(request[s])
                hosts == request[s].workers
            IN  IF NeedsWorkers(options) /\ hosts = None
                THEN /\ topology' = [topology EXCEPT ![s] = [options |-> options]]
                     /\ GoTo(s, "workers")
                ELSE /\ topology' = [topology EXCEPT ![s] =
                            [options |-> IF NeedsWorkers(options)
                                         THEN WithWorkers(options, hosts) ELSE options]]
                     /\ GoTo(s, "prepare")
       ELSE /\ Fail(s, "refused")
            /\ UNCHANGED topology
    /\ UNCHANGED <<request, node, sent, nimbus, late, timeouts, elections>>

\* get_nimbus_host_port finds a host, and a number for the port.
NimbusIsNamed(s) == request[s].nimbus

\* getClusterInfo, through a client of its own that followers answer too.
GetStormWorkers(s) ==
    /\ pc[s] = "workers"
    /\ IF NimbusIsNamed(s)
       THEN /\ topology' = [topology EXCEPT ![s].options = WithWorkers(@, Supervisors)]
            /\ GoTo(s, "prepare")
       ELSE Fail(s, "refused") /\ UNCHANGED topology
    /\ UNCHANGED <<request, node, sent, nimbus, late, timeouts, elections>>

\* The commands, the name, the parallelism, and the jar unless there is one.
Prepare(s) ==
    LET r == request[s]
        env == Chosen(r.env, Env)
        options == Updated(topology[s].options,
                           Only(OriginalName, Chosen(r.name, Files)))
    IN  /\ pc[s] = "prepare"
        /\ topology' = [topology EXCEPT ![s] =
               [options |-> options,
                commands |-> RewriteExecutionCommands(r.commands),
                par |-> ResolveParallelism(r.hints, env)]]
        /\ IF MissingParallelism(r.hints, env) = {} /\ (r.jar = "build" => r.jarSize > 0)
           THEN GoTo(s, "connect") ELSE Fail(s, "refused")
        /\ UNCHANGED <<request, node, sent, nimbus, late, timeouts, elections>>

-----------------------------------------------------------------------------
(* The calls.                                                              *)

\* get_nimbus_client: the seed says who leads, and a second connection goes
\* there unless the seed does.
ConnectedTo(s) == leader

Connect(s) ==
    /\ pc[s] = "connect"
    /\ IF NimbusIsNamed(s)
       THEN /\ node' = [node EXCEPT ![s] = ConnectedTo(s)]
            /\ GoTo(s, IF request[s].jar = "remote" THEN "check" ELSE "beginUpload")
       ELSE Fail(s, "refused") /\ UNCHANGED node
    /\ UNCHANGED <<request, topology, sent, nimbus, late, timeouts, elections>>

\* Nimbus has assigned a location by the time the file turns out to be missing.
BeginFileUpload(s) ==
    /\ pc[s] = "beginUpload"
    /\ IF request[s].jar = "missing" THEN Fail(s, "refused") ELSE GoTo(s, "uploadChunk")
    /\ UNCHANGED <<request, topology, node, sent, nimbus, late, timeouts, elections>>

\* Mutated form: a short read is taken for the end.
WholeChunk(s) == IF request[s].jarSize - sent[s] < ChunkSize THEN 0 ELSE ChunkSize

\* What local_jar.read(THRIFT_CHUNK_SIZE) returns; nothing at the end.
Chunk(s) == LET left == request[s].jarSize - sent[s]
            IN  IF left < ChunkSize THEN left ELSE ChunkSize

UploadChunk(s) ==
    /\ pc[s] = "uploadChunk"
    /\ IF Chunk(s) = 0 THEN GoTo(s, "finishUpload") ELSE GoTo(s, "uploadChunk")
    /\ sent' = [sent EXCEPT ![s] = @ + Chunk(s)]
    /\ uploads' = [uploads EXCEPT ![s].bytes = @ + Chunk(s)]
    /\ UNCHANGED <<request, topology, node, leader, topologies, late, timeouts, elections>>

FinishFileUpload(s) ==
    /\ pc[s] = "finishUpload"
    /\ uploads' = [uploads EXCEPT ![s].finished = TRUE]
    /\ GoTo(s, "check")
    /\ UNCHANGED <<request, topology, node, sent, leader, topologies, late, timeouts, elections>>

\* Mutated form: --force is not looked at.
Taken(s) == ~IsSafeToSubmit(s)

\* Without --force Nimbus is not even asked.
MustKill(s) == request[s].force /\ ~IsSafeToSubmit(s)

CheckRunning(s) ==
    /\ pc[s] = "check"
    /\ GoTo(s, IF MustKill(s) THEN "kill" ELSE "nameAllowed")
    /\ UNCHANGED <<request, topology, node, sent, nimbus, late, timeouts, elections>>

\* Mutated form: the kill is not sent.
NotKilled(n) == UNCHANGED topologies

Killed(n) == topologies' = [topologies EXCEPT ![n].status = "killed"]

\* Only the leader writes, and only a topology that runs can be killed.
KillTopology(s) ==
    /\ pc[s] = "kill"
    /\ IF node[s] # leader
       THEN Fail(s, "notLeader") /\ UNCHANGED topologies
       ELSE IF ~Running(Name(s))
            THEN Fail(s, "notAlive") /\ UNCHANGED topologies
            ELSE GoTo(s, "await") /\ Killed(Name(s))
    /\ UNCHANGED <<request, topology, node, sent, leader, uploads, late, timeouts, elections>>

\* Mutated form: the wait ends before the topology has quit.
AwaitNothing(s) ==
    /\ pc[s] = "await"
    /\ GoTo(s, "nameAllowed")
    /\ UNCHANGED <<request, topology, node, sent, nimbus, late, timeouts, elections>>

\* Every half second Nimbus is asked again.
AwaitQuit(s) ==
    /\ pc[s] = "await"
    /\ IF IsSafeToSubmit(s) THEN GoTo(s, "nameAllowed") ELSE GoTo(s, "await")
    /\ UNCHANGED <<request, topology, node, sent, nimbus, late, timeouts, elections>>

\* set_topology_serializer is not called before here.
CheckName(s) ==
    /\ pc[s] = "nameAllowed"
    /\ IF ~SerializerIsSupported(request[s]) THEN Fail(s, "serializer")
       ELSE IF Name(s) \in BadNames THEN Fail(s, "name")
       ELSE GoTo(s, "submit")
    /\ UNCHANGED <<request, topology, node, sent, nimbus, late, timeouts, elections>>

\* The options and the topology are those of topology[s], which stay as they are.
Started(s) ==
    topologies' = [topologies EXCEPT ![Name(s)] =
        [by |-> s,
         status |-> IF request[s].active THEN "active" ELSE "inactive",
         jar |-> IF request[s].jar = "remote" THEN None ELSE s]]

\* Mutated form: an exception of the last call is swallowed.
SubmitQuietly(s) ==
    /\ pc[s] = "submit"
    /\ GoTo(s, "done")
    /\ IF node[s] # leader \/ Running(Name(s)) THEN UNCHANGED topologies ELSE Started(s)
    /\ UNCHANGED <<request, topology, node, sent, leader, uploads, late, timeouts, elections>>

SubmitTopology(s) ==
    /\ pc[s] = "submit"
    /\ IF node[s] # leader
       THEN Fail(s, "notLeader") /\ UNCHANGED topologies
       ELSE IF Running(Name(s))
            THEN Fail(s, "alreadyAlive") /\ UNCHANGED topologies
            ELSE GoTo(s, "done") /\ Started(s)
    /\ UNCHANGED <<request, topology, node, sent, leader, uploads, late, timeouts, elections>>

\* Not every step makes a call.
Calling(s) == CASE pc[s] \in {"workers", "connect"} -> NimbusIsNamed(s)
                [] pc[s] = "uploadChunk" -> Chunk(s) > 0
                [] pc[s] = "check" -> request[s].force
                [] pc[s] = "nameAllowed" -> SerializerIsSupported(request[s])
                [] OTHER -> pc[s] \in Calls

\* No answer in time: the command ends, whatever Nimbus does about the call.
TimeOut(s) ==
    /\ Calling(s)
    /\ timeouts < MaxTimeouts
    /\ timeouts' = timeouts + 1
    /\ Fail(s, "timeout")
    /\ late' = IF pc[s] \in {"kill", "submit"} THEN late \cup {<<pc[s], s>>} ELSE late
    /\ UNCHANGED <<request, topology, node, sent, nimbus, elections>>

-----------------------------------------------------------------------------
(* The cluster.                                                            *)

HandleLateKill(s) ==
    /\ <<"kill", s>> \in late
    /\ late' = late \ {<<"kill", s>>}
    /\ IF node[s] = leader /\ Running(Name(s)) THEN Killed(Name(s))
                                               ELSE UNCHANGED topologies
    /\ UNCHANGED <<submitter, leader, uploads, timeouts, elections>>

HandleLateSubmit(s) ==
    /\ <<"submit", s>> \in late
    /\ late' = late \ {<<"submit", s>>}
    /\ IF node[s] = leader /\ ~Running(Name(s)) THEN Started(s)
                                                ELSE UNCHANGED topologies
    /\ UNCHANGED <<submitter, leader, uploads, timeouts, elections>>

\* The workers have stopped, wait_secs after the kill.
Quit(n) ==
    /\ topologies[n].status = "killed"
    /\ topologies' = [topologies EXCEPT ![n] = NoTopology]
    /\ UNCHANGED <<submitter, leader, uploads, late, timeouts, elections>>

Elect(l) ==
    /\ elections < MaxElections
    /\ l # leader
    /\ leader' = l
    /\ elections' = elections + 1
    /\ UNCHANGED <<submitter, uploads, topologies, late, timeouts>>

-----------------------------------------------------------------------------
Step(s) == \/ ResolveRequest(s) \/ GetStormWorkers(s) \/ Prepare(s) \/ Connect(s)
           \/ BeginFileUpload(s) \/ UploadChunk(s) \/ FinishFileUpload(s)
           \/ CheckRunning(s) \/ KillTopology(s) \/ AwaitQuit(s) \/ CheckName(s)
           \/ SubmitTopology(s)

Next == \/ \E s \in Submitters : \/ Step(s) \/ TimeOut(s)
                                 \/ HandleLateKill(s) \/ HandleLateSubmit(s)
        \/ \E n \in Names : Quit(n)
        \/ \E l \in Nodes : Elect(l)

Spec == Init /\ [][Next]_vars

\* Each command runs on until it ends, and Nimbus stops what was killed.
Fairness == /\ \A s \in Submitters : WF_vars(Step(s))
            /\ \A n \in Names : WF_vars(Quit(n))

FairSpec == Spec /\ Fairness

-----------------------------------------------------------------------------
(* Properties.                                                             *)

\* The topologies that run and were submitted by one of the submitters.
Submitted == {n \in Names : topologies[n].by \in Submitters}

\* What runs has been given a jar that Nimbus has every byte of, and that was
\* finished: the chunks of _upload_jar leave nothing out, whatever the size.
JarComplete ==
    \A n \in Submitted : topologies[n].jar # None =>
        uploads[topologies[n].jar] = [bytes |-> request[topologies[n].by].jarSize,
                                      finished |-> TRUE]

\* The three settings that have to agree about one path do: PATH starts with,
\* and every command is in, the directory the blobstore unpacks the
\* virtualenv to, whatever options were given (blobstore_options and
\* rewrite_execution_commands).
VirtualenvAgrees ==
    \A n \in Submitted :
        LET w == topology[topologies[n].by]
            r == request[topologies[n].by]
            bin == <<"..", w.options[BlobMap][r.venvKey].localname, "bin">>
        IN  /\ "PATH" \in DOMAIN w.options[Environment]
            /\ w.options[Environment]["PATH"][1] = bin
            /\ \A c \in DOMAIN r.commands : r.commands[c] \in RunCommands =>
                   SubSeq(w.commands[c], 1, 3) = bin
            /\ \A k \in DOMAIN Blobs(r) :
                   w.options[BlobMap][k].localname # w.options[BlobMap][r.venvKey].localname

\* The options of a request that count, the most specific first.
Sources(r) == <<CliOptions(r), r.config,
                IF r.logLevel = None THEN Empty ELSE Only(LogLevel, Lower(r.logLevel)),
                r.envOptions>>
Derived(r) == {BlobMap, Environment, PythonPath, OriginalName}
              \cup (IF Truthy(Get(Merged(r), Debug)) THEN {LogLevel} ELSE {})
MostSpecific(r, k) ==
    LET has == {i \in 1 .. 4 : k \in DOMAIN Sources(r)[i]}
    IN  Sources(r)[CHOOSE i \in has : \A j \in has : i <= j][k]

\* No option is quietly dropped or taken from the wrong place, but for those the
\* command derives (VirtualenvAgrees is about most of them), and no component
\* comes up with a parallelism other than the one its spec names for this
\* environment (resolve_options, resolve_parallelism).
RunsAsAsked ==
    \A n \in Submitted :
        LET w == topology[topologies[n].by]
            r == request[topologies[n].by]
            env == Chosen(r.env, Env)
        IN  /\ \A k \in (UNION {DOMAIN Sources(r)[i] : i \in 1 .. 4}) \ Derived(r) :
                   MostSpecific(r, k) # None => Get(w.options, k) = MostSpecific(r, k)
            /\ Get(w.options, Workers) # None
            /\ \A c \in DOMAIN r.hints : /\ env \in DOMAIN r.hints[c]
                                         /\ w.par[c] = r.hints[c][env]

\* A topology is killed only on behalf of a command that was given --force for
\* its name, however late Nimbus carries it out.
KilledByForce ==
    [][\A n \in Names : topologies[n].status # "killed" /\ topologies[n]'.status = "killed" =>
            \E s \in Submitters :
                /\ request[s].force /\ Name(s) = n
                /\ \/ pc[s] = "kill" /\ pc[s]' = "await"
                   \/ <<"kill", s>> \in late \ late']_vars

\* A command with --force never collides with the topology it is to replace,
\* only with one that was submitted while it waited (_kill_existing_topology).
ForceReplaces ==
    [][\A s \in Submitters :
            request[s].force /\ reason[s]' = "alreadyAlive" /\ reason[s] = None =>
                topologies[Name(s)].by # Old]_vars

\* A command that ends without an error has submitted its topology, and one
\* that fails has not, unless its call timed out.
ReportsTruly ==
    [][\A s \in Submitters :
            /\ pc[s] # "done" /\ pc[s]' = "done" => topologies[Name(s)]'.by = s
            /\ \A n \in Names : topologies[n].by # s /\ topologies[n]'.by = s =>
                   pc[s]' = "done" \/ reason[s] = "timeout"]_vars

Ended(s) == pc[s] \in {"done", "failed"}
Overtaken(s) == /\ pc[s] = "await"
                /\ topologies[Name(s)].status \in {"active", "inactive"}
                /\ topologies[Name(s)].by \in Submitters \ {s}

\* Every command ends, but for one that waits for a name which another command
\* took as soon as it was free.
EndsUnlessOvertaken == \A s \in Submitters : <>[](Ended(s) \/ Overtaken(s))

\* Every command ends: --force kills "any currently running topologies with
\* the same name" (the help text of the flag), and then submits.
EverySubmissionEnds == \A s \in Submitters : <>Ended(s)

=============================================================================
