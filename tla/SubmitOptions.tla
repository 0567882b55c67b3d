---------------------------- MODULE SubmitOptions ----------------------------
(***************************************************************************)
(* What cli.submit makes of a request before it talks to Nimbus: the       *)
(* options of config.json, the topology class and the command line merged  *)
(* into one Storm conf, the settings that put the virtualenv on a worker,  *)
(* and the parallelism and execution command of each component.            *)
(*                                                                         *)
(* A dict is a function on its keys, a JSON value is named by its text,    *)
(* and a path is the sequence of its parts.                                *)
(***************************************************************************)
EXTENDS Naturals, Sequences, Functions

CONSTANTS None,          \* null, or no value at all
          NotADict,      \* a value of topology.environment that is no object
          Unsupported,   \* UNSUPPORTED_OPTIONS
          Bare,          \* other keys without a dot
          Slashed,       \* local names with a slash in them
          RunCommands    \* execution commands that mention pystorm-a8c-run

Debug == "topology.debug"
Workers == "topology.workers"
Environment == "topology.environment"
BlobMap == "topology.blobstore.map"
LogLevel == "pystorm.log.level"
PythonPath == "topology.python.path"
OriginalName == "topology.original_name"

VirtualenvName == "venv"
VirtualenvBin == <<"..", VirtualenvName, "bin">>
WorkerPath == <<VirtualenvBin, <<"usr", "local", "bin">>, <<"usr", "bin">>, <<"bin">>>>
RunPath == Append(VirtualenvBin, "pystorm-a8c-run")

-----------------------------------------------------------------------------
(* Dicts.                                                                  *)

Empty == [k \in {} |-> None]
Only(k, v) == [x \in {k} |-> v]
Get(dict, k) == IF k \in DOMAIN dict THEN dict[k] ELSE None

Over(dict, new) ==
    [k \in DOMAIN dict \cup DOMAIN new |-> IF k \in DOMAIN new THEN new[k] ELSE dict[k]]

\* dict.update: what is new wins.  (Bound by a set, a dict is computed once.)
Updated(dict, new) == CHOOSE u \in {Over(d, n) : d \in {dict}, n \in {new}} : TRUE

\* What repeated KEY=VALUE flags amount to: the last one of a key counts.  A
\* flag without a key or a value is refused before there is a request.
FromFlags(flags) ==
    [k \in {flag[1] : flag \in Range(flags)} |->
        flags[CHOOSE i \in DOMAIN flags : /\ flags[i][1] = k
                                          /\ \A j \in DOMAIN flags : j > i => flags[j][1] # k][2]]

\* main: the flags -o and --blob of a request.
CliOptions(r) == FromFlags(r.options)
Blobs(r) == FromFlags(r.blobFlags)

\* bool() of a value parsed from JSON, where "False" is a string.
Truthy(v) == v \notin {None, "false", "0", ""}
Lower(level) == CASE level = "INFO" -> "info"
                  [] level = "DEBUG" -> "debug"
                  [] OTHER -> level

-----------------------------------------------------------------------------
(* What is refused.                                                        *)

Consumed(options) == DOMAIN options \cap (Unsupported \cup Bare) = {}

\* Only the keys known to be unsupported count in the env block and in its
\* log block, which have bare keys of their own.
OptionsAreConsumed(r) ==
    /\ Consumed(r.envOptions)
    /\ r.envKeys \cap Unsupported = {}
    /\ r.logKeys \cap Unsupported = {}
    /\ Consumed(r.config)
    /\ Consumed(CliOptions(r))

IsPlainFileName(name) == name \notin {"", ".", "..", VirtualenvName} \cup Slashed

BlobsAreUsable(r) ==
    /\ r.venvKey \notin DOMAIN Blobs(r)
    /\ \A k \in DOMAIN Blobs(r) :
          /\ IsPlainFileName(Blobs(r)[k])
          /\ \A other \in DOMAIN Blobs(r) \ {k} : Blobs(r)[other] # Blobs(r)[k]

EnvironmentIsUsable(environment) ==
    environment # None => /\ environment # NotADict
                          /\ "PATH" \notin DOMAIN environment

\* The serializer is looked up in the env block first.
SerializerIsSupported(r) ==
    LET serializer == IF r.envSerializer # None THEN r.envSerializer ELSE r.serializer
    IN  serializer \in {None, "json"}

-----------------------------------------------------------------------------
(* The Storm conf.                                                         *)

\* Later sources win: config.json, log.level, Topology.config, -o.
Merged(r) ==
    LET defaults == Updated(r.envOptions,
                            Only(PythonPath, Append(VirtualenvBin, "python")))
        logged == IF r.logLevel = None THEN defaults
                  ELSE Updated(defaults, Only(LogLevel, Lower(r.logLevel)))
    IN  Updated(Updated(logged, r.config), CliOptions(r))

OptionsAreUsable(r) == /\ OptionsAreConsumed(r)
                       /\ EnvironmentIsUsable(Get(Merged(r), Environment))
                       /\ BlobsAreUsable(r)

BlobstoreMap(r) ==
    Updated(Only(r.venvKey, [localname |-> VirtualenvName, uncompress |-> TRUE]),
            [k \in DOMAIN Blobs(r) |-> [localname |-> Blobs(r)[k], uncompress |-> FALSE]])

BlobstoreOptions(r, environment) ==
    Updated(Only(BlobMap, BlobstoreMap(r)),
            Only(Environment, Updated(IF environment = None THEN Empty ELSE environment,
                                      Only("PATH", WorkerPath))))

\* Mutated form: what is derived can be overridden.
VirtualenvFirst(r, options) ==
    Updated(BlobstoreOptions(r, Get(options, Environment)), options)

\* What is derived is applied last, and cannot be overridden.
WithVirtualenv(r, options) ==
    Updated(options, BlobstoreOptions(r, Get(options, Environment)))

ResolveOptions(r) ==
    LET options == WithVirtualenv(r, Merged(r))
    IN  IF Truthy(Get(options, Debug)) THEN Updated(options, Only(LogLevel, "debug"))
        ELSE options

\* One worker per supervisor unless a number is given.
NeedsWorkers(options) == Get(options, Workers) = None
WithWorkers(options, n) == Updated(options, Only(Workers, n))

-----------------------------------------------------------------------------
(* The topology.  A hint is a dict from environments to integers, or one   *)
(* integer, which counts for every environment.                            *)

\* Mutated form: a missing environment is not looked for.
NoneMissing(hints, env) == {}

\* The components whose hint has no entry for env.
MissingParallelism(hints, env) == {c \in DOMAIN hints : env \notin DOMAIN hints[c]}

\* Hints are resolved one by one; those without an entry stay dicts.
ResolveParallelism(hints, env) ==
    [c \in DOMAIN hints |-> Get(hints[c], env)]

\* Other commands are left as they are.
RewriteExecutionCommands(commands) ==
    [c \in DOMAIN commands |-> IF commands[c] \in RunCommands THEN RunPath
                                                             ELSE commands[c]]

=============================================================================
