------------------------------- MODULE MCSubmit -------------------------------
(***************************************************************************)
(* Instances of Submit for TLC: two submitters, two Nimbus hosts, a jar of *)
(* one chunk and a half or of two chunks.  The first submitter may be run  *)
(* with any of several requests, most of them with something to refuse.    *)
(***************************************************************************)
EXTENDS Submit, TLC

CONSTANTS s1, s2, n1, n2

MCSubmitters == {s1, s2}
MCNodes == {n1, n2}
MCEnv == {"storm4", "local"}
MCFiles == {"raws"}
MCNames == {"raws", "raws_prod", "a/b"}
MCBadNames == {"a/b"}
MCUnsupported == {"topology.blobstore.map", "virtualenv_root", "log_path"}
MCBare == {"workers"}
MCSlashed == {"a/b"}
MCRunCommands == {"pystorm-a8c-run"}

Plain ==
    [name |-> None, overrideName |-> None, env |-> "storm4", force |-> TRUE, active |-> TRUE,
     jar |-> "local", jarSize |-> 3,
     envOptions |-> "topology.max.spout.pending" :> "500" @@ Workers :> "4",
     envKeys |-> {"nimbus"}, logKeys |-> {}, logLevel |-> "INFO", config |-> Empty,
     options |-> <<>>, venvKey |-> "venv_tgz", blobFlags |-> <<>>, nimbus |-> TRUE, workers |-> None,
     envSerializer |-> None, serializer |-> "json",
     hints |-> [reader |-> [e \in Env |-> 1], counter |-> [storm4 |-> 8]],
     commands |-> [reader |-> "pystorm-a8c-run", counter |-> "node"]]

\* Every source sets something, and some set the same thing.
Busy ==
    [Plain EXCEPT !.jar = "build", !.jarSize = 4, !.logLevel = "DEBUG", !.workers = "2",
                  !.envOptions = Workers :> None @@ LogLevel :> "warn" @@ Debug :> "true",
                  !.config = LogLevel :> "error" @@ Debug :> "false"
                             @@ "topology.max.spout.pending" :> "10",
                  !.options = <<<<"topology.max.spout.pending", "100">>,
                                <<Environment, "TZ" :> "UTC">>,
                                <<"topology.max.spout.pending", "200">>>>,
                  !.blobFlags = <<<<"geoip", "GeoIP2.mmdb">>>>,
                  !.hints = [counter |-> [storm4 |-> 8, local |-> 1]]]

\* Nothing sets the number of workers, and nothing is killed.
Careful == [Plain EXCEPT !.force = FALSE, !.active = FALSE,
                         !.jar = "remote", !.jarSize = 0, !.envOptions = Empty,
                         !.options = <<<<Debug, "False">>>>]

Refused ==
    {[Plain EXCEPT !.venvKey = ""],
     [Plain EXCEPT !.nimbus = FALSE],
     [Careful EXCEPT !.nimbus = FALSE],
     [Plain EXCEPT !.jar = "missing"],
     [Plain EXCEPT !.env = None],
     [Plain EXCEPT !.name = "nothing"],
     [Plain EXCEPT !.logKeys = {"log_path"}],
     [Plain EXCEPT !.config = Environment :> NotADict],
     [Plain EXCEPT !.options = <<<<BlobMap, "{}">>>>],
     [Plain EXCEPT !.blobFlags = <<<<"venv_tgz", "file">>>>],
     [Plain EXCEPT !.envKeys = {"nimbus", "virtualenv_root"}],
     [Plain EXCEPT !.config = "workers" :> "3"],
     [Plain EXCEPT !.options = <<<<Environment, "PATH" :> <<>>>>>>],
     [Plain EXCEPT !.blobFlags = <<<<"x", "venv">>>>],
     [Plain EXCEPT !.blobFlags = <<<<"x", "f">>, <<"y", "f">>>>],
     [Plain EXCEPT !.hints = [counter |-> [local |-> 1]]],
     [Plain EXCEPT !.jar = "build", !.jarSize = 0],
     [Plain EXCEPT !.envSerializer = "msgpack"],
     [Plain EXCEPT !.overrideName = "a/b"]}

MCRequests == s1 :> ({Plain, Busy, Careful} \cup Refused)
              @@ s2 :> {Plain, [Plain EXCEPT !.force = FALSE, !.options = <<<<Debug, "true">>>>],
                    [Plain EXCEPT !.overrideName = "raws_prod"]}

\* Two commands with --force for one name.
OneName == {"raws"}
NoNames == {}
BothForced == s1 :> {Plain} @@ s2 :> {Plain}

=============================================================================
