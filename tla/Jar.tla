--------------------------------- MODULE Jar ---------------------------------
(***************************************************************************)
(* Commands that pack a source tree into a jar and upload it: the walk     *)
(* over a tree with symbolic links, the archive written entry by entry at  *)
(* a path that all commands started in one directory share, and the upload *)
(* that reads it.                                                          *)
(*                                                                         *)
(* The file system is a graph: an entry of a directory, link or not, leads *)
(* to a directory, to a file, or nowhere.  What is in a file is left out.  *)
(* The archive is a sequence of chunks, one per entry and the central      *)
(* directory that closes it.                                               *)
(***************************************************************************)
EXTENDS Naturals, Sequences, SequencesExt, FiniteSets

CONSTANTS Dirs,          \* directories
          Root,          \* src_dir
          Names,         \* the names of entries, as sorted
          ExcludedDirs,  \* EXCLUDED_DIRS
          ExcludedFiles, \* EXCLUDED_NAMES, and the names with EXCLUDED_SUFFIXES
          Commands,      \* commands run in one directory
          Configs        \* file systems, and what is run

\* Where an entry leads to, if not to a directory.
Leaves == {"file", "dangling", "none"}
Kinds == {"jar",     \* pystorm-a8c jar
          "submit",  \* pystorm-a8c submit, which builds the jar first
          "local",   \* pystorm-a8c submit --local_jar_path
          "idle"}    \* not run

\* closed: the directories that cannot be listed.  vanish: files may become
\* unreadable, or be removed, after the walk.
Config == [tree : [Dirs -> [ToSet(Names) -> Dirs \cup Leaves]], closed : SUBSET Dirs,
           kind : [Commands -> Kinds], vanish : BOOLEAN]

ASSUME JarAssumption == /\ IsFiniteSet(Dirs) /\ Root \in Dirs /\ Dirs \cap Leaves = {}
                        /\ Names \in Seq(ToSet(Names)) /\ IsInjective(Names)
                        /\ Configs \subseteq Config

VARIABLES conf,     \* the file system and the commands, which do not change
          pc,       \* where each command is
          stack,    \* the paths its walk has still to visit
          paths,    \* keys_by_path: the paths visited
          entries,  \* the paths of the files found, in order
          written,  \* how many of them have been written
          file,     \* the chunks of the archive
          got,      \* the chunks each command has uploaded
          clash     \* commands whose archive another one wrote to, or removed

walk == <<stack, paths, entries>>
vars == <<conf, pc, walk, written, file, got, clash>>

PCs == {"start", "walk", "open", "write", "close", "abort", "upload", "done", "failed"}
Ended(c) == pc[c] \in {"done", "failed"}

Chunk(path) == [path |-> path, list |-> <<>>]
Directory(list) == [path |-> <<"PK">>, list |-> list]
Hole == [path |-> <<>>, list |-> <<>>]

\* No path is longer than one without repetitions.
TypeOK == /\ conf \in Config
          /\ pc \in [Commands -> PCs]
          /\ \A c \in Commands :
                /\ \A p \in ToSet(stack[c]) \cup paths[c] \cup ToSet(entries[c]) :
                      p \in Seq(ToSet(Names)) /\ Len(p) <= Cardinality(Dirs)
                /\ written[c] \in 0..Len(entries[c])
          /\ clash \subseteq Commands

\* What a path leads to, link by link.
Follow(tree, path) ==
    LET reached[i \in 0..Len(path)] ==
            IF i = 0 THEN Root
            ELSE IF reached[i - 1] \in Dirs THEN tree[reached[i - 1]][path[i]]
            ELSE "none"
    IN reached

At(path) == Follow(conf.tree, path)[Len(path)]
IsDir(path) == At(path) \in Dirs

Sorted(S) ==
    LET upTo[i \in 0..Len(Names)] ==
            IF i = 0 THEN <<>>
            ELSE IF Names[i] \in S THEN Append(upTo[i - 1], Names[i])
            ELSE upTo[i - 1]
    IN upTo[Len(Names)]

Init == /\ conf \in Configs
        /\ pc = [c \in Commands |-> CASE conf.kind[c] = "idle" -> "done"
                                      [] conf.kind[c] = "local" -> "start"
                                      [] OTHER -> "walk"]
        /\ stack = [c \in Commands |-> << <<>> >>]
        /\ paths = [c \in Commands |-> {}]
        /\ entries = [c \in Commands |-> <<>>]
        /\ written = [c \in Commands |-> 0]
        /\ file = <<>>
        /\ got = [c \in Commands |-> <<>>]
        /\ clash = {}

-----------------------------------------------------------------------------
(* _collect.                                                               *)
\* Mutated form: any directory visited before counts.
Visited(path, visited) == \E p \in visited \ {path} : At(p) = At(path)

\* Only ancestors count: two links to one directory are not a loop.
ContainsItself(path, visited) ==
    \E i \in 0..(Len(path) - 1) : LET up == SubSeq(path, 1, i)
                                  IN up \in visited /\ At(up) = At(path)

Under(path, names) == [i \in DOMAIN names |-> Append(path, names[i])]
Found(path) == {n \in ToSet(Names) : conf.tree[At(path)][n] # "none"}
SubDirs(path) == {n \in Found(path) : IsDir(Append(path, n))}
Files(path) == (Found(path) \ SubDirs(path)) \ ExcludedFiles

\* os.walk passes over a directory it cannot list, without an error.
Visit(c) ==
    LET path == Head(stack[c])
        skipped == At(path) \in conf.closed
        pruned == skipped \/ ContainsItself(path, paths[c] \cup {path})
        dirs == SubDirs(path) \ ExcludedDirs
    IN /\ pc[c] = "walk" /\ stack[c] # <<>>
       /\ stack' = [stack EXCEPT ![c] =
              IF pruned THEN Tail(@) ELSE Under(path, Sorted(dirs)) \o Tail(@)]
       /\ paths' = [paths EXCEPT ![c] = IF skipped THEN @ ELSE @ \cup {path}]
       /\ entries' = [entries EXCEPT ![c] =
              IF pruned THEN @ ELSE @ \o Under(path, Sorted(Files(path)))]
       /\ UNCHANGED <<conf, pc, written, file, got, clash>>

\* There must be something to package.
EndWalk(c) ==
    /\ pc[c] = "walk" /\ stack[c] = <<>>
    /\ pc' = [pc EXCEPT ![c] = IF entries[c] = <<>> THEN "failed" ELSE "open"]
    /\ UNCHANGED <<conf, walk, written, file, got, clash>>

-----------------------------------------------------------------------------
(* build_jar.                                                              *)
Writing(c) == pc[c] \in {"write", "close", "abort"}

\* The commands that depend on the archive another one replaces or writes to.
Disturbed(c) == {d \in Commands \ {c} : Writing(d) \/ pc[d] = "upload"}

\* Mode "w" truncates the file, whoever else has it open.
Open(c) ==
    /\ pc[c] = "open"
    /\ pc' = [pc EXCEPT ![c] = "write"]
    /\ file' = <<>>
    /\ clash' = clash \cup Disturbed(c)
                      \cup (IF \E d \in Commands \ {c} : Writing(d) THEN {c} ELSE {})
    /\ UNCHANGED <<conf, walk, written, got>>

\* Each writer has its own place in the file.
Put(i, chunk) == [j \in 1..(IF i > Len(file) THEN i ELSE Len(file)) |->
                     IF j = i THEN chunk ELSE IF j \in DOMAIN file THEN file[j] ELSE Hole]

Write(c) ==
    /\ pc[c] = "write" /\ written[c] < Len(entries[c])
    /\ At(entries[c][written[c] + 1]) = "file"
    /\ file' = Put(written[c] + 1, Chunk(entries[c][written[c] + 1]))
    /\ written' = [written EXCEPT ![c] = @ + 1]
    /\ UNCHANGED <<conf, pc, walk, got, clash>>

\* Mutated forms: it is tried again; the file is left out.
TriedAgain(c) == "write"
Swallowed(c) == "close"
\* The with statement closes the archive, which gets its central directory.
AfterReadError(c) == "abort"

\* A link that leads nowhere, and a file that has gone, cannot be opened.
ReadFails(c) ==
    /\ pc[c] = "write" /\ written[c] < Len(entries[c])
    /\ conf.vanish \/ At(entries[c][written[c] + 1]) = "dangling"
    /\ pc' = [pc EXCEPT ![c] = AfterReadError(c)]
    /\ UNCHANGED <<conf, walk, written, file, got, clash>>

EndWrite(c) ==
    /\ pc[c] = "write" /\ written[c] = Len(entries[c])
    /\ pc' = [pc EXCEPT ![c] = "close"]
    /\ UNCHANGED <<conf, walk, written, file, got, clash>>

Close(c) ==
    /\ pc[c] \in {"close", "abort"}
    /\ file' = Put(written[c] + 1, Directory(SubSeq(entries[c], 1, written[c])))
    /\ pc' = [pc EXCEPT ![c] = IF @ = "abort" THEN "failed"
                               ELSE IF conf.kind[c] = "submit" THEN "upload" ELSE "done"]
    /\ UNCHANGED <<conf, walk, written, got, clash>>

\* A prebuilt jar is taken as it is; opening it fails if there is none.
FindJar(c) ==
    LET written_to == \E d \in Commands : Writing(d)
    IN /\ pc[c] = "start"
       /\ pc' = [pc EXCEPT ![c] = IF file = <<>> /\ ~written_to THEN "failed" ELSE "upload"]
       /\ clash' = IF written_to THEN clash \cup {c} ELSE clash
       /\ UNCHANGED <<conf, walk, written, file, got>>

\* _upload_jar reads what is there, to its end.
Upload(c) ==
    /\ pc[c] = "upload"
    /\ IF Len(got[c]) < Len(file)
       THEN got' = [got EXCEPT ![c] = Append(@, file[Len(@) + 1])] /\ UNCHANGED pc
       ELSE pc' = [pc EXCEPT ![c] = "done"] /\ UNCHANGED got
    /\ UNCHANGED <<conf, walk, written, file, clash>>

Step(c) == \/ Visit(c) \/ EndWalk(c) \/ Open(c) \/ Write(c) \/ ReadFails(c)
           \/ EndWrite(c) \/ Close(c) \/ FindJar(c) \/ Upload(c)

Next == \E c \in Commands : Step(c)

\* A command that is running goes on.
Spec == Init /\ [][Next]_vars /\ \A c \in Commands : WF_vars(Step(c))

-----------------------------------------------------------------------------
\* A path along directories that can be listed, of which none is met twice and
\* none excluded.
Walked(system, path) ==
    LET on == Follow(system.tree, path)
    IN /\ \A i \in 0..Len(path) : on[i] \in Dirs \ system.closed
       /\ \A i \in 1..Len(path) : path[i] \notin ExcludedDirs
       /\ IsInjective(on)

\* Every file, under each name it has in such a directory.  (A path on which no
\* directory is met twice has fewer names than there are directories.)
Packaged == UNION {{Append(p, m) : m \in Files(p)} :
                      p \in {q \in BoundedSeq(ToSet(Names), Cardinality(Dirs) - 1) : Walked(conf, q)}}

Builds(c) == conf.kind[c] \in {"jar", "submit"}

\* The walk ends with each file of the tree once under each of its names,
\* excluded ones excepted, whatever links lead where: a loop is not followed,
\* and two links to one directory are both.  (What cannot be listed is left
\* out without a word.)
PacksAll ==
    \A c \in Commands : Builds(c) /\ pc[c] # "walk" =>
        /\ ToSet(entries[c]) = Packaged
        /\ \A i, j \in DOMAIN entries[c] : entries[c][i] = entries[c][j] => i = j

Whole(chunks) ==
    chunks # <<>> /\ LET list == Last(chunks).list
                     IN /\ ToSet(list) = Packaged
                        /\ chunks = [i \in DOMAIN list |-> Chunk(list[i])] \o <<Directory(list)>>

\* What a command has uploaded is a whole archive, unless another one started
\* in its directory was writing to it; and since two builds of one tree write
\* the same bytes to the same places (jar.py:18), what is left is whole even if
\* they overlapped.  A prebuilt jar may also be what a build that failed has
\* left, which looks like an archive of less.
ArchiveWhole ==
    /\ \A c \in Commands \ clash :
          conf.kind[c] \in {"submit", "local"} /\ pc[c] = "done" =>
              \/ Whole(got[c])
              \/ conf.kind[c] = "local" /\ \E d \in Commands : pc[d] = "failed"
    /\ (\A c \in Commands : Builds(c) => pc[c] \in {"upload", "done"}) /\ (\E c \in Commands : Builds(c))
          => Whole(file)

\* Every command ends: no walk goes round in circles.
EveryCommandEnds == \A c \in Commands : <>Ended(c)

=============================================================================
