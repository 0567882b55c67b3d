-------------------------------- MODULE MCJar --------------------------------
(***************************************************************************)
(* An instance of Jar for TLC: every tree of three directories with two    *)
(* names each, up to which of two is called d and an empty first entry of  *)
(* the root, and two commands over a few small ones.                       *)
(***************************************************************************)
EXTENDS Jar, TLC

MCDirs == {"src", "d", "e"}
MCNames == <<"__pycache__", "a", "b", "m.pyc">>
MCExcludedDirs == {"__pycache__"}
MCExcludedFiles == {"m.pyc"}
MCCommands == {"one", "two"}

Dir(pycache, a, b, pyc) == "__pycache__" :> pycache @@ "a" :> a @@ "b" :> b @@ "m.pyc" :> pyc
With(a, b) == Dir("none", a, b, "none")
Tree(src, d, e) == "src" :> src @@ "d" :> d @@ "e" :> e
Nodes == MCDirs \cup {"file", "none"}

OneCommand == "one" :> "jar" @@ "two" :> "idle"
Linked == {[tree |-> Tree(With(f[1], f[2]), With(f[3], f[4]), With(f[5], f[6])),
            closed |-> {}, kind |-> OneCommand, vanish |-> FALSE] :
               f \in {g \in [1..6 -> Nodes] : g[1] \in {"src", "d", "file"} /\ (g[2] = "e" => g[1] = "d")}}

Excluded == {[tree |-> Tree(Dir(x, "d", "e", "none"), Dir("none", "file", "none", y), With("none", "file")),
              closed |-> cl, kind |-> OneCommand, vanish |-> FALSE] :
                x \in {"d", "file"}, y \in {"e", "file"}, cl \in SUBSET {"d", "e"}}

Nothing == With("none", "none")
Plain == Tree(With("file", "file"), Nothing, Nothing)
Broken == Tree(With("file", "dangling"), Nothing, Nothing)
Shared == {[tree |-> t, closed |-> {}, kind |-> k, vanish |-> v] :
              t \in {Plain, Broken}, v \in BOOLEAN,
              k \in {"one" :> x @@ "two" :> y : x, y \in {"jar", "submit", "local"}}}

MCConfigs == UNION {Linked, Excluded, Shared}

=============================================================================
