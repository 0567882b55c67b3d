---------------------------- MODULE MCTopologyDsl ----------------------------
(***************************************************************************)
(* An instance of TopologyDsl for TLC.                                     *)
(***************************************************************************)
EXTENDS TopologyDsl

MCSpecs == {"s1", "s2", "s3"}
MCNames == {"a", "b", "c"}
MCStreams == {"default", "all"}
MCFields == {"word", "n"}
MCLists == [own |-> <<>>, wide |-> <<"word">>]

F(field) == [field |-> field]
S(stream, list, direct) == [stream |-> stream, list |-> list, direct |-> direct]
MCClasses == [Words |-> [kind |-> "spout", outputs |-> <<F("word")>>],
              Mute  |-> [kind |-> "spout", outputs |-> <<>>],
              Count |-> [kind |-> "bolt", outputs |-> <<F("n")>>],
              Sends |-> [kind |-> "spout", outputs |-> <<S("default", "own", TRUE), S("all", "wide", FALSE)>>],
              Mixed |-> [kind |-> "spout", outputs |-> <<S("default", "wide", FALSE), F("n")>>]]

Way1(form, stream, grouping) == [form |-> form, stream |-> stream, grouping |-> grouping]
InList == {Way1("spec", "default", NotGiven), Way1("stream", "default", NotGiven)}
InDict == {Way1("spec", "default", By({"word"})), Way1("stream", "all", By({"word"}))}
ById == {Way1("stream", "all", NotGiven), Way1("id", "all", Direct)}

Once == [classes |-> {"Words", "Count"}, names |-> {None, "b"}, ways |-> InList,
         reuses |-> FALSE, maxInputs |-> 2, maxStatements |-> 1]
Keyed == [Once EXCEPT !.classes = {"Sends", "Words", "Count"}, !.ways = InDict, !.names = {None},
                       !.reuses = TRUE]
Named == [Keyed EXCEPT !.classes = {"Sends", "Count"}, !.ways = ById, !.names = {None, "a"}]
Twice == [Once EXCEPT !.names = {None}, !.maxInputs = 1, !.maxStatements = 2]
Silent == [Once EXCEPT !.classes = {"Mute", "Mixed", "Count"}, !.maxInputs = 1]
MCConfigs == {Once, Keyed, Named, Twice, Silent}

=============================================================================
