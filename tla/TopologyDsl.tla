----------------------------- MODULE TopologyDsl -----------------------------
(***************************************************************************)
(* The Python DSL for topologies, as the statements of a developer:        *)
(* calls of spec(), each of which makes a ComponentSpec, and class         *)
(* statements, whose body binds specs to variables and which TopologyType  *)
(* accepts or refuses.                                                     *)
(*                                                                         *)
(* Specs are mutable and outlive the statement: the metaclass gives those  *)
(* without a name that of their variable, and replaces the specs that key  *)
(* their inputs by names, also when it then refuses the class.  Inputs are *)
(* a dict keyed by GlobalStreamIds, which are mutable too: an entry is     *)
(* found by the component id its key had when it was inserted.             *)
(*                                                                         *)
(* Types of arguments, parallelism hints and configurations are left out:  *)
(* a call that is refused for them makes nothing.                          *)
(***************************************************************************)
EXTENDS Naturals, Sequences, SequencesExt, FiniteSets

CONSTANTS Specs,    \* the spec objects there may be (a bound of the model)
          Names,    \* variables, which are component names too
          Streams,  \* names of streams
          Fields,   \* names of fields
          Lists,    \* the list of fields each Stream object of a class is made with
          Classes,  \* the component classes
          Configs   \* what a developer does

None == "None"
Default == "default"

\* An entry of a class's outputs: a Stream, whose fields are in a list of its
\* own, or a string.
Output == [stream : Streams, list : DOMAIN Lists, direct : BOOLEAN] \cup [field : Fields]
Class == [kind : {"bolt", "spout"}, outputs : Seq(Output)]

Shuffle == [kind |-> "shuffle", fields |-> {}]
Direct == [kind |-> "direct", fields |-> {}]
By(fields) == [kind |-> "fields", fields |-> fields]
NotGiven == [kind |-> "not given", fields |-> {}]
Groupings == {Shuffle, Direct} \cup {By(f) : f \in SUBSET Fields}

\* classes: those used.  names: those given or used as an id, None if none is.
\* ways: the ways an input is written down: a spec, one of its streams, or the
\* id of a component; in a dict, with a grouping, or in a list, without.
\* reuses: a dict of inputs may be given to spec() again.
\* maxInputs, maxStatements: bounds of the model.
Way == [form : {"spec", "stream", "id"}, stream : Streams, grouping : Groupings \cup {NotGiven}]
Config == [classes : SUBSET DOMAIN Classes, names : SUBSET (Names \cup {None}),
           ways : SUBSET Way, reuses : BOOLEAN, maxInputs : Nat, maxStatements : Nat]

ASSUME DslAssumption ==
    /\ Specs \cap Names = {} /\ None \notin Specs \cup Names \cup Streams \cup Fields \cup DOMAIN Lists
    /\ Default \in Streams
    /\ \A c \in DOMAIN Classes : Classes[c] \in Class
    /\ Configs \subseteq Config

VARIABLES conf,        \* what the developer does, which does not change
          specs,       \* the specs there are
          lists,       \* the fields in each list of a Stream
          topologies,  \* the topologies accepted: the spec of each component
          statements   \* how many class statements there were

vars == <<conf, specs, lists, topologies, statements>>

\* The StreamInfo of an output: its own list of fields, or that of a Stream.
Info == [fields : Seq(Fields), list : DOMAIN Lists \cup {None}, direct : BOOLEAN]

\* An entry of a dict of inputs.  meant: the spec the developer wrote down, if
\* any.  comp: the componentId.  filed: what that was when the key was
\* inserted.  shared: the key is an object the developer keeps, and uses again.
Ids == Specs \cup Names \cup {None}
Entry == [meant : Specs \cup {None}, comp : Ids, stream : Streams, filed : Ids,
          shared : BOOLEAN, grouping : Groupings]

\* dict: which spec was the first that was given the dict of its inputs.
IsSpec(x) == /\ DOMAIN x = {"kind", "name", "outputs", "inputs", "dict"}
             /\ x.kind \in {"bolt", "spout"} /\ x.name \in Names \cup {None}
             /\ DOMAIN x.outputs \subseteq Streams
             /\ \A i \in DOMAIN x.outputs : x.outputs[i] \in Info
             /\ x.inputs \in Seq(Entry) /\ x.dict \in Specs

TypeOK == /\ conf \in Configs
          /\ DOMAIN specs \subseteq Specs
          /\ \A s \in DOMAIN specs : IsSpec(specs[s])
          /\ lists \in [DOMAIN Lists -> Seq(Fields)]
          /\ \A t \in topologies : DOMAIN t \subseteq Names /\ \A n \in DOMAIN t : t[n] \in DOMAIN specs
          /\ statements \in 0..conf.maxStatements

\* A function with one value more, or another one.
With(f, x, v) == [y \in DOMAIN f \cup {x} |-> IF y = x THEN v ELSE f[y]]

Init == /\ conf \in Configs
        /\ specs = [s \in {} |-> None]
        /\ lists = Lists
        /\ topologies = {}
        /\ statements = 0

-----------------------------------------------------------------------------
(* Calls of spec().                                                        *)

\* Mutated form: one list is the default for every spec.
DeclareDefault(acc, output) ==
    IF "stream" \in DOMAIN output
    THEN [acc EXCEPT !.streams = With(@, output.stream, [fields |-> <<>>, list |-> output.list,
                                                         direct |-> output.direct])]
    ELSE LET l == CHOOSE l \in DOMAIN Lists : TRUE
         IN [streams |-> With(acc.streams, Default, [fields |-> <<>>, list |-> l, direct |-> FALSE]),
             lists |-> [acc.lists EXCEPT ![l] = Append(@, output.field)]]

\* What the entries of a class's outputs leave, one after the other: acc has
\* the streams so far and the lists.  A string goes to the list of the default
\* stream, whoever owns that.
Own(fields) == [fields |-> fields, list |-> None, direct |-> FALSE]
Declare(acc, output) ==
    IF "stream" \in DOMAIN output
    THEN [acc EXCEPT !.streams = With(@, output.stream, [fields |-> <<>>, list |-> output.list,
                                                         direct |-> output.direct])]
    ELSE IF Default \notin DOMAIN acc.streams
    THEN [acc EXCEPT !.streams = With(@, Default, Own(<<output.field>>))]
    ELSE IF acc.streams[Default].list = None
    THEN [acc EXCEPT !.streams[Default].fields = Append(@, output.field)]
    ELSE [acc EXCEPT !.lists[acc.streams[Default].list] = Append(@, output.field)]

Outputs(class) == FoldLeft(Declare, [streams |-> [s \in {} |-> None], lists |-> lists],
                           Classes[class].outputs)

FieldsOf(info) == ToSet(IF info.list = None THEN info.fields ELSE lists[info.list])

\* Before the metaclass assigns names, a key holds the object itself.
IdOf(s) == IF specs[s].name = None THEN s ELSE specs[s].name

\* A GlobalStreamId the developer has kept may hold the spec for longer.
Kept(s, stream) == \E t \in DOMAIN specs : \E e \in ToSet(specs[t].inputs) :
                       e.shared /\ e.meant = s /\ e.stream = stream /\ e.comp = s

\* No grouping is given in a list: it is inferred.
Inferred(s) == LET outputs == specs[s].outputs IN
               IF Default \in DOMAIN outputs /\ outputs[Default].direct THEN Direct ELSE Shuffle

Key(s, id, stream, shared, grouping) ==
    [meant |-> s, comp |-> id, stream |-> stream, filed |-> id,
     shared |-> shared /\ id = s, grouping |-> grouping]

Given(way, otherwise) == IF way.grouping = NotGiven THEN otherwise ELSE way.grouping

\* The inputs that can be written down in one way.  A stream that a spec does
\* not have is refused by spec["stream"], and so in a dict keyed by specs.
Inputs(way) ==
    CASE way.form = "id" ->
           {Key(None, n, way.stream, FALSE, Given(way, Shuffle)) : n \in conf.names \ {None}}
      [] way.form = "spec" ->
           {Key(s, IdOf(s), Default, FALSE, Given(way, Inferred(s))) :
               s \in {t \in DOMAIN specs : way.grouping # NotGiven => Default \in DOMAIN specs[t].outputs}}
      [] way.form = "stream" ->
           {Key(s, IF Kept(s, way.stream) THEN s ELSE IdOf(s), way.stream, TRUE, Given(way, Shuffle)) :
               s \in {t \in DOMAIN specs : way.stream \in DOMAIN specs[t].outputs}}

\* A dict's [key] = value: an equal key is found only where it was filed.
SameKey(e, f) == e.comp = f.comp /\ e.stream = f.stream /\ e.filed = f.filed
Insert(dict, e) ==
    IF \E i \in DOMAIN dict : SameKey(dict[i], e)
    THEN [i \in DOMAIN dict |-> IF SameKey(dict[i], e)
                                THEN [dict[i] EXCEPT !.grouping = e.grouping] ELSE dict[i]]
    ELSE Append(dict, e)

NewSpec == CHOOSE s \in Specs : s \notin DOMAIN specs

MakeSpec(class, name, inputs, dict) ==
    /\ Specs # DOMAIN specs
    /\ specs' = With(specs, NewSpec, [kind |-> Classes[class].kind, name |-> name,
                                      outputs |-> Outputs(class).streams,
                                      inputs |-> inputs, dict |-> dict])
    /\ lists' = Outputs(class).lists
    /\ UNCHANGED <<conf, topologies, statements>>

\* In a dict, a key that is a spec is replaced by one for its default stream, at
\* the end.
Replaced(way) == way.form = "spec" /\ way.grouping # NotGiven
InputDicts ==
    LET stay == UNION {Inputs(w) : w \in {v \in conf.ways : ~Replaced(v)}}
        move == UNION {Inputs(w) : w \in {v \in conf.ways : Replaced(v)}}
    IN  {FoldLeft(Insert, <<>>, one \o other) :
            <<one, other>> \in {p \in BoundedSeq(stay, conf.maxInputs) \X BoundedSeq(move, conf.maxInputs) :
                                   Len(p[1]) + Len(p[2]) <= conf.maxInputs}}

MakeBolt == \E class \in conf.classes, name \in conf.names :
                /\ Classes[class].kind = "bolt"
                /\ \E inputs \in InputDicts : MakeSpec(class, name, inputs, NewSpec)

MakeSpout == \E class \in conf.classes, name \in conf.names :
                 Classes[class].kind = "spout" /\ MakeSpec(class, name, <<>>, NewSpec)

\* The dict is the one that spec s has: its keys have been replaced by then.
MakeBoltAlike ==
    \E class \in conf.classes, name \in conf.names, s \in DOMAIN specs :
        /\ conf.reuses
        /\ Classes[class].kind = "bolt" /\ specs[s].kind = "bolt"
        /\ MakeSpec(class, name, specs[s].inputs, specs[s].dict)

-----------------------------------------------------------------------------
(* A class statement.  w is what it has changed so far: the specs, the     *)
(* components found, in order, and whether it is still accepted.           *)

\* class_dict_to_specs.
Enter(w, item) ==
    IF ~w.ok THEN w
    ELSE LET name == IF w.specs[item.spec].name = None THEN item.var ELSE w.specs[item.spec].name
         IN [specs |-> [w.specs EXCEPT ![item.spec].name = name],
             comps |-> With(w.comps, name, item.spec),
             order |-> Append(w.order, item.spec),
             ok |-> name \notin DOMAIN w.comps]

Reinsert(dict, e, name) ==
    Insert(SelectSeq(dict, LAMBDA d : ~SameKey(d, e)), [e EXCEPT !.comp = name, !.filed = name])

\* The entry e of spec s gets the name in place of the spec it meant.  Another
\* spec may have the very dict.  Where other dicts hold the same key object it
\* changes under them.
Rename(all, s, e, name) ==
    [t \in DOMAIN all |->
        IF all[t].dict = all[s].dict THEN [all[t] EXCEPT !.inputs = Reinsert(@, e, name)]
        ELSE [all[t] EXCEPT !.inputs =
                 [i \in DOMAIN @ |-> IF e.shared /\ @[i].shared /\ SameKey(@[i], e)
                                     THEN [@[i] EXCEPT !.comp = name] ELSE @[i]]]]

\* Does an entry name a component, a stream of it, and fields of that?
LeadsTo(comps, all, id, stream, grouping) ==
    /\ id \in DOMAIN comps
    /\ stream \in DOMAIN all[comps[id]].outputs
    /\ grouping.fields \subseteq FieldsOf(all[comps[id]].outputs[stream])

\* Mutated form: a key that has its name already is not looked at again.
CleanOnce(w, s, e) ==
    IF ~w.ok \/ e.comp \notin Specs THEN w
    ELSE LET name == w.specs[e.comp].name
             all == Rename(w.specs, s, e, name)
         IN [w EXCEPT !.specs = all, !.ok = LeadsTo(w.comps, all, name, e.stream, e.grouping)]

\* clean_spec_inputs, for one input e of s as it was before the loop; it is
\* looked at as it is by now.
CleanInput(w, s, e) ==
    IF ~w.ok THEN w
    ELSE LET name == IF e.comp \in Specs THEN w.specs[e.comp].name ELSE e.comp
             all == IF e.comp \in Specs THEN Rename(w.specs, s, e, name) ELSE w.specs
         IN [w EXCEPT !.specs = all, !.ok = LeadsTo(w.comps, all, name, e.stream, e.grouping)]

\* add_bolt_spec or add_spout_spec, and clean_spec_inputs.
AddSpec(w, s) ==
    IF ~w.ok \/ (IF w.specs[s].kind = "bolt" THEN w.specs[s].inputs = <<>>
                 ELSE DOMAIN w.specs[s].outputs = {})
    THEN [w EXCEPT !.ok = FALSE]
    ELSE FoldLeft(LAMBDA x, e : CleanInput(x, s, e), w, w.specs[s].inputs)

HasSpout(w) == \E n \in DOMAIN w.comps : w.specs[w.comps[n]].kind = "spout"

Start == [specs |-> specs, comps |-> [n \in {} |-> None], order |-> <<>>, ok |-> TRUE]

\* Mutated form: specs get their names as they come.
OnePass(body) ==
    LET added == FoldLeft(LAMBDA w, item : IF Enter(w, item).ok THEN AddSpec(Enter(w, item), item.spec)
                                           ELSE Enter(w, item), Start, body)
    IN [added EXCEPT !.ok = @ /\ HasSpout(added)]

\* TopologyType.__new__
Built(body) ==
    LET entered == FoldLeft(Enter, Start, body)
        added == FoldLeft(AddSpec, entered, entered.order)
    IN [added EXCEPT !.ok = @ /\ HasSpout(added)]

\* The body of a class, in order: each variable once, bound to a spec.
Bodies == UNION {{[i \in DOMAIN vs |-> [var |-> vs[i], spec |-> bound[i]]] :
                     bound \in [DOMAIN vs -> DOMAIN specs]} : vs \in SetToAllKPermutations(Names)}

ClassStatement(body) ==
    LET w == Built(body)
    IN /\ statements < conf.maxStatements
       /\ statements' = statements + 1
       /\ specs' = w.specs
       /\ topologies' = IF w.ok THEN topologies \cup {w.comps} ELSE topologies
       /\ UNCHANGED <<conf, lists>>

Next == \/ MakeBolt \/ MakeBoltAlike \/ MakeSpout
        \/ \E body \in Bodies : ClassStatement(body)

Spec == Init /\ [][Next]_vars

-----------------------------------------------------------------------------
InputsOf(all, s) == ToSet(all[s].inputs)

\* Every input of every topology leads to a component of it, to a stream that
\* declares, and to fields of the stream; and one that was written down as a
\* spec to that spec, and not to a namesake, if the topology has it.  They do as
\* long as the process lives, though specs take part in later statements,
\* accepted or not.
Wired == \A t \in topologies : \A n \in DOMAIN t : \A e \in InputsOf(specs, t[n]) :
             /\ e.comp \in DOMAIN t
             /\ e.stream \in DOMAIN specs[t[e.comp]].outputs
             /\ e.grouping.fields \subseteq FieldsOf(specs[t[e.comp]].outputs[e.stream])
             /\ (\E m \in DOMAIN t : t[m] = e.meant) => t[e.comp] = e.meant

\* What a topology is, given the specs: where inputs lead, and which fields
\* each stream has.
View(all, comps) ==
    [n \in DOMAIN comps |->
        [inputs |-> {<<e.comp, e.stream, e.grouping>> : e \in InputsOf(all, comps[n])},
         outputs |-> [s \in DOMAIN all[comps[n]].outputs |->
                         LET info == all[comps[n]].outputs[s]
                         IN IF info.list = None THEN info.fields ELSE lists[info.list]]]]

\* A class whose outputs hold both a Stream named default and a string.
Mixes(class) == \E o \in ToSet(Classes[class].outputs) :
                    /\ "stream" \in DOMAIN o /\ o.stream = Default
                    /\ \E p \in ToSet(Classes[class].outputs) : "stream" \notin DOMAIN p

\* A topology that has been accepted stays what it is, whatever specs are made
\* and classes stated after it, if no class mixes Streams and strings.
TopologiesStay ==
    [][(\A c \in conf.classes : ~Mixes(c))
           => \A t \in topologies : View(specs, t)' = View(specs, t)]_vars

\* One stream written down twice for one bolt: by id, and by a kept key.
WrittenTwice(s) == \E e, f \in InputsOf(specs, s) : e.shared /\ f.meant = None /\ e.stream = f.stream

\* The orders a body is compared with: every other order is reached by some of
\* these steps, since the bodies they lead to are compared, too.
Reordered(body) == {Reverse(body), Append(Tail(body), Head(body))}

\* Neither whether a class is accepted nor what it is depends on the order of
\* the statements in its body.  (Where one is written twice, it depends on the
\* order whether the two become one entry.)
OrderIrrelevant ==
    statements < conf.maxStatements =>
        \A body \in {b \in Bodies : b # <<>> /\ \A i \in DOMAIN b : ~WrittenTwice(b[i].spec)} :
            LET one == Built(body)
            IN \A order \in Reordered(body) :
                   LET other == Built(order)
                   IN /\ one.ok = other.ok
                      /\ one.ok => View(one.specs, one.comps) = View(other.specs, other.comps)

=============================================================================
