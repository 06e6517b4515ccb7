-------------------------------- MODULE Codec --------------------------------
(***************************************************************************)
(* A recorded value on its way through the ledger (botpipe/codec.py): the   *)
(* process that made it encodes it as JSON with a contract for each class,  *)
(* the journal writes it, the classes may be edited, and a later process    *)
(* verifies the contracts and decodes it, without running the constructors  *)
(* and validators of the program.                                           *)
(*                                                                         *)
(* Keys, field names and member names are numbers in the order of their     *)
(* texts; NotText is a key that is no string.  The raw value of an enum     *)
(* member is the set of its bits, its name the sequence of the names that   *)
(* it is made of (none for a member without a name).                        *)
(***************************************************************************)
EXTENDS Naturals, Sequences, SequencesExt, FiniteSetsExt, TLC

CONSTANTS MaxDepth, MaxValues,     \* _MAX_DEPTH and _MAX_VALUES
          MaxEdit                  \* bound: edits of a class

VARIABLES pc, m
vars == <<pc, m>>

(* m: the value; the classes as they were when it was recorded and as they are  *)
(* now; the recorded line; what is read from it; the member of flag F that the  *)
(* reading process holds under the value's bits, and what it was before.        *)

NotText == 0
Rest    == 9                       \* the number of a flag's bits that have no name

(* ---- classes, as a process finds them ----------------------------------------- *)
(* barred: with a serializer, private, secret or excluded state of its own;     *)
(* hooked: an enum that overrides what the library does for it.                 *)
Class == [kind |-> "type", ann |-> <<>>, open |-> FALSE, members |-> <<>>, flag |-> FALSE,
          boundary |-> "strict", hooked |-> FALSE, barred |-> FALSE]
Gone  == [Class EXCEPT !.kind = "gone"]
Typed(t)  == [type |-> t, meta |-> "plain"]
Model == [Class EXCEPT !.kind = "model", !.open = TRUE, !.ann = (1 :> Typed("int") @@ 2 :> Typed("int"))]
Data  == [Class EXCEPT !.kind = "dataclass", !.ann = (1 :> Typed("int"))]
Enum  == [Class EXCEPT !.kind = "enum", !.members = (1 :> {1} @@ 2 :> {2})]
Flag  == [Enum EXCEPT !.flag = TRUE]
Names == {"M", "D", "E", "F", "T"}
Classes == "M" :> Model @@ "D" :> Data @@ "E" :> Enum @@ "F" :> Flag @@ "T" :> Class

Made ==                            \* what the recording process may find
    {Classes, [Classes EXCEPT !["M"].open = FALSE], [Classes EXCEPT !["M"].barred = TRUE]}
      \cup {[Classes EXCEPT !["F"].boundary = b, !["F"].hooked = h] :
              b \in {"strict", "conform", "keep"}, h \in BOOLEAN}
Edits(d) ==                        \* and what an edit may leave of a class
    {Gone, [d EXCEPT !.barred = TRUE]} \cup
    CASE d.kind = "model"     -> {[d EXCEPT !.ann[1].meta = "positive"], [d EXCEPT !.ann[1].type = "text"],
                                  [d EXCEPT !.ann = (1 :> Typed("int"))], [d EXCEPT !.open = ~@]}
      [] d.kind = "dataclass" -> {[d EXCEPT !.ann = (2 :> Typed("int"))], [d EXCEPT !.kind = "model"]}
      [] d.kind = "enum"      -> {[d EXCEPT !.members = (1 :> {2} @@ 2 :> {1})], [d EXCEPT !.boundary = "keep"],
                                  [d EXCEPT !.members = (1 :> {1})], [d EXCEPT !.flag = ~@]}
      [] OTHER                -> {}

(* Faulty: a contract that names the fields without their types.               *)
ContractOfNames(c, d) ==
    [type |-> c, kind |-> d.kind, fields |-> DOMAIN d.ann,
     extra |-> d.open, flag |-> d.flag, members |-> d.members]
(* What of a class a value depends on: metadata, validators, defaults and the   *)
(* conduct of an enum are no part of it.                                        *)
Contract(c, d) ==
    [type |-> c, kind |-> d.kind, fields |-> [f \in DOMAIN d.ann |-> d.ann[f].type],
     extra |-> d.open, flag |-> d.flag, members |-> d.members]
Resolves(c, table) == table[c].kind # "gone"
Durable(c, table)  == Resolves(c, table) /\ ~table[c].barred

(* ---- values ------------------------------------------------------------------- *)
Atom(k)       == [kind |-> k]
Seqs(k, s)    == [kind |-> k, items |-> s]                     \* list, tuple
Sets(k, S)    == [kind |-> k, elems |-> S]                     \* set, frozenset
Maps(k, p)    == [kind |-> k, pairs |-> p]                     \* dict, mappingproxy, artifacts
DateTime(z)   == [kind |-> "datetime", zone |-> z]
TypeOf(c)     == [kind |-> "class", cls |-> c]
DataOf(p)     == [kind |-> "dataclass", cls |-> "D", fields |-> p]
ModelOf(p, g, x) == [kind |-> "model", cls |-> "M", fields |-> p, given |-> g, extra |-> x]
Member(c, n, r)  == [kind |-> "enum", cls |-> c, name |-> n, raw |-> r, native |-> TRUE]

Seconds(p)  == [i \in DOMAIN p |-> p[i][2]]
Firsts(p)   == {p[i][1] : i \in DOMAIN p}
Children(v) ==
    CASE v.kind \in {"list", "tuple"}                     -> v.items
      [] v.kind \in {"set", "frozenset"}                  -> SetToSeq(v.elems)
      [] v.kind \in {"dict", "mappingproxy", "artifacts"} -> Seconds(v.pairs)
      [] v.kind = "dataclass"                             -> Seconds(v.fields)
      [] v.kind = "model"                                 -> Seconds(v.fields) \o Seconds(v.extra)
      [] OTHER                                            -> <<>>
RECURSIVE Inside(_)                \* a value and all that it is made of
Inside(v) == {v} \cup UNION {Inside(w) : w \in ToSet(Children(v))}
ClassesOf(v) == {w.cls : w \in {u \in Inside(v) : "cls" \in DOMAIN u}}

(* ---- _encode ------------------------------------------------------------------- *)
(* A handle is a record of six plain fields, an enum member has its raw value:  *)
(* they are visited too.                                                        *)
Own(v)  == CASE v.kind = "artifact" -> [size |-> 8, height |-> 2]
             [] v.kind = "enum"     -> [size |-> 2, height |-> 1]
             [] OTHER               -> [size |-> 1, height |-> 0]
RECURSIVE Size(_), Height(_)
Size(v)   == FoldSeq(LAMBDA w, n : n + Size(w), Own(v).size, Children(v))
Height(v) == FoldSeq(LAMBDA w, n : IF n > 1 + Height(w) THEN n ELSE 1 + Height(w), Own(v).height, Children(v))
Fits(v)   == Size(v) <= MaxValues /\ Height(v) <= MaxDepth

Declared(v, d) == Len(v.name) = 1 /\ v.name[1] \in DOMAIN d.members /\ d.members[v.name[1]] = v.raw
Accepted(v, table) ==
    CASE v.kind \in {"secret", "nan", "object"} -> FALSE
      [] v.kind = "datetime" -> v.zone # "region"
      [] v.kind = "enum"     -> /\ Durable(v.cls, table)
                                /\ \/ Declared(v, table[v.cls])
                                   \/ table[v.cls].flag /\ v.native
      [] v.kind = "class"    -> Durable(v.cls, table)
      [] v.kind \in {"dict", "mappingproxy", "artifacts"} -> NotText \notin Firsts(v.pairs)
      [] v.kind = "dataclass" -> Durable(v.cls, table) /\ Firsts(v.fields) = DOMAIN table[v.cls].ann
      [] v.kind = "model"     -> /\ Durable(v.cls, table)
                                 /\ Firsts(v.fields) = DOMAIN table[v.cls].ann
                                 /\ NotText \notin Firsts(v.extra)
                                 /\ v.given \subseteq Firsts(v.fields) \cup Firsts(v.extra)
      [] OTHER -> TRUE

Tagged(t, s)  == [tag |-> t, items |-> s]
Object(t, p)  == [tag |-> t, pairs |-> p]
Bare(v)       == [scalar |-> v.kind]
Array(s)      == [array |-> s]
RECURSIVE Encode(_, _)
Encode(v, table) ==
    LET Each(s) == [i \in DOMAIN s |-> Encode(s[i], table)]
        Body(p) == [i \in DOMAIN p |-> <<p[i][1], Encode(p[i][2], table)>>]
        Of(c)   == Contract(c, table[c])
    IN
    CASE v.kind \in {"none", "int", "text", "surrogate"} -> Bare(v)
      [] v.kind \in {"path", "date", "bytes", "artifact"} -> [tag |-> v.kind, text |-> v.kind]
      [] v.kind = "datetime" -> [tag |-> "datetime", zone |-> v.zone]
      [] v.kind = "list"     -> Array(Each(v.items))
      [] v.kind = "tuple"    -> Tagged("tuple", Each(v.items))
      [] v.kind \in {"set", "frozenset"} -> Tagged(v.kind, SetToSeq({Encode(w, table) : w \in v.elems}))
      [] v.kind \in {"dict", "mappingproxy", "artifacts"} -> Object(v.kind, Body(v.pairs))
      [] v.kind = "class"    -> [tag |-> "type", type |-> v.cls, contract |-> Of(v.cls)]
      [] v.kind = "enum"     -> [tag |-> "enum", type |-> v.cls, contract |-> Of(v.cls),
                                 member |-> v.name, value |-> v.raw]
      [] v.kind = "dataclass" -> [tag |-> "dataclass", type |-> v.cls, contract |-> Of(v.cls),
                                  fields |-> Body(v.fields)]
      [] v.kind = "model"     -> [tag |-> "model", type |-> v.cls, contract |-> Of(v.cls),
                                  fields |-> Body(v.fields), given |-> v.given,
                                  open |-> table[v.cls].open, extra |-> Body(v.extra)]

(* ---- the ledger: the keys of every object are written in order ------------------ *)
Writable(v) == \A w \in Inside(v) : w.kind # "surrogate"     \* the line is UTF-8
Sorted(p)   == SortSeq(p, LAMBDA a, b : a[1] < b[1])
RECURSIVE Line(_)
Line(j) ==
    LET Each(s) == [i \in DOMAIN s |-> Line(s[i])]
        Body(p) == LET q == Sorted(p) IN [i \in DOMAIN q |-> <<q[i][1], Line(q[i][2])>>]
        has(f)  == f \in DOMAIN j
    IN
    CASE has("array")  -> [j EXCEPT !.array = Each(@)]
      [] has("items")  -> [j EXCEPT !.items = Each(@)]
      [] has("pairs")  -> [j EXCEPT !.pairs = Body(@)]
      [] has("extra")  -> [j EXCEPT !.fields = Body(@), !.extra = Body(@)]
      [] has("fields") -> [j EXCEPT !.fields = Body(@)]
      [] OTHER         -> j

(* ---- verify_contracts ------------------------------------------------------------- *)
Parts(j) ==
    LET has(f) == f \in DOMAIN j IN
    CASE has("array")  -> j.array
      [] has("items")  -> j.items
      [] has("pairs")  -> Seconds(j.pairs)
      [] has("extra")  -> Seconds(j.fields) \o Seconds(j.extra)
      [] has("fields") -> Seconds(j.fields)
      [] OTHER         -> <<>>
Load(j) == CASE "text" \in DOMAIN j /\ j.tag = "artifact" -> [size |-> 8, height |-> 2]
             [] "value" \in DOMAIN j                      -> [size |-> 2, height |-> 1]
             [] OTHER                                     -> [size |-> 1, height |-> 0]
RECURSIVE Weight(_), Depth(_), Records(_)
Weight(j)  == FoldSeq(LAMBDA k, n : n + Weight(k), Load(j).size, Parts(j))
Depth(j)   == FoldSeq(LAMBDA k, n : IF n > 1 + Depth(k) THEN n ELSE 1 + Depth(k), Load(j).height, Parts(j))
Records(j) == {j} \cup UNION {Records(k) : k \in ToSet(Parts(j))}

SameContract(j, table) == Durable(j.type, table) /\ j.contract = Contract(j.type, table[j.type])
StateAgrees(j, d) ==               \* of a model or a dataclass
    /\ d.kind = j.tag
    /\ Firsts(j.fields) = DOMAIN d.ann
    /\ j.tag = "model" =>
         /\ j.open => d.open /\ Firsts(j.extra) \cap DOMAIN d.ann = {}
         /\ j.given \subseteq DOMAIN d.ann \cup Firsts(j.extra)
MemberAgrees(j, d) ==
    /\ d.kind = "enum"
    /\ IF Len(j.member) = 1 /\ j.member[1] \in DOMAIN d.members
       THEN j.value = d.members[j.member[1]] ELSE d.flag
Verified(j, table) ==
    /\ Weight(j) <= MaxValues /\ Depth(j) <= MaxDepth
    /\ \A k \in Records(j) : "type" \in DOMAIN k =>
         /\ SameContract(k, table)
         /\ "fields" \in DOMAIN k => StateAgrees(k, table[k.type])
         /\ "member" \in DOMAIN k => MemberAgrees(k, table[k.type])

(* ---- _decode ------------------------------------------------------------------------ *)
(* A member of a flag that no name declares is made anew, or taken from the     *)
(* class's table of such members, where the program may have put one of its own. *)
NoMember == [name |-> <<>>, raw |-> {}, native |-> FALSE]
Odd      == <<8>>                  \* a name that the program made up
(* What the library itself would make of these bits; NoMember if it would      *)
(* refuse them, or if the class overrides it.                                   *)
StandardMember(d, raw) ==
    LET mask  == UNION Range(d.members)
        value == IF d.boundary = "conform" THEN raw \cap mask ELSE raw
        names == {n \in DOMAIN d.members : d.members[n] # {} /\ d.members[n] \subseteq value}
    IN  IF d.hooked \/ (value \ mask # {} /\ d.boundary # "keep") THEN NoMember
        ELSE [name |-> IF names = {} THEN <<>>
                       ELSE SetToSortSeq(names, <) \o (IF value \ mask = {} THEN <<>> ELSE <<Rest>>),
              raw |-> value, native |-> TRUE]
(* Faulty: whatever the table has under these bits.                             *)
SameBits(cached, made)   == cached.raw = made.raw
Compatible(cached, made) == cached = made
FlagMember(j, d, cached) ==
    LET made == [name |-> j.member, raw |-> j.value, native |-> TRUE] IN
    IF Compatible(cached, made) THEN cached ELSE made
Shared(j, d, cached) ==            \* what is in the class's table afterwards
    LET made == [name |-> j.member, raw |-> j.value, native |-> TRUE] IN
    IF cached = NoMember /\ StandardMember(d, j.value) = made THEN made ELSE cached
Undeclared(j, d) == ~(Len(j.member) = 1 /\ j.member[1] \in DOMAIN d.members)

RECURSIVE Decode(_, _, _)
Decode(j, table, cached) ==
    LET Each(s) == [i \in DOMAIN s |-> Decode(s[i], table, cached)]
        Body(p) == [i \in DOMAIN p |-> <<p[i][1], Decode(p[i][2], table, cached)>>]
        is(t)   == "tag" \in DOMAIN j /\ j.tag \in t
    IN
    CASE "scalar" \in DOMAIN j -> Atom(j.scalar)
      [] "array" \in DOMAIN j  -> Seqs("list", Each(j.array))
      [] is({"path", "date", "bytes", "artifact"}) -> Atom(j.tag)
      [] is({"datetime"})          -> DateTime(j.zone)
      [] is({"tuple"})             -> Seqs("tuple", Each(j.items))
      [] is({"set", "frozenset"})  -> Sets(j.tag, ToSet(Each(j.items)))
      [] is({"dict", "mappingproxy", "artifacts"}) -> Maps(j.tag, Body(j.pairs))
      [] is({"type"})              -> TypeOf(j.type)
      [] is({"enum"})              ->
           IF Undeclared(j, table[j.type])
           THEN FlagMember(j, table[j.type], cached) @@ Member(j.type, <<>>, {})
           ELSE Member(j.type, j.member, table[j.type].members[j.member[1]])
      [] is({"dataclass"})         -> DataOf(Body(j.fields))
      [] is({"model"})             -> ModelOf(Body(j.fields), j.given, Body(j.extra))

(* ---- the values that are tried ------------------------------------------------------- *)
One == Atom("int")
Secret == Atom("secret")
Bits  == SUBSET {1, 2, 4}
Flags == {Member("F", n, r) : n \in {<<>>, <<1>>, <<1, 2>>, <<1, Rest>>, Odd}, r \in Bits}
Leaves == {Atom(k) : k \in {"none", "int", "text", "surrogate", "path", "date", "bytes", "artifact",
                            "secret", "nan", "object"}}
            \cup {DateTime(z) : z \in {"naive", "fixed", "region"}}
            \cup {TypeOf(c) : c \in Names}
            \cup {Member("E", <<1>>, {1}), Member("E", <<2>>, {2}), Member("E", <<>>, {1, 2})}
Few    == {One, Secret, Atom("artifact"), Member("E", <<1>>, {1})}
Pairs(S) == {<<>>} \cup {<<<<k, v>>>> : k \in {NotText, 1}, v \in S}
              \cup {<<<<2, One>>, <<1, v>>>> : v \in S}
Data1(S)  == {DataOf(<<<<1, v>>>>) : v \in S} \cup {DataOf(<<>>), DataOf(<<<<1, One>>, <<7, One>>>>)}
Model1(S) == {ModelOf(<<<<1, v>>, <<2, One>>>>, g, x) : v \in S, g \in {{}, {1, 2}, {1, 3}},
                 x \in {<<>>, <<<<1, One>>>>} \cup {<<<<3, w>>>> : w \in S}}
Around(S) ==
    {Seqs(k, s) : k \in {"list", "tuple"}, s \in {<<>>} \cup {<<v>> : v \in S} \cup {<<One, v>> : v \in S}}
      \cup {Maps(k, p) : k \in {"dict", "mappingproxy", "artifacts"}, p \in Pairs(S)}
      \cup Data1(S) \cup Model1(S)
Once  == Around(Few) \cup {Sets(k, S) : k \in {"set", "frozenset"}, S \in SUBSET Few}
Deeper(v) == {Seqs("list", <<v>>), Maps("dict", <<<<1, v>>>>), DataOf(<<<<1, v>>>>)}
Twice == UNION {Deeper(w) : w \in {u \in Once : Size(u) <= 3}}
Thrice == UNION {Deeper(w) : w \in {u \in Twice : Size(u) <= 3}}
Chains == UNION {Deeper(w) : w \in {u \in Thrice : Size(u) <= 4}}
Values == Leaves \cup Flags \cup Once \cup Twice \cup Thrice \cup Chains

(* ---- the way of a value ---------------------------------------------------------------- *)
Nothing == [scalar |-> "none"]
(* A closed model has no extra state; only a flag that the program has changed *)
(* has other members than the library makes.                                   *)
Possible(v, table) ==
    CASE v.kind = "model" -> v.extra # <<>> => table[v.cls].open
      [] v.kind = "enum"  -> table[v.cls].flag =>
           \/ table[v.cls].hooked \/ Declared(v, table[v.cls])
           \/ v = StandardMember(table[v.cls], v.raw) @@ v
      [] OTHER -> TRUE
Init ==
    /\ pc = "made"
    /\ \E v \in Values, t \in Made :
         /\ \A w \in Inside(v) : Possible(w, t)
         /\ t # Classes => \E c \in ClassesOf(v) : t[c] # Classes[c]
         /\ m = [value |-> v, then |-> t, now |-> t, line |-> Nothing, out |-> Atom("none"),
                 cached |-> NoMember, before |-> NoMember, edits |-> 0]
Write ==
    /\ pc = "made"
    /\ LET v == m.value
           ok == Fits(v) /\ (\A w \in Inside(v) : Accepted(w, m.then)) /\ Writable(v)
       IN  /\ pc' = IF ok THEN "recorded" ELSE "refused"
           /\ m' = IF ok THEN [m EXCEPT !.line = Line(Encode(v, m.then))] ELSE m
Edit ==
    /\ pc = "recorded" /\ m.edits < MaxEdit
    /\ \E c \in ClassesOf(m.value) : \E d \in Edits(m.now[c]) :
         m' = [m EXCEPT !.now[c] = d, !.edits = @ + 1]
    /\ UNCHANGED pc
TypeName(v) == IF "cls" \in DOMAIN v THEN v.cls ELSE "none"
(* The program that reads may have made such a member of the flag before.      *)
Cache ==
    /\ pc = "recorded" /\ m.cached = NoMember
    /\ m.value.kind = "enum" /\ TypeName(m.value) = "F" /\ m.now["F"].flag
    /\ \E n \in {m.value.name, Odd}, native \in BOOLEAN :
         m' = [m EXCEPT !.cached = [name |-> n, raw |-> m.value.raw, native |-> native],
                        !.before = [name |-> n, raw |-> m.value.raw, native |-> native]]
    /\ UNCHANGED pc
Read ==
    /\ pc = "recorded"
    /\ IF ~Verified(m.line, m.now) THEN pc' = "rejected" /\ UNCHANGED m
       ELSE /\ pc' = "decoded"
            /\ m' = [m EXCEPT !.out = Decode(m.line, m.now, m.cached),
                              !.cached = IF "member" \in DOMAIN m.line
                                         THEN IF Undeclared(m.line, m.now[m.line.type])
                                              THEN Shared(m.line, m.now[m.line.type], @) ELSE @ ELSE @]
Step == Write \/ Read
Next == Step \/ Edit \/ Cache
Rests == pc \in {"refused", "rejected", "decoded"}

(* ---- what a replay may rely on ---------------------------------------------------------- *)
RECURSIVE Plainly(_)               \* a value without the order of its keys
Plainly(v) ==
    LET Body(p) == {<<p[i][1], Plainly(p[i][2])>> : i \in DOMAIN p}
        has(f)  == f \in DOMAIN v
    IN
    CASE has("items")  -> [v EXCEPT !.items = [i \in DOMAIN @ |-> Plainly(@[i])]]
      [] has("elems")  -> [v EXCEPT !.elems = {Plainly(w) : w \in @}]
      [] has("pairs")  -> [v EXCEPT !.pairs = Body(@)]
      [] has("extra")  -> [v EXCEPT !.fields = Body(@), !.extra = Body(@)]
      [] has("fields") -> [v EXCEPT !.fields = Body(@)]
      [] OTHER         -> v
Shape(d)   == [d EXCEPT !.ann = [f \in DOMAIN @ |-> @[f].type], !.boundary = "any", !.hooked = FALSE]
Changed(c) == Shape(m.now[c]) # Shape(m.then[c])
(* What encode lets through and no decode takes back: an extra field that has   *)
(* the name of a declared one (declared under an alias), and a made-up flag     *)
(* member that has the name of another, declared one.                           *)
Ambiguous(w) ==
    \/ w.kind = "model" /\ Firsts(w.extra) \cap Firsts(w.fields) # {}
    \/ w.kind = "enum" /\ ~Declared(w, m.then[w.cls]) /\ ~Undeclared([member |-> w.name], m.then[w.cls])

(* A value that was recorded is read back as it was (codec.py decode), up to   *)
(* the order of keys and however large or deep it may be; it is refused when,  *)
(* and only when, a class that it is made of has other fields, members or      *)
(* durable state by now: no value is read as something that it was not.  A     *)
(* mapping whose keys are not text is never recorded (_string_mapping), though  *)
(* docs/architecture.md:57 has its keys preserved.                             *)
ReadAsRecorded ==
    /\ pc = "decoded"  => /\ Plainly(m.out) = Plainly(m.value)
                          /\ \A c \in ClassesOf(m.value) : ~Changed(c)
    /\ pc = "rejected" => \/ \E c \in ClassesOf(m.value) : Changed(c)
                          \/ \E w \in Inside(m.value) : Ambiguous(w)
(* Decoding leaves no member in a flag's table that the flag would not have    *)
(* made by itself (codec.py, the end of _decode).                              *)
TableIsItsOwn == m.cached # m.before => m.cached = StandardMember(m.now["F"], m.cached.raw)
================================================================================
