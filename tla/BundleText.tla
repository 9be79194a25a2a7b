----------------------------- MODULE BundleText -----------------------------
(***************************************************************************)
(* Texts handed to exportbundle's reader, and what the format says of them:  *)
(* the reason a bundle is unreadable for is the lowest-numbered one that     *)
(* applies (exportbundle/reader.go, readBundle), whatever else is wrong with *)
(* it and wherever in the text that stands.                                 *)
(***************************************************************************)
EXTENDS BundleReader, FiniteSets, FiniteSetsExt

VARIABLES
    text,     \* the tokens of a bundle or a checkpoint, or none yet
    limits,
    rd,       \* the reader
    at        \* tokens read

textVars == <<text, limits, rd, at>>

TextInit == text = <<>> /\ limits = [depth |-> 0] /\ rd = NewReader("bundle") /\ at = 0

-----------------------------------------------------------------------------
(* Texts: a good one, perhaps already with something wrong, and one change *)

Entry1 == <<Obj, Name("entry_id"), Str("e"), Name("chain_hash"), Str("h"), Name("record_signature"), Obj, Name("key_id"), Str("k"),
            Name("signature"), Str("long"), EndObj, EndObj>>
ChainOf(entries, texts) ==
    <<Obj, Name("chain_id"), Str("c"), Name("entries"), Arr>> \o entries \o <<EndArr, Name("checkpoints"), Arr>> \o texts
    \o <<EndArr, EndObj>>
BundleOf(head, chains) == <<Obj>> \o head \o <<Name("chains"), Arr>> \o chains \o <<EndArr, EndObj>>
Format == <<Name("format"), Str(FormatID)>>

GoodBundle == BundleOf(Format, ChainOf(Entry1, <<Str("ck")>>))
TwoChains == BundleOf(Format, ChainOf(Entry1 \o Entry1, <<Str("long")>>) \o ChainOf(<<>>, <<>>))
Bundles ==
    {GoodBundle, BundleOf(<<Name("format"), Str("v0")>>, ChainOf(Entry1, <<>>)),
     BundleOf(Format \o <<Name("x"), Num("1")>>, ChainOf(Entry1, <<>>)),
     BundleOf(Format \o Format, ChainOf(Entry1, <<>>)), TwoChains}

CheckpointText == <<Obj, Name("anchor_id"), Str("a"), Name("entry_count"), Num("1"), Name("range"), Obj,
                    Name("start_entry_id"), Str("e"), Name("end_entry_id"), Str("e"), EndObj, EndObj>>

\* Put in before a token; or a token or two taken out, or replaced.
Pieces == {<<Name("x"), Num("1")>>, <<Name("format"), Str("v0")>>, <<Name("chain_id"), Arr, EndArr>>,
           <<Name("x"), Obj, Name("y"), Num("1"), Name("y"), Num("1"), EndObj>>, Entry1, <<Str("long")>>, <<Num("-1")>>,
           <<Name("anchor_id"), Str("b")>>, <<Obj, EndObj>>, <<Arr, Arr, EndArr, EndArr>>, <<Bad>>, <<EndObj>>,
           <<Name("disclosed"), Obj, Name("content"), Str("d"), Name("nonce"), Str("n"), EndObj>>}
Changes(t) ==
    {t} \cup {SubSeq(t, 1, i - 1) \o p \o SubSeq(t, i, Len(t)) : i \in 1..(Len(t) + 1), p \in Pieces}
    \cup {SubSeq(t, 1, i - 1) \o SubSeq(t, i + n, Len(t)) : i \in DOMAIN t, n \in 1..2}
    \cup {[t EXCEPT ![i] = x] : i \in DOMAIN t, x \in {Num("0"), Str("v0")}}

\* Everything allowed; one limit just over what the good bundle has.
Wide   == [bytes |-> 99, depth |-> 7, values |-> 99, chains |-> 9, entries |-> 9, checkpoints |-> 9, nameCheck |-> 2]
Limits == {Wide, [Wide EXCEPT !.values = 14, !.nameCheck = 9], [Wide EXCEPT !.chains = 1, !.entries = 1, !.checkpoints = 1, !.bytes = 50]}

HandText ==
    /\ text = <<>>
    /\ \E t \in Bundles, l \in Limits :
         /\ l = Wide \/ t \in {GoodBundle, TwoChains}
         /\ text' \in Changes(t) /\ limits' = l /\ rd' = NewReader("bundle")
    /\ UNCHANGED at

HandCheckpoint ==
    /\ text = <<>>
    /\ text' \in Changes(CheckpointText) /\ limits' = Wide /\ rd' = NewReader("checkpoint")
    /\ UNCHANGED at

ReadNext ==
    /\ at < Len(text) /\ rd.status # "json" /\ Len(text) <= limits.bytes
    /\ rd' = ReadToken(rd, text[at + 1], IF at = 0 THEN "" ELSE text[at][2], limits)
    /\ at' = at + 1 /\ UNCHANGED <<text, limits>>

TextNext == HandText \/ HandCheckpoint \/ ReadNext

-----------------------------------------------------------------------------
(* The verdict *)

Finished == text # <<>> /\ (at = Len(text) \/ rd.status = "json" \/ Len(text) > limits.bytes)

\* Mutant of Reason: an unknown member is reported before a repeated one.
ReasonStructureFirst ==
    CASE Len(text) > limits.bytes -> "too-large"
      [] rd.status # "done" -> "json"
      [] rd.structure -> "structure"
      [] rd.overValues -> "too-large"
      [] rd.duplicate -> "duplicate-key"
      [] rd.topObject /\ ~rd.formatOK -> "format"
      [] rd.overCount -> "too-large"
      [] OTHER -> ""

\* readBundle
Reason ==
    CASE Len(text) > limits.bytes -> "too-large"
      [] Len(text) <= limits.bytes /\ rd.status # "done" -> "json"
      [] Len(text) <= limits.bytes /\ rd.status = "done" ->
           CASE rd.overValues -> "too-large"
             [] ~rd.overValues /\ rd.duplicate -> "duplicate-key"
             [] ~rd.overValues /\ ~rd.duplicate /\ rd.topObject /\ ~rd.formatOK -> "format"
             [] ~rd.overValues /\ ~rd.duplicate /\ ~(rd.topObject /\ ~rd.formatOK) /\ rd.structure -> "structure"
             [] OTHER -> IF rd.overCount THEN "too-large" ELSE ""

\* parseCheckpoint: every member, none twice, none else, and in shape.
CheckpointOK ==
    /\ rd.status = "done" /\ ~rd.duplicate /\ ~rd.structure
    /\ \A x \in rd.ck : (x[1] = "range" => x[3] = "e") /\ (x[2] = "entry_count" => x[3] # "0")

-----------------------------------------------------------------------------
(* What the format says, read off the tokens *)

Opener(i) == text[i][1] \in {"{", "["}
Closer(i) == text[i][1] \in {"}", "]"}
IsValue(i) == text[i][1] \in {"{", "[", "str", "num"}
Values == {i \in DOMAIN text : IsValue(i)}
\* How many containers are open before each token and at the end, and the innermost one.
Depths ==
    LET Step(ds, i) == Append(ds, Last(ds) + (IF Opener(i) THEN 1 ELSE IF Closer(i) THEN -1 ELSE 0)) IN
    FoldLeft(Step, <<0>>, [i \in DOMAIN text |-> i])
Around(i, depths) == Max({o \in 1..(i - 1) : Opener(o) /\ depths[o] = depths[i] - 1})

Grammar ==
    LET depths == Depths
        In(i) == text[Around(i, depths)][1] IN
    /\ Bad \notin {text[i] : i \in DOMAIN text}
    /\ depths[Len(text) + 1] = 0 /\ IsValue(1)
    /\ \A i \in DOMAIN text : Opener(i) => depths[i] < limits.depth
    /\ \A i \in 2..Len(text) :
          /\ depths[i] > 0
          /\ text[i][1] = "}" => In(i) = "{"
          /\ text[i][1] = "]" => In(i) = "["
          /\ text[i][1] = "name" => In(i) = "{" /\ i < Len(text) /\ IsValue(i + 1)
          /\ (IsValue(i) /\ In(i) = "{") => text[i - 1][1] = "name"

\* The names and "*" on the way to value i.
Path(i, depths) ==
    LET Step(d) == Max({o \in Values : o <= i /\ depths[o] = d})
        Label(o) == IF text[Around(o, depths)][1] = "[" THEN "*" ELSE text[o - 1][2] IN
    [d \in 1..depths[i] |-> Label(Step(d))]

EntryPath == <<"chains", "*", "entries", "*">>
Schema ==
    {<<<<>>, "{">>, <<<<"format">>, "str">>, <<<<"chains">>, "[">>, <<<<"chains", "*">>, "{">>,
     <<<<"chains", "*", "chain_id">>, "str">>, <<<<"chains", "*", "entries">>, "[">>, <<<<"chains", "*", "checkpoints">>, "[">>,
     <<<<"chains", "*", "checkpoints", "*">>, "str">>, <<EntryPath, "{">>, <<Append(EntryPath, "entry_id"), "str">>,
     <<Append(EntryPath, "chain_hash"), "str">>}
    \cup UNION {{<<Append(EntryPath, m[1]), "{">>, <<EntryPath \o m, "str">>} :
                  m \in {<<"record_signature", "key_id">>, <<"record_signature", "signature">>, <<"disclosed", "content">>,
                         <<"disclosed", "nonce">>}}
Needed(path) ==
    CASE path = <<>> -> {"chains"} [] path = <<"chains", "*">> -> {"chain_id", "entries", "checkpoints"}
      [] path = EntryPath -> {"entry_id", "chain_hash"} [] path = <<"chains", "*", "entries">> -> {"*"}
      [] path = Append(EntryPath, "record_signature") -> {"key_id", "signature"}
      [] path = Append(EntryPath, "disclosed") -> {"content", "nonce"} [] OTHER -> {}

\* Reasons by number.
Expected ==
    LET depths == Depths
        paths == [i \in Values |-> Path(i, depths)]
        Inside(o) == {v \in Values \ {1} : Around(v, depths) = o}
        LabelOf(v) == paths[v][Len(paths[v])]
        Count(p) == Cardinality({v \in Values : paths[v] = p}) IN
    CASE Len(text) > limits.bytes -> "too-large"
      [] Len(text) <= limits.bytes /\ ~Grammar -> "json"
      [] Len(text) <= limits.bytes /\ Grammar ->
           CASE Cardinality(Values) > limits.values -> "too-large"
             [] Cardinality(Values) <= limits.values ->
                  CASE \E v, w \in Values \ {1} :
                         v # w /\ Around(v, depths) = Around(w, depths) /\ LabelOf(v) = LabelOf(w) /\ LabelOf(v) # "*" -> "duplicate-key"
                    [] OTHER ->
                         CASE text[1] = Obj /\ ~\E v \in Values : paths[v] = <<"format">> /\ text[v] = Str(FormatID) -> "format"
                           [] OTHER ->
                                CASE \E v \in Values : \/ <<paths[v], text[v][1]>> \notin Schema
                                                       \/ ~(Needed(paths[v]) \subseteq {LabelOf(w) : w \in Inside(v)}) -> "structure"
                                  [] OTHER -> IF \/ Count(<<"chains", "*">>) > limits.chains \/ Count(EntryPath) > limits.entries
                                                 \/ Count(<<"chains", "*", "checkpoints", "*">>) > limits.checkpoints
                                              THEN "too-large" ELSE ""

-----------------------------------------------------------------------------
(* Properties *)

\* One pass, flags and early stops give the reason that several passes, one per
\* reason, would give: the lowest-numbered of all that apply.
LowestReason == Finished /\ rd.slot = "bundle" => Reason = Expected

\* What is held while reading never exceeds the limits, is dropped with the first
\* finding, and nothing of a bundle found readable is missing.
HeldWithinLimits ==
    LET r == rd
        held == Len(r.chain.entries) + FoldLeft(LAMBDA n, c : n + Len(c.entries), 0, r.chains) IN
    text # <<>> =>
        /\ Len(r.chains) <= limits.chains \/ r.chains = <<>>
        /\ held <= limits.entries \/ held = 0
        /\ (r.overValues \/ r.duplicate \/ r.structure \/ r.overCount) => r.chains = <<>> /\ held = 0 /\ r.entry = {}
        /\ (Finished /\ r.slot = "bundle" /\ Reason = "") => Len(r.chains) = r.nChains /\ held = r.nEntries

\* A checkpoint's text is accepted exactly with its members, each once and of its
\* type and shape, and nothing else: two readers of one text read one checkpoint.
CheckpointExact ==
    Finished /\ rd.slot = "checkpoint" =>
        (CheckpointOK <=> /\ Len(text) = Len(CheckpointText) /\ text[3][1] = "str"
                          /\ [text EXCEPT ![3] = CheckpointText[3]] = CheckpointText)

\* The one-pass reader gives the reason of the specification, holds no more than its
\* limits, and accepts a checkpoint's text exactly.
ReaderExact == LowestReason /\ HeldWithinLimits /\ CheckpointExact

=============================================================================
