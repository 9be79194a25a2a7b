---------------------------- MODULE BundleReader ----------------------------
(***************************************************************************)
(* exportbundle's reader: one pass over a bundle's text, or a checkpoint's,  *)
(* that keeps going after every finding but a grammar error, because a later *)
(* one may outrank it, and builds what it reads until the first finding.     *)
(*                                                                          *)
(* The text is the sequence of its tokens <<kind, value>>; commas, colons,   *)
(* spacing and how a string is escaped are left out, and "bad" is anything   *)
(* RFC 8259's grammar does not allow there.  The seven string members every  *)
(* entry has behave alike and are two here, as are a checkpoint's strings    *)
(* and numbers.  "long" is a string over the longest in-shape value.         *)
(***************************************************************************)
EXTENDS Integers, Sequences, SequencesExt

Tok(k, v) == <<k, v>>
Obj   == Tok("{", "")
EndObj == Tok("}", "")
Arr   == Tok("[", "")
EndArr == Tok("]", "")
Name(x) == Tok("name", x)
Str(x) == Tok("str", x)
Num(x) == Tok("num", x)
Bad   == Tok("bad", "")

FormatID == "v1"

\* memberNames, and what each member must be.
MemberSlots ==
    [other |-> {}, bundle |-> {<<"format", "format">>, <<"chains", "chains">>},
     chain |-> {<<"chain_id", "chain_id">>, <<"entries", "entries">>, <<"checkpoints", "checkpoints">>},
     entry |-> {<<"entry_id", "field">>, <<"chain_hash", "field">>, <<"record_signature", "sig">>, <<"disclosed", "disclosed">>},
     sig |-> {<<"key_id", "field">>, <<"signature", "field">>}, disclosed |-> {<<"content", "field">>, <<"nonce", "field">>},
     checkpoint |-> {<<"anchor_id", "ckString">>, <<"entry_count", "ckNumber">>, <<"range", "range">>},
     range |-> {<<"start_entry_id", "ckString">>, <<"end_entry_id", "ckString">>}]
MemberNames(kind) == {ms[1] : ms \in MemberSlots[kind]}
SlotOf(kind, x) == (CHOOSE ms \in MemberSlots[kind] : ms[1] = x)[2]
Required(kind) == IF kind = "entry" THEN {"entry_id", "chain_hash"} ELSE IF kind = "bundle" THEN {"chains"} ELSE MemberNames(kind)

ObjectSlots == {"bundle", "chain", "entry", "sig", "disclosed", "checkpoint", "range"}
ArraySlots  == [chains |-> "chain", entries |-> "entry", checkpoints |-> "text"]
Elements    == {"chain", "entry", "text"}
Strict      == {"ckString", "ckNumber", "range"}    \* a checkpoint's: any other type ends the read

-----------------------------------------------------------------------------
(* The reader's state *)

NoChain == [id |-> "", entries |-> <<>>, checkpoints |-> <<>>]

\* slot: the top value is a bundle or a checkpoint.
NewReader(slot) ==
    [status |-> "reading", slot |-> slot, stack |-> <<>>, values |-> 0, overValues |-> FALSE, duplicate |-> FALSE,
     structure |-> FALSE, overCount |-> FALSE, topObject |-> FALSE, formatOK |-> FALSE,
     build |-> slot = "bundle", chains |-> <<>>, chain |-> NoChain, entry |-> {}, nChains |-> 0, nEntries |-> 0,
     nCheckpoints |-> 0, ck |-> {}, track |-> TRUE]

Frame(kind, slot, check) == [kind |-> kind, slot |-> slot, seen |-> {}, unknown |-> <<>>, n |-> 0, check |-> check]
Top(r) == r.stack[Len(r.stack)]
Depth(r) == Len(r.stack)

\* Where the next token is a value: what it should be; "" where a name is.
Slot(r) == IF r.stack = <<>> THEN r.slot ELSE Top(r).slot
InObject(r) == r.stack # <<>> /\ Top(r).kind # "array"

JSON(r) == [r EXCEPT !.status = "json"]
StopBuilding(r) == [r EXCEPT !.build = FALSE, !.chains = <<>>, !.chain = NoChain, !.entry = {}]
StopTracking(r) == [r EXCEPT !.track = FALSE, !.stack = [d \in DOMAIN @ |-> [@[d] EXCEPT !.unknown = <<>>]]]
Violate(r) == [StopBuilding(r) EXCEPT !.structure = TRUE]
FoundDuplicate(r) == [StopTracking(StopBuilding(r)) EXCEPT !.duplicate = TRUE]
CountValue(r, lim) ==
    IF r.values + 1 <= lim.values \/ r.overValues THEN [r EXCEPT !.values = @ + 1]
    ELSE [StopTracking(StopBuilding(r)) EXCEPT !.values = @ + 1, !.overValues = TRUE]

\* The elements beyond are still read, and not held.
OverLimit(r, n, limit) == IF n > limit /\ ~r.overCount THEN [StopBuilding(r) EXCEPT !.overCount = TRUE] ELSE r

CheckNames(r) ==
    LET u == Top(r).unknown IN
    IF \E i, j \in DOMAIN u : i # j /\ u[i] = u[j] THEN FoundDuplicate(r) ELSE r

-----------------------------------------------------------------------------
(* Names, values, and what closes *)

SetTop(r, f) == [r EXCEPT !.stack = [@ EXCEPT ![Len(@)] = f]]

\* An unknown name is remembered while a duplicate can change the answer.
UnknownName(r, x) ==
    LET f == Top(r)
        u == Append(f.unknown, x)
        due == Len(u) >= f.check
        kept == SetTop(r, [f EXCEPT !.slot = "any", !.unknown = u, !.check = IF due THEN 2 * Len(u) ELSE @]) IN
    CASE ~r.track -> Violate(SetTop(r, [f EXCEPT !.slot = "any"]))
      [] r.track /\ due -> Violate(CheckNames(kept))
      [] OTHER -> Violate(kept)

\* A repeat is read as any value.
ReadName(r, x) ==
    LET f == Top(r) IN
    CASE ~InObject(r) \/ Slot(r) # "" -> JSON(r)
      [] InObject(r) /\ Slot(r) = "" /\ x \notin MemberNames(f.kind) -> UnknownName(r, x)
      [] InObject(r) /\ Slot(r) = "" /\ x \in f.seen -> FoundDuplicate(SetTop(r, [f EXCEPT !.slot = "any"]))
      [] OTHER -> SetTop(r, [f EXCEPT !.slot = SlotOf(f.kind, x), !.seen = @ \cup {x}])

\* element: counted before its type is looked at.
Counted(r, lim) ==
    CASE Slot(r) = "chain" -> OverLimit([r EXCEPT !.nChains = @ + 1], r.nChains + 1, lim.chains)
      [] Slot(r) = "entry" -> OverLimit([r EXCEPT !.nEntries = @ + 1], r.nEntries + 1, lim.entries)
      [] Slot(r) = "text"  -> OverLimit([r EXCEPT !.nCheckpoints = @ + 1], r.nCheckpoints + 1, lim.checkpoints)
      [] OTHER -> r

\* The value at this place is read.
Done(r) ==
    CASE r.stack = <<>> -> [r EXCEPT !.status = "done"]
      [] InObject(r)    -> SetTop(r, [Top(r) EXCEPT !.slot = ""])
      [] OTHER          -> SetTop(r, [Top(r) EXCEPT !.n = @ + 1])

Begun(r, kind) == CASE ~r.build -> r
                    [] r.build /\ kind = "chain" -> [r EXCEPT !.chain = NoChain]
                    [] r.build /\ kind = "entry" -> [r EXCEPT !.entry = {}]
                    [] OTHER -> r

Push(r, lim, f) == IF Depth(r) + 1 > lim.depth THEN JSON(r) ELSE CountValue([r EXCEPT !.stack = Append(@, f)], lim)

OpenObject(r, lim) ==
    LET s == Slot(r)
        c == Counted(r, lim) IN
    CASE s = "" -> JSON(r)
      [] s \in ObjectSlots -> Push([Begun(c, s) EXCEPT !.topObject = @ \/ r.stack = <<>>], lim, Frame(s, "", lim.nameCheck))
      [] s = "any" -> Push(c, lim, Frame("other", "", lim.nameCheck))
      [] s \in Strict -> JSON(r)
      [] OTHER -> Push(Violate(c), lim, Frame("other", "", lim.nameCheck))

OpenArray(r, lim) ==
    LET s == Slot(r)
        c == Counted(r, lim) IN
    CASE s \in {"", "checkpoint"} \cup Strict -> JSON(r)
      [] s \in DOMAIN ArraySlots -> Push(c, lim, Frame("array", ArraySlots[s], 0))
      [] s = "any" -> Push(c, lim, Frame("array", "any", 0))
      [] OTHER -> Push(Violate(c), lim, Frame("array", "any", 0))

Oversize(x) == IF x = "long" THEN "oversize" ELSE x
\* Where a string goes, while building: the member it is of is the top frame's last.
Kept(r, member, x) ==
    LET s == Slot(r)
        path == IF Top(r).kind \in {"sig", "disclosed"} THEN <<Top(r).kind, member>> ELSE <<member>> IN
    CASE s = "format" -> [(IF x = FormatID THEN r ELSE StopBuilding(r)) EXCEPT !.formatOK = x = FormatID]
      [] s = "ckString" -> [r EXCEPT !.ck = @ \cup {<<Top(r).kind, member, x>>}]
      [] s # "ckString" /\ r.build /\ s = "chain_id" -> [r EXCEPT !.chain.id = IF x = "long" THEN "digest" ELSE x]
      [] r.build /\ s = "text"  -> [r EXCEPT !.chain.checkpoints = Append(@, IF x = "long" THEN "nil" ELSE x)]
      [] r.build /\ s = "field" -> [r EXCEPT !.entry = @ \cup {<<path, Oversize(x)>>}]
      [] OTHER -> r

\* A string, a number, true, false or null.
Scalar(r, tok, member, lim) ==
    LET s == Slot(r)
        c == CountValue(Counted(r, lim), lim)
        stringSlot == s \in {"format", "chain_id", "field", "text", "ckString"} IN
    CASE s \in {"", "checkpoint", "range"} -> JSON(r)
      [] s = "any" -> Done(c)
      [] stringSlot /\ tok[1] = "str" -> Done(Kept(c, member, tok[2]))
      [] s = "ckNumber" /\ tok[1] = "num" /\ tok[2] # "-1" -> Done([c EXCEPT !.ck = @ \cup {<<Top(r).kind, member, tok[2]>>}])
      [] s \in Strict /\ ~(stringSlot /\ tok[1] = "str") /\ ~(s = "ckNumber" /\ tok[1] = "num" /\ tok[2] # "-1") -> JSON(r)
      [] OTHER -> Done(Violate(c))

\* Missing members, and what was built.
Closed(r, f) ==
    LET checked == IF r.track /\ Len(f.unknown) > 1 THEN CheckNames(r) ELSE r
        popped == [checked EXCEPT !.stack = Front(@)]
        whole == IF Required(f.kind) \subseteq f.seen THEN popped ELSE Violate(popped) IN
    CASE f.kind = "chain" /\ whole.build -> [whole EXCEPT !.chains = Append(@, whole.chain), !.chain = NoChain]
      [] f.kind = "entry" /\ whole.build -> [whole EXCEPT !.chain.entries = Append(@, whole.entry), !.entry = {}]
      [] f.kind = "range" /\ ~(Required(f.kind) \subseteq f.seen) -> JSON(whole)
      [] OTHER -> whole

CloseObject(r) == IF InObject(r) /\ Slot(r) = "" THEN Done(Closed(r, Top(r))) ELSE JSON(r)

\* A chain has at least one entry.
CloseArray(r) ==
    IF r.stack # <<>> /\ ~InObject(r)
    THEN LET popped == [r EXCEPT !.stack = Front(@)] IN
         Done(IF Top(r).slot = "entry" /\ Top(r).n = 0 THEN Violate(popped) ELSE popped)
    ELSE JSON(r)

\* One token; member: the last name read before it.
ReadToken(r, tok, member, lim) ==
    CASE r.status # "reading" -> JSON(r)
      [] r.status = "reading" /\ tok[1] = "name" -> ReadName(r, tok[2])
      [] r.status = "reading" /\ tok[1] = "{" -> OpenObject(r, lim)
      [] r.status = "reading" /\ tok[1] = "[" -> OpenArray(r, lim)
      [] r.status = "reading" /\ tok[1] = "}" -> CloseObject(r)
      [] r.status = "reading" /\ tok[1] = "]" -> CloseArray(r)
      [] r.status = "reading" /\ tok[1] = "bad" -> JSON(r)
      [] OTHER -> Scalar(r, tok, member, lim)

=============================================================================
