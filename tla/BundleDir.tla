----------------------------- MODULE BundleDir ------------------------------
(***************************************************************************)
(* bundle.VerifyDir: a directory against its manifest, while another process *)
(* may change the directory.  Two files, one in a sub-directory; a digest is *)
(* the content it is of.                                                     *)
(***************************************************************************)
EXTENDS Integers, Sequences, SequencesExt, FiniteSetTheorems, TLAPS

CONSTANT MaxSwaps    \* bound: changes of the directory and of the manifest

ASSUME DirAssumption == MaxSwaps \in Nat

VARIABLES
    disk,       \* what each name is: a content, "absent", "dir", or "link" (out of the bundle)
    rows,       \* the manifest's files
    root,       \* its manifest_root, or NoRootGiven
    folds,      \* the file system ignores case
    check,      \* the call
    swaps, swapped    \* changes made, and whether one was made during the call

dirVars == <<disk, rows, root, folds, check, swaps, swapped>>

Outside == "outside"
\* A file over the size cap.
Huge == "huge"
Row(p, c) == [path |-> p, sha |-> c]
Listed == <<Row("a", "one"), Row("d/b", "two")>>

Ambiguous == {Row("none", "none")}
NoRootGiven == {}
\* Path and digest of every file, in the order of the paths; none for an ambiguous or
\* malformed inventory.
ManifestRoot(rs) ==
    IF (\E i, j \in DOMAIN rs : i # j /\ rs[i].path = rs[j].path) \/ (\E i \in DOMAIN rs : rs[i].sha = "malformed")
    THEN Ambiguous ELSE {rs[i] : i \in DOMAIN rs}

Idle == [phase |-> "idle", row |-> 1, onDisk |-> {}, listed |-> {}, problems |-> {}, read |-> {}]

DirInit ==
    /\ disk = [p \in {"a", "d", "d/b", "u"} |-> CASE p = "a" -> "one" [] p = "d" -> "dir" [] p = "d/b" -> "two" [] OTHER -> "absent"]
    /\ rows = Listed /\ root = ManifestRoot(Listed) /\ folds = FALSE /\ check = Idle /\ swaps = 0 /\ swapped = FALSE

-----------------------------------------------------------------------------
(* The directory and the manifest change *)

Change ==
    /\ swaps < MaxSwaps /\ check.phase # "done" /\ swaps' = swaps + 1 /\ swapped' = (swapped \/ check.phase # "idle")
    /\ \/ \E p \in {"a", "d/b", "u"}, c \in {"one", "other", Huge, "absent", "link"} :
            disk' = [disk EXCEPT ![p] = c] /\ UNCHANGED <<rows, root, folds>>
       \/ \E c \in {"absent", "dir", "link"} : disk' = [disk EXCEPT !["d"] = c] /\ UNCHANGED <<rows, root, folds>>
       \/ /\ check.phase = "idle"
          /\ \/ \E r \in {Row("a", "other"), Row("A", "one"), Row("./a", "one"), Row("../x", Outside), Row("u", "one"), Row("a", "malformed")},
                   i \in 1..Len(rows) : rows' \in {[rows EXCEPT ![i] = r], Append(rows, r)} /\ UNCHANGED <<root, folds>>
             \/ rows # <<>> /\ rows' = Tail(rows) /\ UNCHANGED <<root, folds>>
             \/ root' \in {ManifestRoot(rows), NoRootGiven} /\ UNCHANGED <<rows, folds>>
             \/ folds' = TRUE /\ UNCHANGED <<rows, root>>
          /\ UNCHANGED disk
    /\ UNCHANGED check

-----------------------------------------------------------------------------
(* VerifyDir *)

\* filesOnDisk: no link is followed.
FilesOnDisk == {p \in {"a", "u"} : disk[p] # "absent"} \cup (IF disk["d"] = "link" THEN {"d"} ELSE {})
               \cup (IF disk["d"] = "dir" /\ disk["d/b"] # "absent" THEN {"d/b"} ELSE {})

\* safePath: one spelling, inside the directory.
SafePath(p) == p \notin {"./a", "../x"}

\* What the file system finds under a path.
Lookup(p) == CASE p \in {"a", "u"} -> disk[p]
               [] p = "A" -> IF folds THEN disk["a"] ELSE "absent"
               [] OTHER -> CASE disk["d"] = "dir" -> disk["d/b"]
                             [] disk["d"] = "link" -> "link"
                             [] OTHER -> "absent"

Problem(c, problem) == [c EXCEPT !.problems = @ \cup {problem}, !.phase = "row", !.row = @ + 1]

BeginVerify ==
    /\ check.phase = "idle"
    /\ check' = IF rows = <<>> THEN [check EXCEPT !.phase = "done", !.problems = {"error"}]
                ELSE [check EXCEPT !.phase = "row", !.onDisk = FilesOnDisk]
    /\ UNCHANGED <<disk, rows, root, folds, swaps, swapped>>

\* The row's path, and every component of it looked at.
LookAtRow ==
    /\ check.phase = "row" /\ check.row <= Len(rows)
    /\ LET p == rows[check.row].path
           c == [check EXCEPT !.listed = @ \cup {p}] IN
       check' = CASE p \in check.listed -> Problem(check, "duplicate_path")
                  [] p \notin check.listed /\ ~SafePath(p) -> Problem(c, "unsafe_path")
                  [] p \notin check.listed /\ SafePath(p) ->
                       CASE Lookup(p) = "absent" -> Problem(c, "missing_file")
                         [] Lookup(p) = "link" -> Problem(c, "unreadable")
                         [] OTHER -> [c EXCEPT !.phase = "open"]
    /\ UNCHANGED <<disk, rows, root, folds, swaps, swapped>>

\* Mutant of OpenInRoot: the file is opened by its path.
OpenByPath(p) == IF Lookup(p) = "link" THEN Outside ELSE Lookup(p)

\* os.Root: a link out of the directory is not followed.
OpenInRoot(p) == Lookup(p)

\* The opened file's own size and type count.
HashRow ==
    /\ check.phase = "open"
    /\ LET r == rows[check.row]
           content == OpenInRoot(r.path)
           c == [check EXCEPT !.read = @ \cup {content}] IN
       check' = CASE content = "absent" -> Problem(check, "missing_file")
                  [] content \in {"link", Huge} -> Problem(check, "unreadable")
                  [] content \notin {"absent", "link", Huge} ->
                       CASE r.path \notin check.onDisk -> Problem(c, "unsafe_path")
                         [] r.path \in check.onDisk /\ content # r.sha -> Problem(c, "content_mismatch")
                         [] OTHER -> [c EXCEPT !.phase = "row", !.row = @ + 1]
    /\ UNCHANGED <<disk, rows, root, folds, swaps, swapped>>

\* Unlisted files, and the root.
EndVerify ==
    /\ check.phase = "row" /\ check.row > Len(rows)
    /\ check' = [check EXCEPT !.phase = "done",
                   !.problems = @ \cup (IF check.onDisk \ check.listed # {} THEN {"unlisted_file"} ELSE {})
                                \cup (IF root = NoRootGiven \/ (ManifestRoot(rows) = root /\ root # Ambiguous) THEN {} ELSE {"root_mismatch"})]
    /\ UNCHANGED <<disk, rows, root, folds, swaps, swapped>>

DirNext == Change \/ BeginVerify \/ LookAtRow \/ HashRow \/ EndVerify

DirSpec == DirInit /\ [][DirNext]_dirVars

-----------------------------------------------------------------------------
(* Properties *)

\* Called intact, and not changed meanwhile, a bundle has exactly the files its
\* manifest lists, each listed once and with that content, and the root, where one is
\* given, is theirs; and an unchanged bundle is called intact.
IntactIsListed ==
    /\ (check.phase = "done" /\ check.problems = {} /\ ~swapped) =>
          /\ FilesOnDisk = {rows[i].path : i \in DOMAIN rows} /\ Cardinality(FilesOnDisk) = Len(rows)
          /\ \A i \in DOMAIN rows : Lookup(rows[i].path) = rows[i].sha
          /\ root # NoRootGiven => root = {rows[i] : i \in DOMAIN rows}
    /\ (check.phase = "done" /\ swaps = 0) => check.problems = {}

\* Nothing outside the directory is ever read, whatever is swapped for a link between
\* the look at a path and its opening.
ReadsInside == Outside \notin check.read

\* VerifyDir reads only what is inside the directory, and calls it intact only when
\* it is what the manifest lists.
DirectoryRead == IntactIsListed /\ ReadsInside

-----------------------------------------------------------------------------
(* DirectoryRead, for any number of changes *)

Contents == {"one", "two", "other", Huge, "absent", "link", "dir"}
Paths    == {"a", "A", "./a", "../x", "u", "d/b"}

Findings == {"error", "duplicate_path", "unsafe_path", "missing_file", "unreadable", "content_mismatch",
             "unlisted_file", "root_mismatch"}
Rows     == [path : Paths, sha : Contents \cup {Outside, "malformed"}]
Checks   == [phase : {"idle", "row", "open", "done"}, row : Nat \ {0}, onDisk : SUBSET {"a", "u", "d", "d/b"},
             listed : SUBSET Paths, problems : SUBSET Findings, read : SUBSET Contents]

\* Nothing the directory holds is what is outside of it: that is reached by a link only.
DirType ==
    /\ disk \in [{"a", "d", "d/b", "u"} -> Contents]
    /\ disk["d"] \in {"absent", "dir", "link"} /\ disk["d/b"] # "dir"
    /\ rows \in Seq(Rows)
    /\ folds \in BOOLEAN /\ swaps \in Nat /\ swapped \in BOOLEAN
    /\ check \in Checks

\* Nothing was changed before the call: the bundle is as it was written.
Unchanged ==
    swaps = 0 =>
        /\ disk["a"] = "one" /\ disk["d"] = "dir" /\ disk["d/b"] = "two" /\ disk["u"] = "absent"
        /\ rows = Listed /\ root = ManifestRoot(Listed) /\ check.problems = {} /\ ~swapped

\* The first n rows have each a path of their own, and those hashed their content.
SoFar(c, n) ==
    /\ c.onDisk = FilesOnDisk /\ n <= Len(rows)
    /\ c.listed = {rows[i].path : i \in 1..n}
    /\ \A i, j \in 1..n : rows[i].path = rows[j].path => i = j
    /\ \A i \in 1..(c.row - 1) : rows[i].path \in c.onDisk /\ Lookup(rows[i].path) = rows[i].sha

\* How far a call has come that found no problem.
HasCome(c) ==
    /\ c.phase = "row"  => SoFar(c, c.row - 1)
    /\ c.phase = "open" => SoFar(c, c.row)
    /\ c.phase = "done" =>
          /\ c.row = Len(rows) + 1 /\ SoFar(c, Len(rows)) /\ c.onDisk \subseteq c.listed
          /\ root # NoRootGiven => root = {rows[i] : i \in DOMAIN rows}

Progress == ~swapped /\ check.problems = {} => HasCome(check)

Started == check.phase = "idle" => check = Idle /\ ~swapped

DirInv == DirType /\ Unchanged /\ Progress /\ Started /\ (check.phase = "open" => check.row <= Len(rows))

\* What a look-up finds is in the directory.
LEMMA LookupType == ASSUME DirType, NEW p PROVE Lookup(p) \in Contents
BY DEF DirType, Lookup, Contents, Huge

\* As many files as rows, where the rows have different paths.
LEMMA OneFileEach ==
    ASSUME NEW n \in Nat, NEW f, \A i, j \in 1..n : f[i] = f[j] => i = j
    PROVE  Cardinality({f[i] : i \in 1..n}) = n
<1> DEFINE S == {f[i] : i \in 1..n}
           g == [i \in 1..n |-> f[i]]
<1>1. g \in Bijection(1..n, S) BY DEF Bijection, Injection, Surjection, IsInjective
<1>2. IsFiniteSet(1..n) /\ Cardinality(1..n) = n BY FS_Interval
<1> HIDE DEF g, S
<1>3. Cardinality(S) = n BY <1>1, <1>2, FS_Bijection DEF ExistsBijection
<1> QED BY <1>3 DEF S

LEMMA ProgressShows == ASSUME DirInv PROVE DirectoryRead
<1>1. ReadsInside BY DEF DirInv, DirType, Checks, ReadsInside, Contents, Outside, Huge
<1>2. ASSUME check.phase = "done", check.problems = {}, ~swapped
      PROVE  /\ FilesOnDisk = {rows[i].path : i \in DOMAIN rows} /\ Cardinality(FilesOnDisk) = Len(rows)
             /\ \A i \in DOMAIN rows : Lookup(rows[i].path) = rows[i].sha
             /\ root # NoRootGiven => root = {rows[i] : i \in DOMAIN rows}
  <2>1. check.row = Len(rows) + 1 /\ SoFar(check, Len(rows)) /\ check.onDisk \subseteq check.listed
        /\ (root # NoRootGiven => root = {rows[i] : i \in DOMAIN rows})
    BY <1>2 DEF DirInv, Progress, HasCome
  <2>2. PICK n \in Nat : n = Len(rows) /\ DOMAIN rows = 1..n BY DEF DirInv, DirType
  <2>3. check.row - 1 = n BY <2>1, <2>2
  <2>4. FilesOnDisk = {rows[i].path : i \in 1..n} BY <2>1, <2>2, <2>3 DEF SoFar
  <2> DEFINE f == [i \in 1..n |-> rows[i].path]
  <2>5. \A i, j \in 1..n : f[i] = f[j] => i = j BY <2>1, <2>2 DEF SoFar
  <2>6. {f[i] : i \in 1..n} = {rows[i].path : i \in 1..n} OBVIOUS
  <2> HIDE DEF f
  <2>7. Cardinality({f[i] : i \in 1..n}) = n BY <2>5, OneFileEach
  <2> QED BY <2>1, <2>2, <2>3, <2>4, <2>6, <2>7 DEF SoFar
<1>3. check.phase = "done" /\ swaps = 0 => check.problems = {} BY DEF DirInv, Unchanged
<1> QED BY <1>1, <1>2, <1>3 DEF DirectoryRead, IntactIsListed

LEMMA DirInitInv == DirInit => DirInv
<1> SUFFICES ASSUME DirInit PROVE DirInv OBVIOUS
<1>1. rows \in Seq(Rows)
  BY DEF DirInit, Listed, Row, Paths, Contents, Rows
<1>2. disk \in [{"a", "d", "d/b", "u"} -> Contents] /\ disk["d"] \in {"absent", "dir", "link"} /\ disk["d/b"] # "dir"
  BY DEF DirInit, Contents, Huge
<1>3. check \in Checks BY DEF DirInit, Idle, Checks
<1>4. folds \in BOOLEAN /\ swaps \in Nat /\ swapped \in BOOLEAN BY DEF DirInit
<1>5. DirType BY <1>1, <1>2, <1>3, <1>4 DEF DirType
<1> QED BY <1>5 DEF DirInit, DirInv, Unchanged, Progress, HasCome, Started, Idle, Listed

LEMMA ChangeInv == DirInv /\ Change => DirInv'
<1> SUFFICES ASSUME DirInv, Change PROVE DirInv' OBVIOUS
<1> USE DEF DirInv
<1> DEFINE Other == /\ check.phase = "idle"
                    /\ \/ \E r \in {Row("a", "other"), Row("A", "one"), Row("./a", "one"), Row("../x", Outside), Row("u", "one"), Row("a", "malformed")},
                             i \in 1..Len(rows) : rows' \in {[rows EXCEPT ![i] = r], Append(rows, r)} /\ UNCHANGED <<root, folds>>
                       \/ rows # <<>> /\ rows' = Tail(rows) /\ UNCHANGED <<root, folds>>
                       \/ root' \in {ManifestRoot(rows), NoRootGiven} /\ UNCHANGED <<rows, folds>>
                       \/ folds' = TRUE /\ UNCHANGED <<rows, root>>
                    /\ UNCHANGED disk
<1>1. /\ check.phase # "done" /\ swaps' = swaps + 1 /\ swapped' = (swapped \/ check.phase # "idle") /\ check' = check
      /\ \/ \E p \in {"a", "d/b", "u"}, c \in {"one", "other", Huge, "absent", "link"} :
              disk' = [disk EXCEPT ![p] = c] /\ UNCHANGED <<rows, root, folds>>
         \/ \E c \in {"absent", "dir", "link"} : disk' = [disk EXCEPT !["d"] = c] /\ UNCHANGED <<rows, root, folds>>
         \/ Other
  BY DEF Change
<1>2. /\ disk' \in [{"a", "d", "d/b", "u"} -> Contents]
      /\ disk'["d"] \in {"absent", "dir", "link"} /\ disk'["d/b"] # "dir"
  BY <1>1 DEF DirType, Contents, Huge
<1>3. rows' \in Seq(Rows)
  <2>1. CASE rows' = rows BY <2>1 DEF DirType
  <2>2. CASE rows # <<>> /\ rows' = Tail(rows) BY <2>2 DEF DirType
  <2>3. ASSUME NEW r \in {Row("a", "other"), Row("A", "one"), Row("./a", "one"), Row("../x", Outside), Row("u", "one"), Row("a", "malformed")},
               NEW i \in 1..Len(rows), rows' \in {[rows EXCEPT ![i] = r], Append(rows, r)}
        PROVE  rows' \in Seq(Rows)
    <3>1. r \in Rows BY <2>3 DEF Row, Paths, Contents, Rows
    <3>2. rows \in Seq(Rows) BY DEF DirType
    <3>3. [rows EXCEPT ![i] = r] \in Seq(Rows) /\ Append(rows, r) \in Seq(Rows) BY <2>3, <3>1, <3>2
    <3> QED BY <2>3, <3>3
  <2> QED BY <1>1, <2>1, <2>2, <2>3
<1>4. folds' \in BOOLEAN
  <2>1. folds \in BOOLEAN BY DEF DirType
  <2> QED BY <1>1, <2>1
<1>5. swaps' \in Nat /\ swaps' # 0 BY <1>1 DEF DirType
<1>6. swapped' \in BOOLEAN BY <1>1 DEF DirType
<1>7. DirType' BY <1>1, <1>2, <1>3, <1>4, <1>5, <1>6 DEF DirType
<1>8. check.phase = "idle" \/ swapped' BY <1>1
<1>9. check.phase = "idle" => check' = Idle /\ ~swapped' BY <1>1 DEF Started
<1>10. Progress' /\ Started' BY <1>1, <1>8, <1>9 DEF Progress, HasCome, Started, Idle
<1>11. check.phase = "open" => check.row <= Len(rows') BY <1>1
<1> QED BY <1>1, <1>5, <1>7, <1>10, <1>11 DEF Unchanged

\* What a step of the call has to show.
CallStep(c) ==
    /\ UNCHANGED <<disk, rows, root, folds, swaps, swapped>> /\ check' = c
    /\ c \in Checks /\ c.phase # "idle"
    /\ c.phase = "open" => c.row <= Len(rows)
    /\ ~swapped /\ c.problems = {} => HasCome(c)
    /\ swaps = 0 => c.problems = {}

LEMMA CallStepInv == ASSUME DirInv, NEW c, CallStep(c) PROVE DirInv'
<1>1. DirType' BY DEF DirInv, DirType, CallStep
<1>2. Unchanged' BY DEF DirInv, Unchanged, CallStep
<1>3. UNCHANGED <<disk, rows, root, folds>> /\ check' = c BY DEF CallStep
<1>4. Progress'
  <2>1. HasCome(c)' <=> HasCome(c) BY <1>3 DEF HasCome, SoFar, FilesOnDisk, Lookup
  <2> QED BY <1>3, <2>1 DEF Progress, CallStep
<1>5. Started' /\ (check.phase = "open" => check.row <= Len(rows))' BY DEF Started, CallStep
<1> QED BY <1>1, <1>2, <1>4, <1>5 DEF DirInv

LEMMA FilesType == ASSUME DirType PROVE FilesOnDisk \subseteq {"a", "u", "d", "d/b"}
BY DEF FilesOnDisk

LEMMA BeginInv == DirInv /\ BeginVerify => DirInv'
<1> SUFFICES ASSUME DirInv, BeginVerify PROVE DirInv' OBVIOUS
<1>1. check = Idle /\ ~swapped BY DEF DirInv, Started, BeginVerify
<1>2. CASE rows = <<>>
  <2>0. PICK error : error = {"error"} /\ error \in SUBSET Findings /\ error # {}
    <3>1. {"error"} \in SUBSET Findings /\ {"error"} # {} BY DEF Findings
    <3> QED BY <3>1
  <2> DEFINE c == [check EXCEPT !.phase = "done", !.problems = error]
  <2>2. check' = c /\ UNCHANGED <<disk, rows, root, folds, swaps, swapped>> BY <1>2, <2>0 DEF BeginVerify
  <2>1. c \in Checks /\ c.phase = "done" /\ c.problems # {}
    <3>1. check \in Checks BY DEF DirInv, DirType
    <3> QED BY <2>0, <3>1 DEF Checks
  <2>3. swaps # 0 BY <1>2 DEF DirInv, Unchanged, Listed
  <2> HIDE DEF c
  <2> QED BY <2>1, <2>2, <2>3, CallStepInv DEF CallStep
<1>3. CASE rows # <<>>
  <2> DEFINE c == [check EXCEPT !.phase = "row", !.onDisk = FilesOnDisk]
  <2>1. c \in Checks /\ c.phase = "row" /\ c.problems = {} /\ c.row = 1 /\ c.onDisk = FilesOnDisk /\ c.listed = {}
    <3>1. check \in Checks /\ DirType BY DEF DirInv, DirType
    <3>2. PICK files \in SUBSET {"a", "u", "d", "d/b"} : files = FilesOnDisk BY <3>1, FilesType
    <3> QED BY <1>1, <3>1, <3>2 DEF Checks, Idle
  <2>2. check' = c /\ UNCHANGED <<disk, rows, root, folds, swaps, swapped>> BY <1>3 DEF BeginVerify
  <2>3. Len(rows) \in Nat BY DEF DirInv, DirType
  <2> HIDE DEF c
  <2>4. SoFar(c, 0) BY <2>1, <2>3 DEF SoFar
  <2> QED BY <2>1, <2>2, <2>4, CallStepInv DEF CallStep, HasCome
<1> QED BY <1>2, <1>3

\* A problem ends a row's turn.
LEMMA ProblemInv ==
    ASSUME DirInv, NEW c \in Checks, NEW problem \in Findings, check' = Problem(c, problem),
           UNCHANGED <<disk, rows, root, folds, swaps, swapped>>, swaps # 0
    PROVE  DirInv'
<1>1. PICK found : found = c.problems \cup {problem} OBVIOUS
<1>2. found \in SUBSET Findings /\ found # {} BY <1>1 DEF Checks
<1>3. PICK next \in Nat \ {0} : next = c.row + 1 BY DEF Checks
<1>4. check' = [c EXCEPT !.problems = found, !.phase = "row", !.row = next] BY <1>1, <1>3 DEF Problem
<1>5. check' \in Checks /\ check'.phase = "row" /\ check'.problems # {} BY <1>2, <1>4 DEF Checks
<1>6. PICK e : e = check' OBVIOUS
<1>7. CallStep(e) BY <1>5, <1>6 DEF CallStep
<1> QED BY <1>7, CallStepInv

\* The first row without a problem in an unchanged bundle.
LEMMA RowType == ASSUME DirType, check.row <= Len(rows)
                 PROVE  rows[check.row] \in Rows /\ check.row \in 1..Len(rows)
<1>1. rows \in Seq(Rows) /\ check.row \in Nat \ {0} BY DEF DirType, Checks
<1>2. check.row \in 1..Len(rows) BY <1>1
<1> QED BY <1>1, <1>2

\* In an unchanged bundle the two files are where the rows say.
LEMMA AsWritten ==
    ASSUME DirInv, swaps = 0, NEW i \in 1..Len(rows)
    PROVE  /\ SafePath(rows[i].path) /\ Lookup(rows[i].path) = rows[i].sha /\ rows[i].path \in FilesOnDisk
           /\ rows[i].sha \in {"one", "two"}
           /\ \A j \in 1..Len(rows) : rows[i].path = rows[j].path => i = j
<1>1. /\ rows = <<[path |-> "a", sha |-> "one"], [path |-> "d/b", sha |-> "two"]>> /\ disk["a"] = "one"
      /\ disk["d"] = "dir" /\ disk["d/b"] = "two" /\ disk["u"] = "absent"
  BY DEF DirInv, Unchanged, Listed, Row
<1>2. Len(rows) = 2 /\ rows[1].path = "a" /\ rows[1].sha = "one" /\ rows[2].path = "d/b" /\ rows[2].sha = "two"
  BY <1>1
<1>3. i \in {1, 2} BY <1>2
<1>4. FilesOnDisk = {"a", "d/b"} BY <1>1 DEF FilesOnDisk
<1>5. Lookup("a") = "one" /\ Lookup("d/b") = "two" /\ SafePath("a") /\ SafePath("d/b") BY <1>1 DEF Lookup, SafePath
<1>6. CASE i = 1 BY <1>2, <1>4, <1>5, <1>6
<1>7. CASE i = 2 BY <1>2, <1>4, <1>5, <1>7
<1> QED BY <1>3, <1>6, <1>7

LEMMA LookInv == DirInv /\ LookAtRow => DirInv'
<1> SUFFICES ASSUME DirInv, LookAtRow PROVE DirInv' OBVIOUS
<1>1. /\ check.phase = "row" /\ check.row <= Len(rows) /\ UNCHANGED <<disk, rows, root, folds, swaps, swapped>>
      /\ check \in Checks /\ DirType
  BY DEF LookAtRow, DirInv, DirType
<1>2. check.row \in 1..Len(rows) /\ rows[check.row] \in Rows BY <1>1, RowType
<1>3. PICK p \in Paths : p = rows[check.row].path BY <1>2 DEF Rows
<1>4. PICK seen \in SUBSET Paths : seen = check.listed \cup {p} BY <1>1, <1>3 DEF Checks
<1>5. PICK c : c = [check EXCEPT !.listed = seen] OBVIOUS
<1>6. c \in Checks /\ c.phase = "row" /\ c.row = check.row /\ c.onDisk = check.onDisk /\ c.problems = check.problems
      /\ c.listed = seen
  BY <1>1, <1>5 DEF Checks
<1>7. check' = CASE p \in check.listed -> Problem(check, "duplicate_path")
                  [] p \notin check.listed /\ ~SafePath(p) -> Problem(c, "unsafe_path")
                  [] p \notin check.listed /\ SafePath(p) ->
                       CASE Lookup(p) = "absent" -> Problem(c, "missing_file")
                         [] Lookup(p) = "link" -> Problem(c, "unreadable")
                         [] OTHER -> [c EXCEPT !.phase = "open"]
  BY <1>3, <1>4, <1>5 DEF LookAtRow
<1>8. swaps = 0 => SafePath(p) /\ Lookup(p) \in {"one", "two"} BY <1>2, <1>3, AsWritten
<1>9. swaps = 0 => p \notin check.listed
  <2> SUFFICES ASSUME swaps = 0 PROVE p \notin check.listed OBVIOUS
  <2>1. SoFar(check, check.row - 1) BY <1>1 DEF DirInv, Unchanged, Progress, HasCome
  <2>2. \A j \in 1..Len(rows) : p = rows[j].path => check.row = j BY <1>2, <1>3, AsWritten
  <2> QED BY <1>2, <2>1, <2>2 DEF SoFar
<1>10. CASE p \in check.listed
  <2>1. check' = Problem(check, "duplicate_path") BY <1>7, <1>10
  <2> QED BY <1>1, <1>9, <1>10, <2>1, ProblemInv DEF Findings
<1>11. CASE p \notin check.listed /\ ~SafePath(p)
  <2>1. check' = Problem(c, "unsafe_path") BY <1>7, <1>11
  <2> QED BY <1>1, <1>6, <1>8, <1>11, <2>1, ProblemInv DEF Findings
<1>12. CASE p \notin check.listed /\ SafePath(p) /\ Lookup(p) = "absent"
  <2>1. check' = Problem(c, "missing_file") BY <1>7, <1>12
  <2> QED BY <1>1, <1>6, <1>8, <1>12, <2>1, ProblemInv DEF Findings
<1>13. CASE p \notin check.listed /\ SafePath(p) /\ Lookup(p) = "link"
  <2>1. check' = Problem(c, "unreadable") BY <1>7, <1>13
  <2> QED BY <1>1, <1>6, <1>8, <1>13, <2>1, ProblemInv DEF Findings
<1>14. CASE p \notin check.listed /\ SafePath(p) /\ Lookup(p) \notin {"absent", "link"}
  <2>1. check' = [c EXCEPT !.phase = "open"] BY <1>7, <1>14
  <2>2. PICK e : e = [c EXCEPT !.phase = "open"] OBVIOUS
  <2>3. e \in Checks /\ e.phase = "open" /\ e.row = check.row /\ e.onDisk = check.onDisk /\ e.problems = check.problems
        /\ e.listed = seen
    BY <1>6, <2>2 DEF Checks
  <2>4. ~swapped /\ e.problems = {} => SoFar(e, e.row)
    <3> SUFFICES ASSUME ~swapped, e.problems = {} PROVE SoFar(e, e.row) OBVIOUS
    <3>1. SoFar(check, check.row - 1) BY <1>1, <2>3 DEF DirInv, Progress, HasCome
    <3>2. PICK n \in Nat : n = check.row - 1 /\ check.row = n + 1 BY <1>2
    <3>3. check.listed = {rows[i].path : i \in 1..n} BY <3>1, <3>2 DEF SoFar
    <3>4. 1..(n + 1) = (1..n) \cup {n + 1} BY <3>2
    <3>5. seen = {rows[i].path : i \in 1..(n + 1)} BY <1>3, <1>4, <3>2, <3>3, <3>4
    <3>6. \A i, j \in 1..(n + 1) : rows[i].path = rows[j].path => i = j
      <4>1. \A i, j \in 1..n : rows[i].path = rows[j].path => i = j BY <3>1, <3>2 DEF SoFar
      <4>2. \A i \in 1..n : rows[i].path # rows[n + 1].path BY <1>3, <1>14, <3>2, <3>3
      <4> QED BY <3>2, <4>1, <4>2, <3>4
    <3>7. e.onDisk = FilesOnDisk /\ e.row = n + 1 /\ n + 1 <= Len(rows) BY <1>1, <2>3, <3>1, <3>2 DEF SoFar
    <3>8. \A i \in 1..n : rows[i].path \in e.onDisk /\ Lookup(rows[i].path) = rows[i].sha
      BY <2>3, <3>1, <3>2 DEF SoFar
    <3>9. e.row - 1 = n BY <3>2, <3>7
    <3>10. e.listed = {rows[i].path : i \in 1..(n + 1)} BY <2>3, <3>5
    <3> QED BY <3>6, <3>7, <3>8, <3>9, <3>10 DEF SoFar
  <2>5. swaps = 0 => e.problems = {} BY <2>3 DEF DirInv, Unchanged
  <2>6. CallStep(e) BY <1>1, <2>1, <2>2, <2>3, <2>4, <2>5 DEF CallStep, HasCome
  <2> QED BY <2>6, CallStepInv
<1> QED BY <1>10, <1>11, <1>12, <1>13, <1>14

LEMMA HashInv == DirInv /\ HashRow => DirInv'
<1> SUFFICES ASSUME DirInv, HashRow PROVE DirInv' OBVIOUS
<1>1. /\ check.phase = "open" /\ check.row <= Len(rows) /\ UNCHANGED <<disk, rows, root, folds, swaps, swapped>>
      /\ check \in Checks /\ DirType
  BY DEF HashRow, DirInv, DirType
<1>2. check.row \in 1..Len(rows) /\ rows[check.row] \in Rows BY <1>1, RowType
<1>3. PICK r \in Rows : r = rows[check.row] BY <1>2
<1>4. PICK content \in Contents : content = OpenInRoot(r.path) /\ content = Lookup(r.path)
  BY <1>1, LookupType DEF OpenInRoot
<1>5. PICK read \in SUBSET Contents : read = check.read \cup {content} BY <1>1 DEF Checks
<1>6. PICK c : c = [check EXCEPT !.read = read] OBVIOUS
<1>7. c \in Checks /\ c.phase = "open" /\ c.row = check.row /\ c.onDisk = check.onDisk /\ c.problems = check.problems
      /\ c.listed = check.listed
  BY <1>1, <1>6 DEF Checks
<1>8. check' = CASE content = "absent" -> Problem(check, "missing_file")
                  [] content \in {"link", Huge} -> Problem(check, "unreadable")
                  [] content \notin {"absent", "link", Huge} ->
                       CASE r.path \notin check.onDisk -> Problem(c, "unsafe_path")
                         [] r.path \in check.onDisk /\ content # r.sha -> Problem(c, "content_mismatch")
                         [] OTHER -> [c EXCEPT !.phase = "row", !.row = @ + 1]
  BY <1>3, <1>4, <1>5, <1>6 DEF HashRow
<1>9. ~swapped /\ check.problems = {} => SoFar(check, check.row) BY <1>1 DEF DirInv, Progress, HasCome
<1>10. swaps = 0 => content \in {"one", "two"} /\ content = r.sha /\ r.path \in check.onDisk
  <2> SUFFICES ASSUME swaps = 0 PROVE content \in {"one", "two"} /\ content = r.sha /\ r.path \in check.onDisk OBVIOUS
  <2>1. check.onDisk = FilesOnDisk BY <1>9 DEF SoFar, DirInv, Unchanged
  <2> QED BY <1>2, <1>3, <1>4, <2>1, AsWritten
<1>11. CASE content = "absent"
  <2>1. check' = Problem(check, "missing_file") BY <1>8, <1>11 DEF Huge
  <2> QED BY <1>1, <1>10, <1>11, <2>1, ProblemInv DEF Findings
<1>12. CASE content \in {"link", Huge}
  <2>1. check' = Problem(check, "unreadable") BY <1>8, <1>12 DEF Huge
  <2>2. swaps # 0 BY <1>10, <1>12 DEF Huge
  <2> QED BY <1>1, <2>1, <2>2, ProblemInv DEF Findings
<1>13. CASE content \notin {"absent", "link", Huge} /\ r.path \notin check.onDisk
  <2>1. check' = Problem(c, "unsafe_path") BY <1>8, <1>13
  <2> QED BY <1>1, <1>7, <1>10, <1>13, <2>1, ProblemInv DEF Findings
<1>14. CASE content \notin {"absent", "link", Huge} /\ r.path \in check.onDisk /\ content # r.sha
  <2>1. check' = Problem(c, "content_mismatch") BY <1>8, <1>14
  <2> QED BY <1>1, <1>7, <1>10, <1>14, <2>1, ProblemInv DEF Findings
<1>15. CASE content \notin {"absent", "link", Huge} /\ r.path \in check.onDisk /\ content = r.sha
  <2>1. PICK next \in Nat \ {0} : next = c.row + 1 BY <1>7 DEF Checks
  <2>2. check' = [c EXCEPT !.phase = "row", !.row = next] BY <1>8, <1>15, <2>1
  <2>3. PICK e : e = check' OBVIOUS
  <2>4. e \in Checks /\ e.phase = "row" /\ e.row = next /\ e.onDisk = check.onDisk /\ e.problems = check.problems
        /\ e.listed = check.listed
    BY <1>7, <2>2, <2>3 DEF Checks
  <2>5. ~swapped /\ e.problems = {} => SoFar(e, e.row - 1)
    <3> SUFFICES ASSUME ~swapped, e.problems = {} PROVE SoFar(e, e.row - 1) OBVIOUS
    <3>1. SoFar(check, check.row) BY <1>9, <2>4
    <3>2. PICK n \in Nat : n = check.row - 1 /\ check.row = n + 1 /\ e.row - 1 = n + 1 BY <1>2, <1>7, <2>1, <2>4
    <3>3. \A i \in 1..n : rows[i].path \in check.onDisk /\ Lookup(rows[i].path) = rows[i].sha BY <3>1, <3>2 DEF SoFar
    <3>4. rows[n + 1].path \in check.onDisk /\ Lookup(rows[n + 1].path) = rows[n + 1].sha BY <1>3, <1>4, <1>15, <3>2
    <3>5. 1..(n + 1) = (1..n) \cup {n + 1} BY <3>2
    <3>6. \A i \in 1..(n + 1) : rows[i].path \in e.onDisk /\ Lookup(rows[i].path) = rows[i].sha
      BY <2>4, <3>3, <3>4, <3>5
    <3> QED BY <1>1, <2>4, <3>1, <3>2, <3>6 DEF SoFar
  <2>6. swaps = 0 => e.problems = {} BY <2>4 DEF DirInv, Unchanged
  <2>7. CallStep(e) BY <1>1, <2>3, <2>4, <2>5, <2>6 DEF CallStep, HasCome
  <2> QED BY <2>7, CallStepInv
<1> QED BY <1>11, <1>12, <1>13, <1>14, <1>15

LEMMA EndInv == DirInv /\ EndVerify => DirInv'
<1> SUFFICES ASSUME DirInv, EndVerify PROVE DirInv' OBVIOUS
<1>1. /\ check.phase = "row" /\ check.row > Len(rows) /\ UNCHANGED <<disk, rows, root, folds, swaps, swapped>>
      /\ check \in Checks /\ DirType
  BY DEF EndVerify, DirInv, DirType
<1>2. PICK unlisted \in SUBSET {"unlisted_file"} :
        unlisted = IF check.onDisk \ check.listed # {} THEN {"unlisted_file"} ELSE {}
  OBVIOUS
<1>3. PICK mismatch \in SUBSET {"root_mismatch"} :
        mismatch = IF root = NoRootGiven \/ (ManifestRoot(rows) = root /\ root # Ambiguous) THEN {} ELSE {"root_mismatch"}
  OBVIOUS
<1>4. PICK found : found = check.problems \cup unlisted \cup mismatch OBVIOUS
<1>5. found \in SUBSET Findings BY <1>1, <1>2, <1>3, <1>4 DEF Checks, Findings
<1>6. PICK e : e = [check EXCEPT !.phase = "done", !.problems = found] OBVIOUS
<1>7. check' = e BY <1>2, <1>3, <1>4, <1>6 DEF EndVerify
<1>8. e \in Checks /\ e.phase = "done" /\ e.row = check.row /\ e.onDisk = check.onDisk /\ e.problems = found
      /\ e.listed = check.listed
  BY <1>1, <1>5, <1>6 DEF Checks
<1>9. PICK n \in Nat : n = Len(rows) /\ DOMAIN rows = 1..n BY <1>1 DEF DirType
<1>10. ~swapped /\ check.problems = {} => check.row = n + 1 /\ SoFar(check, n)
  <2> SUFFICES ASSUME ~swapped, check.problems = {} PROVE check.row = n + 1 /\ SoFar(check, n) OBVIOUS
  <2>1. SoFar(check, check.row - 1) BY <1>1 DEF DirInv, Progress, HasCome
  <2>2. check.row \in Nat /\ check.row - 1 <= n BY <1>1, <1>9, <2>1 DEF SoFar, Checks
  <2>3. check.row = n + 1 BY <1>1, <1>9, <2>2
  <2> QED BY <2>1, <2>3, <1>9
<1>11. ~swapped /\ found = {} => HasCome(e)
  <2> SUFFICES ASSUME ~swapped, found = {} PROVE HasCome(e) OBVIOUS
  <2>1. check.problems = {} /\ check.onDisk \subseteq check.listed
        /\ (root = NoRootGiven \/ (ManifestRoot(rows) = root /\ root # Ambiguous))
    BY <1>2, <1>3, <1>4
  <2>2. root # NoRootGiven => root = {rows[i] : i \in DOMAIN rows}
    <3>1. ManifestRoot(rows) \in {Ambiguous, {rows[i] : i \in DOMAIN rows}} BY Zenon DEF ManifestRoot
    <3> QED BY <2>1, <3>1
  <2>3. SoFar(e, n) BY <1>8, <1>10, <2>1 DEF SoFar
  <2> QED BY <1>8, <1>9, <1>10, <2>1, <2>2, <2>3 DEF HasCome
<1>12. swaps = 0 => found = {}
  <2> SUFFICES ASSUME swaps = 0 PROVE found = {} OBVIOUS
  <2>1. check.problems = {} /\ ~swapped /\ rows = Listed /\ root = ManifestRoot(Listed) BY DEF DirInv, Unchanged
  <2>2. SoFar(check, n) /\ check.row = n + 1 BY <1>10, <2>1
  <2>3. rows = <<[path |-> "a", sha |-> "one"], [path |-> "d/b", sha |-> "two"]>> BY <2>1 DEF Listed, Row
  <2>4. n = 2 /\ rows[1].path = "a" /\ rows[2].path = "d/b" /\ rows[1].sha = "one" /\ rows[2].sha = "two" BY <1>9, <2>3
  <2>5. check.listed = {"a", "d/b"}
    <3>1. 1..2 = {1, 2} OBVIOUS
    <3> QED BY <2>2, <2>4, <3>1 DEF SoFar
  <2>6. FilesOnDisk = {"a", "d/b"} BY <2>1 DEF FilesOnDisk, DirInv, Unchanged
  <2>7. unlisted = {} BY <1>2, <2>2, <2>5, <2>6 DEF SoFar
  <2>8. ManifestRoot(rows) = root BY <2>1
  <2>9. ManifestRoot(rows) = {rows[i] : i \in DOMAIN rows}
    <3>1. ~ \E i, j \in DOMAIN rows : i # j /\ rows[i].path = rows[j].path BY <1>9, <2>4
    <3>2. ~ \E i \in DOMAIN rows : rows[i].sha = "malformed" BY <1>9, <2>4
    <3> QED BY <3>1, <3>2, Zenon DEF ManifestRoot
  <2>10. root # Ambiguous
    <3>1. rows[1] \in root /\ rows[1].path # "none" BY <1>9, <2>4, <2>8, <2>9
    <3>2. \A x \in Ambiguous : x.path = "none" BY DEF Ambiguous, Row
    <3> QED BY <3>1, <3>2
  <2> QED BY <1>3, <1>4, <2>1, <2>7, <2>8, <2>10
<1>13. CallStep(e) BY <1>1, <1>7, <1>8, <1>11, <1>12 DEF CallStep
<1> QED BY <1>13, CallStepInv

LEMMA DirNextInv == DirInv /\ [DirNext]_dirVars => DirInv'
<1> SUFFICES ASSUME DirInv, [DirNext]_dirVars PROVE DirInv' OBVIOUS
<1>1. CASE UNCHANGED dirVars
  <2>1. DirType' /\ Unchanged' /\ Started' /\ (check.phase = "open" => check.row <= Len(rows))'
    BY <1>1 DEF dirVars, DirInv, DirType, Unchanged, Started
  <2>2. Progress' BY <1>1 DEF dirVars, DirInv, Progress, HasCome, SoFar, FilesOnDisk, Lookup
  <2> QED BY <2>1, <2>2 DEF DirInv
<1> QED BY <1>1, ChangeInv, BeginInv, LookInv, HashInv, EndInv DEF DirNext

\* bundle.VerifyDir, whatever is changed before and during the call, and however often:
\* nothing outside of the directory is read, and a directory called intact that was not
\* changed meanwhile is exactly what its manifest lists.
THEOREM DirectoryReadAlways == DirSpec => []DirectoryRead
<1>1. DirSpec => []DirInv BY DirInitInv, DirNextInv, PTL DEF DirSpec
<1> QED BY <1>1, ProgressShows, PTL

=============================================================================
