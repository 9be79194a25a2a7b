------------------------------ MODULE Readers -------------------------------
(* A sink folder with its writers, and a reader that goes through it while    *)
(* they work.                                                                 *)
EXTENDS SinkVerify, SinkExport

vars == <<folderVars, run, export>>

Init == FolderInit /\ run = NoRun /\ export = NoExport

Busy(reader) == reader.at \notin {"idle", "done", "failed"}

\* History: everything that befell a chain since the call began.
Feels(reader) == IF Busy(reader) THEN [reader EXCEPT !.felt = [c \in Chains |-> @[c] \cup harm'[c]]]
                 ELSE reader

\* One reader at a time: readers do not touch the folder, so they do not meet.
Next ==
    \/ /\ FolderStep /\ run.at # "done" /\ export.at \notin {"done", "failed"}
       /\ run' = Feels(run) /\ export' = Feels(export)
    \/ VerifyStep /\ export.at = "idle" /\ UNCHANGED <<folderVars, export>>
    \/ ExportStep /\ run.at = "idle" /\ UNCHANGED <<folderVars, run>>

Spec == Init /\ [][Next]_vars

-----------------------------------------------------------------------------
(* Properties *)

\* Rows are about ids the folder gave out, and a report about its chains.
TypeOK ==
    /\ \A c \in Chains : folder[c].index \in {"absent", "live", "pending", "malformed"}
    /\ \A c \in Chains : folder[c].secrets \cup folder[c].sigs \cup Ids(folder[c]) \subseteq 1..(folder[c].next - 1)
    /\ run.removed \cup run.erased \cup run.reported \subseteq Chains
    /\ ops \in 0..MaxOps

\* Whatever is committed, erased and repaired between its pages, Verify reports no
\* problem of a chain that nothing befell: no call on it stopped half-way, no
\* checkpoint of it was being written, nobody changed its rows.
NoFalseAlarm ==
    run.at = "done" =>
        \A c \in Chains : run.problems[c] \ {"no checkpoint"} # {} => run.felt[c] # {}

\* A chain is called removed only if its entries, or its index row, were taken away
\* or its first commit stopped while Verify was running: a commit that stopped
\* before is known from its index row.
RemovedWasRemoved ==
    run.at = "done" =>
        \A c \in run.removed :
            \/ run.felt[c] \cap {"remove", "truncate", "unbind", "reverse", "forward"} # {}
            \/ "cut" \in run.felt[c] \ run.began[c]

\* What was changed behind the sink's back before the call is found by it, unless
\* there is nothing to see: an erasure entry added with the content taken away is
\* what an erasure looks like, an index row without any other row leaves no trace,
\* and signatures are only checked against record keys.
Reported(c) == run.problems[c] # {} \/ run.invalid
Detectable(kind) == kind \notin {"forge", "unbind"} /\ (kind = "unsign" => run.opts.trust)
DamageFound ==
    run.at = "done" =>
        \A c \in Chains : struck[c] # "nothing" /\ struck[c] = run.since[c] /\ Detectable(struck[c]) => Reported(c)

\* A chain is reported erased only if the sink erased it: an erasure entry written by
\* somebody else has no checkpoint and no signature.
ErasedByTheSink == run.at = "done" => run.erased \subseteq erased

\* No content of a chain whose erasure began before the chain was read is
\* written out, however far the erasure has come and however the export ends, unless
\* somebody undid the erasure behind the sink's back: added an event after it, or put
\* the index row back and cut the erasure entry off.
Undone(felt) == "follow" \in felt \/ ("relink" \in felt /\ felt \cap {"truncate", "remove"} # {})
ForgottenWithheld ==
    \A x \in export.bundle :
        x.forgotten /\ ~Undone(export.felt[x.chain]) => x.disclosed = {}

\* What a bundle says of one chain fits together although writers worked between its
\* chains: nothing is disclosed that is not a live event of the entries written, each
\* checkpoint is of those, and each entry has its signature.
BundleConsistent ==
    export.at = "done" =>
        \A x \in export.bundle :
            /\ x.disclosed \subseteq Ids(x)
            /\ export.felt[x.chain] = {} =>
                 /\ ~SeriesFails(x)
                 /\ x.sigs = Ids(x)
                 /\ EndsErased(x) => x.disclosed = {}

\* What Verify reports is true of the folder: no false alarm, nothing called removed
\* that was not removed, nothing called erased that the sink did not erase.
VerdictsTrue == TypeOK /\ NoFalseAlarm /\ RemovedWasRemoved /\ ErasedByTheSink

=============================================================================
