----------------------------- MODULE NonceFile ------------------------------
(***************************************************************************)
(* internal/noncestore: the file beside an evidence database that keeps    *)
(* the nonces of salted entries, its lock file, and the rewrite that takes *)
(* deleted nonces out of it.  A nonce is drawn for one entry, so the       *)
(* entry's id stands for both.  A deleted value stays in a free page until *)
(* the file is rewritten; a rewrite that is cut off leaves its copy beside *)
(* the file.  bbolt's own lock is on the inode of the nonce file: it is    *)
(* free whenever the lock file is held, and is left out.                   *)
(***************************************************************************)
EXTENDS Naturals, FiniteSets

CONSTANTS
    Procs,      \* processes that open the nonce file
    None,
    MaxFaults   \* bound: failed operations and killed processes in one behaviour

VARIABLES
    nfile,   \* the nonce file: its stored nonces and those in free pages, or None
    nlock,   \* the lock file: its exclusive holder or None, and its shared holders
    handle,  \* per process, the inode its open nonce file is: "current", "replaced" or None
    copy,    \* per process, the nonces in the copy its rewrite has made so far, or None
    left,    \* nonces in the copies of rewrites that were cut off
    faults   \* faults left to inject

nonceVars == <<nfile, nlock, handle, copy, left>>

NonceInit ==
    /\ nfile = None
    /\ nlock = [ex |-> None, sh |-> {}]
    /\ handle = [p \in Procs |-> None]
    /\ copy = [p \in Procs |-> None]
    /\ left = {} /\ faults = MaxFaults

Fault == faults > 0 /\ faults' = faults - 1

Stored == IF nfile = None THEN {} ELSE nfile.live

\* Every place on the disk that holds a nonce's bytes.
OnDisk == (IF nfile = None THEN {} ELSE nfile.live \cup nfile.free)
          \cup left \cup UNION {copy[p] : p \in {q \in Procs : copy[q] # None}}

-----------------------------------------------------------------------------
(* lockFile, unlockFile *)

LockEx(p) == /\ nlock = [ex |-> None, sh |-> {}]
             /\ nlock' = [nlock EXCEPT !.ex = p]
LockSh(p) == /\ nlock.ex = None
             /\ nlock' = [nlock EXCEPT !.sh = @ \cup {p}]
Unlocked(p) == [ex |-> IF nlock.ex = p THEN None ELSE nlock.ex, sh |-> nlock.sh \ {p}]
Unlock(p) == nlock' = Unlocked(p)

\* The lock was held past the timeout, or the open failed.
CannotOpen(p) == \/ (nlock.ex # None \/ nlock.sh # {}) /\ UNCHANGED faults
                 \/ Fault

-----------------------------------------------------------------------------
(* Open creates the file; OpenReadOnly does not. *)

Open(p) ==
    /\ LockEx(p)
    /\ nfile' = IF nfile = None THEN [live |-> {}, free |-> {}] ELSE nfile
    /\ handle' = [handle EXCEPT ![p] = "current"]
    /\ UNCHANGED <<copy, left>>

OpenReadOnly(p) ==
    /\ nfile # None /\ LockSh(p)
    /\ handle' = [handle EXCEPT ![p] = "current"]
    /\ UNCHANGED <<nfile, copy, left>>

Close(p) == Unlock(p) /\ handle' = [handle EXCEPT ![p] = None] /\ UNCHANGED <<copy, left>>

\* A transaction reaches the nonce file only through its current inode.
Write(p, file) == nfile' = IF handle[p] = "current" THEN file ELSE nfile

\* PutBatch, and then Close.
PutBatch(p, ids) == Write(p, [nfile EXCEPT !.live = @ \cup ids]) /\ Close(p)

\* Delete of each id that is there, and then Close.
DeleteAll(p, ids) ==
    /\ Write(p, [live |-> nfile.live \ ids, free |-> nfile.free \cup (nfile.live \cap ids)])
    /\ Close(p)

-----------------------------------------------------------------------------
(* Compact *)

\* The lock is held from before the copy until after the rename.
CompactLock(p) == LockEx(p)

\* Mutant of Cleared: copies of earlier rewrites are left where they are.
ClearedNone == left

\* What is left of earlier rewrites' copies when a rewrite starts.
Cleared == {}

\* Take the lock, remove the copies of earlier rewrites, make an empty copy.
CompactBegin(p) ==
    /\ CompactLock(p)
    /\ left' = Cleared
    /\ copy' = [q \in Procs |-> IF q = p THEN {} ELSE None]
    /\ UNCHANGED <<nfile, handle>>

\* Mutant of Copied: the copy is the file, free pages and all.
CopiedWhole == nfile.live \cup nfile.free

\* safebolt.Compact copies key by key: free pages are not copied.
Copied == nfile.live

CompactCopy(p) == copy' = [copy EXCEPT ![p] = Copied] /\ UNCHANGED <<nfile, nlock, handle, left>>

\* Rename the synced copy over the file, sync the directory, release the lock.
\* A process that had the file open has an inode no name leads to any more.
CompactRename(p) ==
    /\ nfile' = [live |-> copy[p], free |-> {}]
    /\ handle' = [q \in Procs |-> IF handle[q] = "current" THEN "replaced" ELSE handle[q]]
    /\ copy' = [copy EXCEPT ![p] = None]
    /\ Unlock(p) /\ UNCHANGED left

\* A step of the rewrite fails: the copy is removed and the file is as it was.
CompactFails(p) ==
    /\ copy' = [copy EXCEPT ![p] = None]
    /\ Unlock(p) /\ UNCHANGED <<nfile, handle, left>>

\* The process is killed: the kernel drops its locks, a copy stays.
Killed(p) ==
    /\ Unlock(p)
    /\ handle' = [handle EXCEPT ![p] = None]
    /\ left' = left \cup (IF copy[p] = None THEN {} ELSE copy[p])
    /\ copy' = [copy EXCEPT ![p] = None]
    /\ UNCHANGED nfile
=============================================================================
