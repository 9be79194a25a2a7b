----------------------------- MODULE ChainStore -----------------------------
(***************************************************************************)
(* The store port as the bbolt adapter implements it: entries keyed by     *)
(* chain and position, head states, and leases, in one file.  Each         *)
(* operation is one transaction; bbolt runs one write transaction at a     *)
(* time.  The writers are goroutines of the one process that holds the     *)
(* file's exclusive lock.  A Store that was closed answers every later     *)
(* call on it with an error.                                               *)
(***************************************************************************)
EXTENDS Integers, Sequences

CONSTANTS
    Chains, Writers,
    None,
    Landed,     \* whether a transaction may report an error after it reached the disk
    MaxFaults   \* bound: failed transactions and crashes in one behaviour

ASSUME StoreAssumption ==
    /\ None \notin Writers
    /\ None \notin [pos : Nat, hash : Seq(Nat \X Nat)]    \* nor a saved head
    /\ Landed \in BOOLEAN /\ MaxFaults \in Nat

VARIABLES
    rows,    \* entries: per chain, position -> entry
    heads,   \* saved head states: per chain, the position and hash of an entry, or None
    leases,  \* per chain, the token of its appender (the writer it was drawn by), or None
    open,    \* whether a process has the file open
    stale,   \* the writers whose Store was closed under them
    faults   \* faults left to inject

fileVars  == <<rows, heads, leases>>
storeVars == <<fileVars, open, stale, faults>>

StoreInit ==
    /\ rows = [c \in Chains |-> <<>>]
    /\ heads = [c \in Chains |-> None]
    /\ leases = [c \in Chains |-> None]
    /\ open = TRUE /\ stale = {} /\ faults = MaxFaults

-----------------------------------------------------------------------------
(* Reads.  A hash is the sequence of everything linked up to its entry: an  *)
(* injective stand-in for the chain hash.                                   *)

\* tailOf: the position after the last entry of a chain and that entry's hash.
\* Position n is the code's GlobalSeq n - 1.
LastAt(f) == CHOOSE n \in DOMAIN f : \A m \in DOMAIN f : m <= n
\* Mutant of NextPos: the saved head is trusted.
NextPosFromHead(c) == IF heads[c] = None THEN 1 ELSE heads[c].pos + 1
NextPos(c)  == IF DOMAIN rows[c] = {} THEN 1 ELSE LastAt(rows[c]) + 1
TailHash(c) == IF DOMAIN rows[c] = {} THEN <<>> ELSE rows[c][LastAt(rows[c])].hash

-----------------------------------------------------------------------------
(* Transactions *)

\* putEntries: a write at an occupied position replaces it.
Put(old, new) == [n \in (DOMAIN old) \cup (DOMAIN new) |-> IF n \in DOMAIN new THEN new[n] ELSE old[n]]

HeadOf(new) == [pos |-> LastAt(new), hash |-> new[LastAt(new)].hash]

\* CheckAppend, for one chain: the entries continue the tail, each linked to the
\* one before it.
IsAppend(c, new) ==
    /\ DOMAIN new # {}
    /\ \A n \in DOMAIN new :
          /\ n >= NextPos(c) /\ (n = NextPos(c) \/ n - 1 \in DOMAIN new)
          /\ new[n].prev = IF n = NextPos(c) THEN TailHash(c) ELSE new[n - 1].hash

\* WriteBatch, one chain's entries.
WriteBatch(c, new) == rows' = [rows EXCEPT ![c] = Put(@, new)]

PutState(c, head) == heads' = [heads EXCEPT ![c] = head]

\* Mutant of Unleased: UpdateChains does not look at the leases.
UnleasedIgnored(cs) == TRUE

Unleased(cs) == \A c \in cs : leases[c] = None

\* UpdateChains: entries and heads of every chain in one transaction.
UpdateChains(new) ==
    /\ \A c \in DOMAIN new : IsAppend(c, new[c])
    /\ rows' = [c \in Chains |-> IF c \in DOMAIN new THEN Put(rows[c], new[c]) ELSE rows[c]]
    /\ heads' = [c \in Chains |-> IF c \in DOMAIN new THEN HeadOf(new[c]) ELSE heads[c]]

Acquire(w, c) == leases[c] = None /\ leases' = [leases EXCEPT ![c] = w]

\* Refused unless the token is the holder's.
Release(w, c) == leases[c] = w /\ leases' = [leases EXCEPT ![c] = None]

\* Whether writer w's handle works, and what its transactions may do.
Usable(w) == open /\ w \notin stale
NoFault   == UNCHANGED <<open, stale, faults>>
Fault     == faults > 0 /\ faults' = faults - 1 /\ UNCHANGED <<open, stale>>

\* A transaction of w that returns an error: the Store is closed, it was rolled
\* back, or it is on the disk all the same.
TxError(w, landed) ==
    \/ ~Usable(w) /\ NoFault /\ UNCHANGED fileVars
    \/ Usable(w) /\ Fault /\ (UNCHANGED fileVars \/ (Landed /\ landed))

-----------------------------------------------------------------------------
(* Open and Close *)

\* Open takes the exclusive file lock, so every stored lease is a dead writer's.
\* Mutant of Cleared: leases outlive the process that took them.
ClearedNever == UNCHANGED leases
Cleared == leases' = [c \in Chains |-> None]

Open ==
    /\ ~open /\ open' = TRUE
    /\ Cleared
    /\ UNCHANGED <<rows, heads, stale, faults>>

=============================================================================
