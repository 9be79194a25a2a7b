----------------------------- MODULE GuardedDb ------------------------------
(***************************************************************************)
(* internal/safebolt's DB over internal/fault's Guard: one open bbolt file *)
(* used by several goroutines, any call of which may panic on a damaged    *)
(* page.  A panic poisons the handle, which is then abandoned instead of   *)
(* closed.  bbolt is external: one writer at a time behind a lock that a   *)
(* panicking write may keep for good; a write that has to map the file     *)
(* anew, and Close, wait for the open read transactions, and a waiting one *)
(* keeps new readers out.  A panic of the caller's own function rolls its  *)
(* transaction back like an error of it does.                              *)
(***************************************************************************)
EXTENDS Naturals, FiniteSets

CONSTANTS
    Callers,    \* goroutines
    Keepers,    \* those that keep a read transaction across calls (Begin)
    Nobody, Lost, \* Lost: bbolt's writer lock, held by a transaction that panicked
    MaxPanics   \* bound: panics in one behaviour

ASSUME GuardAssumption ==
    /\ Keepers \subseteq Callers /\ {Nobody, Lost} \cap Callers = {} /\ Nobody # Lost
    /\ MaxPanics \in Nat

VARIABLES
    at,        \* per goroutine, the step it is at
    write,     \* Guard.write: its holder, or Nobody
    poisoned,  \* Guard.poisoned
    rwlock,    \* bbolt's writer lock: its holder, Nobody or Lost
    txs,       \* goroutines whose kept transaction bbolt has not ended
    mine,      \* goroutines that have a kept transaction to end
    opened,      \* whether bbolt has the file open
    flock,     \* whether the handle has the file's lock
    gaveUp,    \* whether an abandoning Close stopped waiting for a writer
    panics     \* panics left

guardVars == <<at, write, poisoned, rwlock, txs, mine, opened, flock, gaveUp, panics>>
boltVars  == <<rwlock, txs, opened>>

GuardInit ==
    /\ at = [c \in Callers |-> "idle"]
    /\ write = Nobody /\ poisoned = FALSE /\ rwlock = Nobody
    /\ txs = {} /\ mine = {} /\ opened = TRUE /\ flock = TRUE
    /\ gaveUp = FALSE /\ panics = MaxPanics

GoOn(c, l) == at' = [at EXCEPT ![c] = l]
At(ls) == {c \in Callers : at[c] \in ls}
Reading == At({"view"}) \cup txs
Waiting == At({"remap", "closing"})

\* A goroutine makes a call.  One with a kept transaction reads through it or
\* ends it: bbolt forbids it to write meanwhile.
Enter(c) ==
    /\ at[c] = "idle" /\ c \notin mine
    /\ \E l \in {"Update", "View", "Close"} \cup (IF c \in Keepers THEN {"Begin"} ELSE {}) : GoOn(c, l)
    /\ UNCHANGED <<write, poisoned, boltVars, mine, flock, gaveUp, panics>>

-----------------------------------------------------------------------------
(* Guard *)

\* Mutant of Refused: the flag is not looked at.
RefusedNever == FALSE

\* Run: an earlier call on this handle panicked.
Refused == poisoned

\* Mutant of Alone: a writer does not wait for the one before it.
AloneAny == TRUE

\* RunWrite's lock is free.
Alone == write = Nobody

\* RunWrite's deferred Unlock.
LetGo(c) == IF write = c THEN Nobody ELSE write

Panic == panics > 0 /\ panics' = panics - 1 /\ poisoned' = TRUE

-----------------------------------------------------------------------------
(* Update *)

UpdateLock(c) ==
    /\ at[c] = "Update" /\ Alone /\ write' = c /\ GoOn(c, "update.check")
    /\ UNCHANGED <<poisoned, boltVars, mine, flock, gaveUp, panics>>

UpdateCheck(c) ==
    /\ at[c] = "update.check"
    /\ IF Refused THEN GoOn(c, "idle") /\ write' = LetGo(c)
       ELSE GoOn(c, "update.begin") /\ UNCHANGED write
    /\ UNCHANGED <<poisoned, boltVars, mine, flock, gaveUp, panics>>

\* bbolt: a closed file is an error; otherwise the writer lock is waited for.
UpdateBegin(c) ==
    /\ at[c] = "update.begin"
    /\ \/ opened /\ rwlock = Nobody /\ rwlock' = c /\ GoOn(c, "update") /\ UNCHANGED write
       \/ ~opened /\ GoOn(c, "idle") /\ write' = LetGo(c) /\ UNCHANGED rwlock
    /\ UNCHANGED <<poisoned, txs, opened, mine, flock, gaveUp, panics>>

\* The file has grown: bbolt maps it anew once no transaction reads it.
UpdateRemap(c) ==
    /\ at[c] = "update" /\ GoOn(c, "remap")
    /\ UNCHANGED <<write, poisoned, boltVars, mine, flock, gaveUp, panics>>

\* Committed, rolled back, or rolled back by the panic of the caller's function.
UpdateEnd(c) ==
    /\ at[c] = "update" \/ (at[c] = "remap" /\ Reading = {})
    /\ GoOn(c, "idle") /\ rwlock' = Nobody /\ write' = LetGo(c)
    /\ UNCHANGED <<poisoned, txs, opened, mine, flock, gaveUp, panics>>

\* bbolt panics: whether its writer lock is released is not known.
UpdatePanic(c) ==
    /\ at[c] = "update" /\ Panic
    /\ rwlock' \in {Nobody, Lost}
    /\ GoOn(c, "idle") /\ write' = LetGo(c)
    /\ UNCHANGED <<txs, opened, mine, flock, gaveUp>>

-----------------------------------------------------------------------------
(* View; Begin, Do and Rollback *)

ReadCheck(c, l, next) ==
    /\ at[c] = l /\ GoOn(c, IF Refused THEN "idle" ELSE next)
    /\ UNCHANGED <<write, poisoned, boltVars, mine, flock, gaveUp, panics>>

ViewCheck(c)  == ReadCheck(c, "View", "view.begin")
BeginCheck(c) == ReadCheck(c, "Begin", "begin")

\* A read transaction of bbolt begins, unless the file was closed.
ViewBegin(c) ==
    /\ at[c] = "view.begin" /\ Waiting = {} /\ GoOn(c, IF opened THEN "view" ELSE "idle")
    /\ UNCHANGED <<write, poisoned, boltVars, mine, flock, gaveUp, panics>>

\* A read transaction ends, and does so too when it panics.
ViewEnd(c) ==
    /\ at[c] = "view" /\ GoOn(c, "idle")
    /\ Panic \/ UNCHANGED <<poisoned, panics>>
    /\ UNCHANGED <<write, boltVars, mine, flock, gaveUp>>

BeginTx(c) ==
    /\ at[c] = "begin" /\ Waiting = {} /\ GoOn(c, "idle")
    /\ txs' = IF opened THEN txs \cup {c} ELSE txs
    /\ mine' = IF opened THEN mine \cup {c} ELSE mine
    /\ UNCHANGED <<write, poisoned, rwlock, opened, flock, gaveUp, panics>>

\* A read inside Do panics.
DoPanic(c) ==
    /\ c \in mine /\ ~Refused /\ Panic
    /\ UNCHANGED <<at, write, boltVars, mine, flock, gaveUp>>

\* Rollback runs under the guard: on a poisoned handle nothing is ended.
Rollback(c) ==
    /\ c \in mine /\ mine' = mine \ {c}
    /\ txs' = IF Refused THEN txs ELSE txs \ {c}
    /\ UNCHANGED <<at, write, poisoned, rwlock, opened, flock, gaveUp, panics>>

-----------------------------------------------------------------------------
(* Close *)

CloseCheck(c) ==
    /\ at[c] = "Close" /\ GoOn(c, IF poisoned THEN "abandon" ELSE "close.lock")
    /\ UNCHANGED <<write, poisoned, boltVars, mine, flock, gaveUp, panics>>

CloseLock(c) ==
    /\ at[c] = "close.lock" /\ Alone /\ write' = c /\ GoOn(c, "close.check")
    /\ UNCHANGED <<poisoned, boltVars, mine, flock, gaveUp, panics>>

CloseRun(c) ==
    /\ at[c] = "close.check"
    /\ IF Refused THEN GoOn(c, "abandon") /\ write' = LetGo(c)
       ELSE GoOn(c, "close.begin") /\ UNCHANGED write
    /\ UNCHANGED <<poisoned, boltVars, mine, flock, gaveUp, panics>>

\* bbolt's Close takes the writer lock, then waits for the readers.
CloseBegin(c) ==
    /\ at[c] = "close.begin" /\ rwlock = Nobody /\ rwlock' = c /\ GoOn(c, "closing")
    /\ UNCHANGED <<write, poisoned, txs, opened, mine, flock, gaveUp, panics>>

\* Closed by bbolt; a panic before it returned on another goroutine, or in it,
\* has the handle abandoned all the same.
CloseEnd(c) ==
    /\ at[c] = "closing" /\ write' = LetGo(c)
    /\ \/ /\ Reading = {} /\ opened' = FALSE /\ flock' = FALSE /\ rwlock' = Nobody
          /\ GoOn(c, IF poisoned THEN "abandon" ELSE "idle")
          /\ UNCHANGED <<poisoned, panics>>
       \/ /\ Panic /\ rwlock' \in {Nobody, Lost} /\ GoOn(c, "abandon")
          /\ UNCHANGED <<opened, flock>>
    /\ UNCHANGED <<txs, mine, gaveUp>>

\* Mutant of NoWriter: the lock is released at once.
NoWriterAny == TRUE

\* WaitForWriter's TryLock.
NoWriter == write = Nobody

\* A poisoned handle is abandoned: its file lock is released once no write is
\* running, or after abandonWait.
Abandon(c) ==
    /\ at[c] = "abandon" /\ GoOn(c, "idle") /\ flock' = FALSE
    /\ \/ NoWriter /\ UNCHANGED gaveUp
       \/ write # Nobody /\ gaveUp' = TRUE
    /\ UNCHANGED <<write, poisoned, boltVars, mine, panics>>

-----------------------------------------------------------------------------
\* The process ends, and with it everything a poisoned handle left behind; the
\* next one opens the file.
Restart ==
    /\ at' = [c \in Callers |-> "idle"]
    /\ write' = Nobody /\ poisoned' = FALSE /\ rwlock' = Nobody
    /\ txs' = {} /\ mine' = {} /\ opened' = TRUE /\ flock' = TRUE
    /\ gaveUp' = FALSE /\ UNCHANGED panics

GuardStep(c) ==
    \/ UpdateCheck(c) \/ UpdateBegin(c) \/ UpdateEnd(c) \/ UpdatePanic(c)
    \/ ViewCheck(c) \/ ViewBegin(c) \/ ViewEnd(c) \/ BeginCheck(c) \/ BeginTx(c)
    \/ CloseCheck(c) \/ CloseRun(c) \/ CloseBegin(c) \/ CloseEnd(c) \/ Abandon(c)

GuardNext == Restart \/ \E c \in Callers :
    Enter(c) \/ UpdateLock(c) \/ UpdateRemap(c) \/ CloseLock(c) \/ GuardStep(c) \/ DoPanic(c) \/ Rollback(c)

\* A goroutine that can go on does; Go's mutex is handed to a waiter that has
\* waited long; a kept transaction is ended.
Resumes(c) == UpdateLock(c) \/ CloseLock(c) \/ ViewBegin(c) \/ BeginTx(c)
GuardFairness == \A c \in Callers :
    /\ WF_guardVars(GuardStep(c) \/ Rollback(c))
    /\ SF_guardVars(Resumes(c))

GuardSpec == GuardInit /\ [][GuardNext]_guardVars /\ GuardFairness

-----------------------------------------------------------------------------
(* Properties *)

GuardSteps == {"update.check", "update.begin", "update", "remap", "close.check", "close.begin", "closing"}

\* Guard.write is held by the goroutine inside RunWrite, bbolt's writer lock by
\* the one inside a write transaction or Close.
LocksHeld ==
    /\ write \in Callers \cup {Nobody} /\ rwlock \in Callers \cup {Nobody, Lost}
    /\ \A c \in Callers : write = c <=> at[c] \in GuardSteps
    /\ \A c \in Callers : rwlock = c <=> at[c] \in {"update", "remap", "closing"}
    /\ txs \subseteq Keepers /\ mine \subseteq txs /\ (txs = mine \/ poisoned)
    /\ panics \in 0 .. MaxPanics /\ (poisoned => panics < MaxPanics)

\* Guard.RunWrite ("a writer that waited behind a panicking one returns ErrCorrupt
\* without entering the storage layer"): no goroutine is on its way to bbolt's
\* writer lock once a panic may have kept it.
LostNotAwaited == rwlock = Lost => At({"update.begin", "close.begin"}) = {}

\* DB.Close: the file lock is never released under a write that is inside bbolt
\* or on its way there, unless the wait for it ran out.
ReleasedQuiet == ~flock /\ ~gaveUp => At({"update", "remap"}) = {} /\ (opened => At({"update.begin"}) = {})

\* "A damaged one is an error, never a crash or a hang": every call returns, as
\* long as no kept transaction was dropped on a poisoned handle.  (A write already
\* inside bbolt that has to map the file anew then waits for it for good, and with
\* it every write queued behind.)
CallsReturn == \A c \in Callers : at[c] # "idle" ~> at[c] = "idle" \/ txs # mine

=============================================================================
