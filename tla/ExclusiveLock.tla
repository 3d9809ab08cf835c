--------------------------- MODULE ExclusiveLock ---------------------------
(***************************************************************************)
(* The directory mutex of packages/core/src/store/exclusive.ts: every      *)
(* read-change-write store under ~/.memnox (grants, leases, ...) runs its  *)
(* change inside exclusively(dir, work).  The lock is a directory made     *)
(* with mkdir, which fails with EEXIST when it is there; a waiter that     *)
(* finds it looks at its age, removes it when it is older than STALE_MS,   *)
(* sleeps and tries again, at most ATTEMPTS times.  Looking and removing   *)
(* are two file operations, and rm removes whatever lock is there by then. *)
(*                                                                         *)
(* The work is the read-change-write of the store's file, which is what    *)
(* the lock is for; a process may die anywhere and leaves its lock behind, *)
(* and any of the file operations may fail.                                *)
(***************************************************************************)
EXTENDS Naturals, FiniteSets

CONSTANTS
    Proc,         \* the processes sharing the store
    Nobody,       \* no lock directory
    ATTEMPTS,     \* tries before exclusively() throws (200 in the code)
    MaxFaults,    \* bound: processes that die, file operations that fail
    Slow          \* whether honest work may outlast STALE_MS

ASSUME ProcAssumption == Nobody \notin Proc
ASSUME LockAttemptsAssumption == ATTEMPTS \in Nat \ {0}
ASSUME MaxFaultsAssumption == MaxFaults \in Nat
ASSUME SlowAssumption == Slow \in BOOLEAN

VARIABLES
    lock,      \* who made the lock directory that is there, or Nobody
    stale,     \* that directory is older than STALE_MS
    pc,        \* where each process is in exclusively()
    attempt,   \* its loop counter
    fresh,     \* history: the processes that read the file since it was last written
    lost,      \* history: a write replaced a change its writer had not read
    aged,      \* history: some lock has been older than STALE_MS
    faults     \* how many processes died and file operations failed

lockVars == <<lock, stale, pc, attempt, fresh, lost, aged, faults>>

PC == {"idle", "mkdir", "stat", "reclaim", "sleep", "read", "write",
       "release", "done", "threw", "crashed"}

(* Inside work(): between the mkdir that succeeded and the rm in finally. *)
Inside(p) == pc[p] \in {"read", "write"}

(* The lock it made is its own to remove. *)
Holding(p) == Inside(p) \/ pc[p] = "release"

(* A lock nobody is going to remove but by reclaiming it. *)
LeftBehind == lock # Nobody /\ ~Holding(lock)

LockTypeOK ==
    /\ lock \in Proc \cup {Nobody}
    /\ stale \in BOOLEAN
    /\ pc \in [Proc -> PC]
    /\ attempt \in [Proc -> 0 .. ATTEMPTS]
    /\ fresh \in SUBSET Proc
    /\ lost \in BOOLEAN
    /\ aged \in BOOLEAN
    /\ faults \in 0 .. MaxFaults

LockInit ==
    /\ lock = Nobody
    /\ stale = FALSE
    /\ pc = [p \in Proc |-> "idle"]
    /\ attempt = [p \in Proc |-> 0]
    /\ fresh = {}
    /\ lost = FALSE
    /\ aged = FALSE
    /\ faults = 0

StepsTo(p, next) == pc' = [pc EXCEPT ![p] = next]

RemoveLock == lock' = Nobody /\ stale' = FALSE

(* A call begins; the store's directory is made first, which never fails   *)
(* because it is there.                                                    *)
Call(p) ==
    /\ pc[p] \in {"idle", "done", "threw"}
    /\ StepsTo(p, "mkdir")
    /\ attempt' = [attempt EXCEPT ![p] = 0]
    /\ UNCHANGED <<lock, stale, fresh, lost, aged, faults>>

(* Mutant: a lock taken without looking whether one is there. *)
MkdirTakesAnyway(p) ==
    /\ pc[p] = "mkdir"
    /\ lock' = p
    /\ stale' = FALSE
    /\ StepsTo(p, "read")
    /\ UNCHANGED <<attempt, fresh, lost, aged, faults>>

MkdirTakes(p) ==
    /\ pc[p] = "mkdir"
    /\ lock = Nobody
    /\ lock' = p
    /\ stale' = FALSE
    /\ StepsTo(p, "read")
    /\ UNCHANGED <<attempt, fresh, lost, aged, faults>>

MkdirExists(p) ==
    /\ pc[p] = "mkdir"
    /\ lock # Nobody
    /\ StepsTo(p, "stat")
    /\ UNCHANGED <<lock, stale, attempt, fresh, lost, aged, faults>>

(* Mutant: a reclaim that trusts every lock it finds to have a live holder. *)
StatNeverReclaims(p) ==
    /\ pc[p] = "stat"
    /\ StepsTo(p, "sleep")
    /\ UNCHANGED <<lock, stale, attempt, fresh, lost, aged, faults>>

(* reclaimStale, first half: a lock that has gone or is young is left. *)
Stat(p) ==
    /\ pc[p] = "stat"
    /\ StepsTo(p, IF lock # Nobody /\ stale THEN "reclaim" ELSE "sleep")
    /\ UNCHANGED <<lock, stale, attempt, fresh, lost, aged, faults>>

(* reclaimStale, second half: rm with force, whichever lock is there now. *)
Reclaim(p) ==
    /\ pc[p] = "reclaim"
    /\ RemoveLock
    /\ StepsTo(p, "sleep")
    /\ UNCHANGED <<attempt, fresh, lost, aged, faults>>

(* The sleep ends: the next try, or the error after the last one. *)
Retry(p) ==
    /\ pc[p] = "sleep"
    /\ attempt' = [attempt EXCEPT ![p] = @ + 1]
    /\ StepsTo(p, IF attempt[p] + 1 < ATTEMPTS THEN "mkdir" ELSE "threw")
    /\ UNCHANGED <<lock, stale, fresh, lost, aged, faults>>

WorkReads(p) ==
    /\ pc[p] = "read"
    /\ fresh' = fresh \cup {p}
    /\ StepsTo(p, "write")
    /\ UNCHANGED <<lock, stale, attempt, lost, aged, faults>>

WorkWrites(p) ==
    /\ pc[p] = "write"
    /\ fresh' = {}
    /\ lost' = (lost \/ p \notin fresh)
    /\ StepsTo(p, "release")
    /\ UNCHANGED <<lock, stale, attempt, aged, faults>>

(* work() rejects, or returns without a change: finally runs all the same. *)
WorkEndsEarly(p) ==
    /\ Inside(p)
    /\ StepsTo(p, "release")
    /\ UNCHANGED <<lock, stale, attempt, fresh, lost, aged, faults>>

(* The rm in finally, again whichever lock is there now. *)
ReleaseLock(p) ==
    /\ pc[p] = "release"
    /\ RemoveLock
    /\ StepsTo(p, "done")
    /\ UNCHANGED <<attempt, fresh, lost, aged, faults>>

Step(p) ==
    \/ Call(p)
    \/ MkdirTakes(p)
    \/ MkdirExists(p)
    \/ Stat(p)
    \/ Reclaim(p)
    \/ Retry(p)
    \/ WorkReads(p)
    \/ WorkWrites(p)
    \/ WorkEndsEarly(p)
    \/ ReleaseLock(p)

(* The process dies: its lock, if it has one, stays. *)
Crash(p) ==
    /\ pc[p] \notin {"idle", "done", "threw", "crashed"}
    /\ faults < MaxFaults
    /\ faults' = faults + 1
    /\ StepsTo(p, "crashed")
    /\ UNCHANGED <<lock, stale, attempt, fresh, lost, aged>>

(* A file operation fails in another way than the loop is for: mkdir and   *)
(* the rm in finally throw, reclaimStale swallows it.                      *)
FileFails(p) ==
    /\ pc[p] \in {"mkdir", "stat", "reclaim", "release"}
    /\ faults < MaxFaults
    /\ faults' = faults + 1
    /\ StepsTo(p, IF pc[p] \in {"stat", "reclaim"} THEN "sleep" ELSE "threw")
    /\ UNCHANGED <<lock, stale, attempt, fresh, lost, aged>>

(* STALE_MS passes over one lock.  "Longer than any honest critical        *)
(* section": without Slow only a lock left behind gets that old.           *)
Age ==
    /\ lock # Nobody
    /\ ~stale
    /\ Slow \/ LeftBehind
    /\ stale' = TRUE
    /\ aged' = TRUE
    /\ UNCHANGED <<lock, pc, attempt, fresh, lost, faults>>

LockNext ==
    \/ \E p \in Proc : Step(p) \/ Crash(p) \/ FileFails(p)
    \/ Age

LockSpec == LockInit /\ [][LockNext]_lockVars

(* Every live process keeps going (timers fire, file operations return)    *)
(* and keeps calling; time passes.  Faults are never owed.                 *)
LockFairness ==
    /\ \A p \in Proc : WF_lockVars(Step(p))
    /\ WF_lockVars(Age)

FairLockSpec == LockSpec /\ LockFairness

----------------------------------------------------------------------------
(* Two processes are never both inside work(), which is what "One writer   *)
(* at a time across processes" (exclusive.ts:5) promises every store.      *)
OneWriter ==
    \A p, q \in Proc : Inside(p) /\ Inside(q) => p = q

(* The same, as long as no lock ever grew older than STALE_MS: faults of  *)
(* processes that hold nothing, throwing work and any interleaving of      *)
(* retries never put two processes in work() at once.                      *)
OneWriterUntilStale == ~aged => OneWriter

(* And then no store loses an update: no process writes back a copy of the *)
(* file that another one has changed since it was read.                    *)
NoLostUpdateUntilStale == ~aged => ~lost

(* A lock left by a dead process, or by an rm that failed, does not shut   *)
(* the store for good: while somebody keeps calling, it is removed         *)
(* (reclaimStale).                                                         *)
CrashNeverWedges == LeftBehind ~> ~LeftBehind

=============================================================================
