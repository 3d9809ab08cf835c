----------------------------- MODULE LeaseGate -----------------------------
(***************************************************************************)
(* What a session does before it writes: LeaseGate.claim of                *)
(* packages/core/src/coordination/lease-gate.ts, over the register of      *)
(* LeaseRegister and the workspace's register (CloudLeases, shared-        *)
(* leases.ts), whose answer is all the gate sees of other machines.  The   *)
(* gate waits between its calls on the register, so the register moves     *)
(* under it: others claim, release, expire, die or are taken over.         *)
(***************************************************************************)
EXTENDS LeaseRegister

CONSTANTS
    Asks,        \* the places each session may come to write
    Elsewhere,   \* the paths another machine holds now and then
    Reachable,   \* the workspace answers
    Attempts     \* polls in waitOut: ceil(budget / pollMs), at least 1

(* Only the parts of one file are told apart: a directory is claimed whole *)
(* (git-region.ts:48).                                                     *)
ASSUME DirectoryAssumption ==
    \A p, q \in Place : <<p.path, q.path>> \in Under /\ p.path # q.path => q.region = Whole
ASSUME AsksAssumption == Asks \in [Holder -> SUBSET Place]
ASSUME IdAssumption == None \notin Id
ASSUME ElsewhereAssumption == Elsewhere \subseteq Path
ASSUME ReachableAssumption == Reachable \in BOOLEAN
ASSUME AttemptsAssumption == Attempts \in Nat \ {0}

VARIABLES
    stage,       \* where each session is in claim(), or its last verdict
    want,        \* the place it asked for
    mine,        \* the lease the register gave it for that
    holding,     \* the lease in its way
    tries,       \* polls made in waitOut
    made         \* history: the lease this claim made, until its verdict

gateVars == <<stage, want, mine, holding, tries, made>>
vars == <<leases, gateVars>>

Proceeds == {"taken", "waited", "took_over"}
Verdict == Proceeds \cup {"refused", "timed_out"}
Rest == {"idle"} \cup Verdict

GateTypeOK ==
    /\ stage \in [Holder -> Rest \cup {"confirm", "give_back", "ask", "wait",
                                       "force", "retake"}]
    /\ want \in [Holder -> Place \cup {None}]
    /\ mine \in [Holder -> Id \cup {None}]
    /\ holding \in [Holder -> Id \cup {None}]
    /\ tries \in [Holder -> 0 .. Attempts - 1]
    /\ made \in [Holder -> Id \cup {None}]

TypeOK == LeasesTypeOK /\ GateTypeOK

Init ==
    /\ LeasesInit
    /\ stage = [h \in Holder |-> "idle"]
    /\ want = [h \in Holder |-> None]
    /\ mine = [h \in Holder |-> None]
    /\ holding = [h \in Holder |-> None]
    /\ tries = [h \in Holder |-> 0]
    /\ made = [h \in Holder |-> None]

Goto(h, next) == stage' = [stage EXCEPT ![h] = next]

(* Lease ids are never used twice: a new lease may have the slot of a      *)
(* record that is over, which forget() would free, but not of one another  *)
(* session still refers to.                                                *)
NewToOthers(h, i) ==
    InForce(i) \/ \A k \in Holder \ {h} : i \notin {mine[k], holding[k]}

(* The claim is over, and nothing is written by a lease of its own. *)
StandDown(h, verdict) ==
    /\ Goto(h, verdict)
    /\ want' = [want EXCEPT ![h] = None]
    /\ mine' = [mine EXCEPT ![h] = None]
    /\ holding' = [holding EXCEPT ![h] = None]
    /\ made' = [made EXCEPT ![h] = None]

(* take() as the gate calls it. *)
Taken(h, place, i) ==
    /\ NewToOthers(h, i)
    /\ \E m \in Minutes : TakeTaken(h, place, m, i)
    /\ mine' = [mine EXCEPT ![h] = i]
    /\ holding' = [holding EXCEPT ![h] = None]

(* claim(): the first take, TAKEN or HELD_BY_ANOTHER. *)
Claim(h, place) ==
    /\ stage[h] \in Rest
    /\ want' = [want EXCEPT ![h] = place]
    /\ UNCHANGED tries
    /\ \/ \E i \in Id :
             /\ Taken(h, place, i)
             /\ made' = [made EXCEPT ![h] = IF InForce(i) THEN None ELSE i]
             /\ Goto(h, "confirm")
       \/ \E i \in Id :
             /\ TakeBlocked(h, place, i)
             /\ mine' = [mine EXCEPT ![h] = None]
             /\ holding' = [holding EXCEPT ![h] = i]
             /\ made' = [made EXCEPT ![h] = None]
             /\ Goto(h, "ask")

(* What the workspace may say of the place: another machine has it. *)
MayBeElsewhere(place) ==
    Reachable /\ \E p \in Elsewhere : Conflicts(p, place.path)

(* confirmShared: no holder known, or nothing known at all, lets it write. *)
ConfirmShared(h) ==
    /\ stage[h] = "confirm"
    /\ \/ MayBeElsewhere(want[h]) /\ Goto(h, "give_back") /\ UNCHANGED made
       \/ Goto(h, "taken") /\ made' = [made EXCEPT ![h] = None]
    /\ UNCHANGED <<leases, want, mine, holding, tries>>

(* Mutant: the local lease stays where it is. *)
GiveBackNothing(h) ==
    /\ stage[h] = "give_back"
    /\ StandDown(h, "refused")
    /\ UNCHANGED <<leases, tries>>

(* Another machine has it, so the local lease goes back. *)
GiveBack(h) ==
    /\ stage[h] = "give_back"
    /\ Release(h, mine[h]) \/ (leases[mine[h]] = None /\ UNCHANGED leases)
    /\ StandDown(h, "refused")
    /\ UNCHANGED tries

(* ask(): nobody to ask, or "wait"; "take" with a reason, which needs a    *)
(* slot for the lease it will make; or stand down, which is also what      *)
(* taking without a reason comes to.                                       *)
AnswerIsWait(h) ==
    /\ stage[h] = "ask"
    /\ Goto(h, "wait")
    /\ holding' = [holding EXCEPT ![h] = None]
    /\ UNCHANGED <<leases, want, mine, tries, made>>

AnswerIsTake(h) ==
    /\ stage[h] = "ask"
    /\ \E j \in Id \ {holding[h]} :
          /\ ~InForce(j) /\ NewToOthers(h, j)
          /\ mine' = [mine EXCEPT ![h] = j]
    /\ Goto(h, "force")
    /\ UNCHANGED <<leases, want, holding, tries, made>>

AnswerIsRefuse(h) ==
    /\ stage[h] = "ask"
    /\ StandDown(h, "refused")
    /\ UNCHANGED <<leases, tries>>

(* Mutant: a wait with no count, for a clock that does not advance. *)
WaitOutUncounted(h) ==
    /\ stage[h] = "wait"
    /\ \/ \E i \in Id : Taken(h, want[h], i) /\ Goto(h, "waited")
       \/ \E i \in Id : TakeBlocked(h, want[h], i) /\ UNCHANGED <<mine, holding, stage>>
    /\ UNCHANGED <<want, tries, made>>

(* waitOut, one poll: the whole take again, one poll fewer left, or none. *)
WaitOut(h) ==
    /\ stage[h] = "wait"
    /\ \/ /\ \E i \in Id : Taken(h, want[h], i)
          /\ Goto(h, "waited")
          /\ tries' = [tries EXCEPT ![h] = 0]
          /\ UNCHANGED <<want, made>>
       \/ /\ \E i \in Id : TakeBlocked(h, want[h], i)
          /\ tries[h] + 1 < Attempts
          /\ tries' = [tries EXCEPT ![h] = @ + 1]
          /\ UNCHANGED <<stage, want, mine, holding, made>>
       \/ /\ \E i \in Id : TakeBlocked(h, want[h], i)
          /\ tries[h] + 1 >= Attempts
          /\ tries' = [tries EXCEPT ![h] = 0]
          /\ StandDown(h, "timed_out")

(* waitOut: the deadline comes before the count runs out, or the lease in  *)
(* the way ran out before the wait began; the path is not tried again.     *)
WaitEnds(h) ==
    /\ stage[h] = "wait"
    /\ tries' = [tries EXCEPT ![h] = 0]
    /\ StandDown(h, "timed_out")
    /\ UNCHANGED leases

(* takeOver, first call: of the lease found in the way, by its id. *)
ForceTake(h) ==
    /\ stage[h] = "force"
    /\ \/ TakeOver(holding[h], h, mine[h])
       \/ TakeOverNotFound(holding[h])
    /\ Goto(h, "retake")
    /\ mine' = [mine EXCEPT ![h] = None]
    /\ holding' = [holding EXCEPT ![h] = None]
    /\ UNCHANGED <<want, tries, made>>

(* takeOver, second call: the verdict is took-over whatever take() says. *)
Retake(h) ==
    /\ stage[h] = "retake"
    /\ \/ \E i \in Id, m \in Minutes : NewToOthers(h, i) /\ TakeTaken(h, want[h], m, i)
       \/ \E i \in Id : TakeBlocked(h, want[h], i)
    /\ StandDown(h, "took_over")
    /\ UNCHANGED tries

(* A session ends: what it held is let go. *)
SessionEnds(h) ==
    /\ stage[h] \in Rest
    /\ ReleaseSession(h)
    /\ StandDown(h, "idle")
    /\ UNCHANGED tries

(* The register changes without the gate: time, deaths, forgetting, and a  *)
(* session renewing what it holds after each tool call.                    *)
RegisterMoves ==
    /\ \/ Tick
       \/ Forget
       \/ \E i \in Id : HolderDies(i)
       \/ \E h \in Holder, m \in Minutes : RenewSession(h, m)
    /\ UNCHANGED gateVars

GateStep(h) ==
    \/ ConfirmShared(h)
    \/ GiveBack(h)
    \/ AnswerIsWait(h)
    \/ AnswerIsTake(h)
    \/ AnswerIsRefuse(h)
    \/ WaitOut(h)
    \/ ForceTake(h)
    \/ Retake(h)

Next ==
    \/ \E h \in Holder : \E place \in Asks[h] : Claim(h, place)
    \/ \E h \in Holder : GateStep(h) \/ WaitEnds(h) \/ SessionEnds(h)
    \/ RegisterMoves

Spec == Init /\ [][Next]_vars

(* A claim in flight is carried through: its process polls, its prompt is  *)
(* answered or gives up, the workspace answers or times out.  Nothing says *)
(* the clock moves: a wait may end by its count alone.                     *)
Fairness == \A h \in Holder : WF_vars(GateStep(h))

FairSpec == Spec /\ Fairness

----------------------------------------------------------------------------
(* The lease is on the path asked for or above it, and names what was      *)
(* named.  A renewal may leave one that is not: on a path below the one    *)
(* asked for (lease-store.ts:231), or without its names, which go when it  *)
(* grows by a part that has none (region-overlap.ts:86).                   *)
Holds(l, place) ==
    /\ <<place.path, l.path>> \in Under
    /\ l.path = place.path /\ l.region.lines # {} /\ place.region.names # {}
           => l.region.names # {}

(* Told to write, on a lease that is in force, was not forced and holds    *)
(* what was asked.                                                         *)
WritesByLease(h) ==
    /\ stage[h] \in {"taken", "waited"}
    /\ InForce(mine[h])
    /\ ~leases[mine[h]].forced
    /\ Holds(leases[mine[h]], want[h])

(* "exclusion is over overlapping paths: two files for `src/billing` and   *)
(* `src/billing/invoice.ts` both win" is what the mutex is for (lease-     *)
(* store.ts:71): two sessions the gate let write, each on a lease still in *)
(* force, never write the same code, directories, files and parts of files *)
(* alike, unless one took it over or renewed a lease that does not hold    *)
(* what it asked.                                                          *)
WritersApart ==
    \A h, k \in Holder :
        h # k /\ WritesByLease(h) /\ WritesByLease(k)
            => ~RegionsMeet(want[h], want[k])

(* "Another machine holding it means the local lease goes straight back,   *)
(* or the register goes stale" (lease-gate.ts:221): a claim that ends      *)
(* refused, here, by the workspace or by a wait that ran out, ends with no *)
(* lease of its session in force that it made, whatever the register did   *)
(* between the take and the refusal.                                       *)
RefusedLeavesNothing ==
    [][\A h \in Holder, i \in Id :
          stage[h] \notin Rest /\ stage'[h] \in {"refused", "timed_out"}
              /\ made[h] = i /\ InForce(i)'
              => leases'[i].holder # h]_vars

(* The room for leases, which is bounded here alone, is used up for h. *)
NoRoom(h) == \A i \in Id : InForce(i) \/ ~NewToOthers(h, i)

(* "Every wait is bounded" (lease-gate.ts:16): every claim ends in a       *)
(* verdict, however often others take the path first.                      *)
EveryClaimEnds ==
    \A h \in Holder : []<>(stage[h] \in Rest \/ NoRoom(h))
=============================================================================
