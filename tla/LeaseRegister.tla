--------------------------- MODULE LeaseRegister ---------------------------
(***************************************************************************)
(* The register of who holds which path on one machine:                    *)
(* packages/core/src/coordination/lease-store.ts (LeaseRegistry) over      *)
(* lease.ts and region-overlap.ts.  Every operation is one read-change-    *)
(* write of ~/.memnox/leases under the directory mutex of ExclusiveLock,   *)
(* so it is one action here.  A lease holds a path and, inside one file,   *)
(* the lines its session writes, with the declarations they lie in where   *)
(* they could be named; no lines means the whole path.  It ends by         *)
(* release, expiry, take-over or the death of the process that holds it.   *)
(***************************************************************************)
EXTENDS Naturals, FiniteSets

CONSTANTS
    Holder,      \* the sessions: one agent in one run each
    Id,          \* lease records there is room for
    Path,        \* normalized paths of one repository
    Under,       \* <<inner, outer>>: inner is outer or lies below it
    Line,        \* line numbers
    Name,        \* declarations
    SameCode,    \* <<a, b>>: one declaration, or one inside the other
    Place,       \* where writes land: a path, and what of it git could tell
    MaxMinutes,  \* the longest lease, in ticks of the clock
    None

ASSUME NoneAssumption == None \notin Holder \cup Path
(* A tree: what holds one path lies on one way to the root. *)
ASSUME UnderAssumption ==
    /\ Under \subseteq Path \X Path
    /\ \A p \in Path : <<p, p>> \in Under
    /\ \A p, q \in Path : <<p, q>> \in Under /\ <<q, p>> \in Under => p = q
    /\ \A p, q, r \in Path : <<p, q>> \in Under /\ <<q, r>> \in Under => <<p, r>> \in Under
    /\ \A p, q, r \in Path :
          <<p, q>> \in Under /\ <<p, r>> \in Under => <<q, r>> \in Under \/ <<r, q>> \in Under
ASSUME SameCodeAssumption ==
    /\ SameCode \subseteq Name \X Name
    /\ \A a \in Name : <<a, a>> \in SameCode
    /\ \A a, b \in Name : <<a, b>> \in SameCode => <<b, a>> \in SameCode
ASSUME MinutesAssumption == MaxMinutes \in Nat \ {0}

VARIABLE
    leases       \* the record of each id, or None

(* WrittenRegion as regionFields keeps it: names only beside lines. *)
Region ==
    {r \in [lines : SUBSET Line, names : SUBSET Name] : r.lines = {} => r.names = {}}

Whole == [lines |-> {}, names |-> {}]

ASSUME PlaceAssumption == Place \subseteq [path : Path, region : Region]

Minutes == 1 .. MaxMinutes

(* left is what expiresAt leaves of the lease now; over is what else ended *)
(* it, if anything: the death of the process that holds it, releasedAt or  *)
(* takenOver; forced is history: the lease came from a take-over.          *)
Lease == [path     : Path,
          region   : Region,
          holder   : Holder,
          left     : 0 .. MaxMinutes,
          over     : {"no", "abandoned", "released", "taken_over"},
          forced   : BOOLEAN]

LeasesTypeOK == leases \in [Id -> Lease \cup {None}]

LeasesInit == leases = [i \in Id |-> None]

(* leaseState: taken over, released, expired, abandoned, in that order. *)
LeaseState(l) ==
    CASE l.over \in {"taken_over", "released"} -> l.over
      [] l.over \notin {"taken_over", "released"} /\ l.left = 0 -> "expired"
      [] l.over = "abandoned" /\ l.left > 0 -> "abandoned"
      [] OTHER -> "held"

(* leasesInForce *)
InForce(i) == leases[i] # None /\ LeaseState(leases[i]) = "held"

Standing == {i \in Id : InForce(i)}

(* conflicts: one path is or contains the other. *)
Conflicts(held, wanted) ==
    <<held, wanted>> \in Under \/ <<wanted, held>> \in Under

(* Some declaration of one is, holds or lies in one of the other. *)
ShareCode(a, b) == \E x \in a.names, y \in b.names : <<x, y>> \in SameCode

(* regionsMeet: the path decides first; inside one file names win over     *)
(* lines where both sides have them, and a side without lines is all of it. *)
RegionsMeet(held, wanted) ==
    LET a == held.region
        b == wanted.region
    IN  /\ Conflicts(held.path, wanted.path)
        /\ \/ held.path # wanted.path
           \/ IF a.names # {} /\ b.names # {}
              THEN ShareCode(a, b)
              ELSE a.lines = {} \/ b.lines = {} \/ a.lines \cap b.lines # {}

(* mergedRegion: either side whole is the whole file, and a side without   *)
(* names leaves the two to their lines.                                    *)
MergedRegion(held, added) ==
    IF held.lines = {} \/ added.lines = {}
    THEN Whole
    ELSE [lines |-> held.lines \cup added.lines,
          names |-> IF held.names # {} /\ added.names # {}
                    THEN held.names \cup added.names
                    ELSE {}]

(* extendedTo: another window, never shorter. *)
ExtendedTo(l, minutes) ==
    [l EXCEPT !.left = IF minutes > @ THEN minutes ELSE @]

(* leaseFor *)
LeaseFor(place, h, minutes, force) ==
    [path |-> place.path, region |-> place.region, holder |-> h,
     left |-> minutes, over |-> "no", forced |-> force]

(* releasedAt is set; a take-over on the record stays what it is. *)
Released(l) == IF l.over = "taken_over" THEN l ELSE [l EXCEPT !.over = "released"]

(* renewed: a second part of the same file joins the first; a lease on     *)
(* another path, above or below the one asked for, stays as it is.         *)
Renewed(l, place, minutes) ==
    ExtendedTo(IF l.path = place.path
               THEN [l EXCEPT !.region = MergedRegion(l.region, place.region)]
               ELSE l,
               minutes)

(* Mutant: only a lease on the very same path is in the way. *)
BlockingSamePath(h, place) ==
    {i \in Standing : /\ leases[i].holder # h
                      /\ leases[i].path = place.path
                      /\ RegionsMeet(leases[i], place)}

(* The leases in the way of this holder writing this place. *)
Blocking(h, place) ==
    {i \in Standing : /\ leases[i].holder # h
                      /\ RegionsMeet(leases[i], place)}

(* The holder's own lease that take() renews instead of adding one. *)
Mine(h, place) ==
    LET own == {i \in Standing : leases[i].holder = h}
        overlapping == {i \in own : RegionsMeet(leases[i], place)}
    IN  IF overlapping # {} THEN overlapping
        ELSE {i \in own : leases[i].path = place.path}

Write(i, l) == leases' = [leases EXCEPT ![i] = l]

(* take(), answered TAKEN with lease i. *)
TakeTaken(h, place, minutes, i) ==
    /\ Blocking(h, place) = {}
    /\ \/ /\ i \in Mine(h, place)
          /\ Write(i, Renewed(leases[i], place, minutes))
       \/ /\ Mine(h, place) = {}
          /\ ~InForce(i)
          /\ Write(i, LeaseFor(place, h, minutes, FALSE))

(* take(), answered HELD_BY_ANOTHER with the lease in the way. *)
TakeBlocked(h, place, i) ==
    /\ i \in Blocking(h, place)
    /\ UNCHANGED leases

(* takeOver(): whatever state lease i is in by now it is marked, and h     *)
(* gets a lease of its whole path; nobody else's lease is looked at.       *)
TakeOver(i, h, j) ==
    /\ leases[i] # None
    /\ i # j /\ ~InForce(j)
    /\ leases' = [leases EXCEPT
          ![i] = [@ EXCEPT !.over = "taken_over"],
          ![j] = LeaseFor([path |-> leases[i].path, region |-> Whole], h, MaxMinutes, TRUE)]

(* takeOver() of a record that is gone by now changes nothing. *)
TakeOverNotFound(i) ==
    /\ leases[i] = None
    /\ UNCHANGED leases

(* release(): by its holder only, in force or not. *)
Release(h, i) ==
    /\ leases[i] # None
    /\ leases[i].holder = h
    /\ Write(i, Released(leases[i]))

(* releaseSession(): an ended session holds nothing. *)
ReleaseSession(h) ==
    leases' = [i \in Id |-> IF leases[i] # None /\ leases[i].holder = h
                            THEN Released(leases[i])
                            ELSE leases[i]]

(* Mutant: every lease of the session is renewed, ended ones too. *)
RenewSessionEnded(h, minutes) ==
    leases' = [i \in Id |-> IF leases[i] # None /\ leases[i].holder = h
                            THEN ExtendedTo(leases[i], minutes)
                            ELSE leases[i]]

(* renewSession(): what is in force gets another window. *)
RenewSession(h, minutes) ==
    leases' = [i \in Id |-> IF InForce(i) /\ leases[i].holder = h
                            THEN ExtendedTo(leases[i], minutes)
                            ELSE leases[i]]

(* forget(): the records nobody holds any more. *)
Forget ==
    leases' = [i \in Id |-> IF InForce(i) THEN leases[i] ELSE None]

(* One tick of the clock, followed on the leases in force: nothing reads   *)
(* the deadline or the process of one that is over.                        *)
Tick ==
    leases' = [i \in Id |-> IF InForce(i)
                            THEN [leases[i] EXCEPT !.left = @ - 1]
                            ELSE leases[i]]

(* The process that holds lease i exits. *)
HolderDies(i) ==
    /\ InForce(i)
    /\ Write(i, [leases[i] EXCEPT !.over = "abandoned"])

(* The id of a new lease is one no record has. *)
NewOrStanding(i) == leases[i] = None \/ InForce(i)

LeasesNext ==
    \/ \E h \in Holder, place \in Place, m \in Minutes, i \in Id :
          \/ NewOrStanding(i) /\ TakeTaken(h, place, m, i)
          \/ TakeBlocked(h, place, i)
    \/ \E h \in Holder, i, j \in Id : NewOrStanding(j) /\ TakeOver(i, h, j)
    \/ \E i \in Id : TakeOverNotFound(i)
    \/ \E h \in Holder, i \in Id : Release(h, i)
    \/ \E h \in Holder : ReleaseSession(h)
    \/ \E h \in Holder, m \in Minutes : RenewSession(h, m)
    \/ Forget
    \/ Tick
    \/ \E i \in Id : HolderDies(i)

LeasesSpec == LeasesInit /\ [][LeasesNext]_leases

----------------------------------------------------------------------------
Apart(i, j) ==
    leases[i].holder = leases[j].holder \/ ~RegionsMeet(leases[i], leases[j])

(* Line numbers that still say which declaration they are in: two places   *)
(* of one file whose lines meet are in the same code, where both are named. *)
NamesFollowLines ==
    \A p, q \in Place :
        /\ p.path = q.path
        /\ p.region.names # {} /\ q.region.names # {}
        /\ p.region.lines \cap q.region.lines # {}
        => ShareCode(p.region, q.region)

(* Taking, renewing, growing and releasing leases never lets two sessions  *)
(* hold the same code ("so two agents cannot both hold a path",            *)
(* lease.ts:105); where two do, one of them took it over.  So long as      *)
(* NamesFollowLines: an edit that moves the lines of another session's     *)
(* declaration can make two leases meet that did not.                      *)
OnlyForceOverlaps ==
    \A i, j \in Standing : leases[i].forced \/ leases[j].forced \/ Apart(i, j)

(* A lease that is over is over: no renewal, growth or take-over of        *)
(* another brings it back in force.                                        *)
OverStaysOver ==
    [][\A i \in Id : leases[i] # None /\ leases'[i] # None /\ ~InForce(i)
                        => LeaseState(leases'[i]) # "held"]_leases
=============================================================================
