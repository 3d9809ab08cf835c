---------------------------- MODULE LeaseProofs ----------------------------
(***************************************************************************)
(* For every set of sessions, paths, lines and declarations, whatever lies *)
(* under what: taking, renewing, growing and ending leases never lets two  *)
(* sessions hold the same code unless one of them took it over, so long as *)
(* line numbers follow declarations (NamesFollowLines).                    *)
(*                                                                         *)
(* OnlyForceOverlaps is not inductive by itself: a lease that grows by a   *)
(* place without names loses its names, and then meets by its lines a      *)
(* lease it was kept apart from by name.  LeasesFollowLines carries        *)
(* NamesFollowLines over to what merging places makes of them, and then a  *)
(* grown lease meets another only if one of its two sides did (GrownMeets).*)
(* Every other operation leaves the leases in force where they were, or    *)
(* takes some out of force (KeepsApart).                                   *)
(*                                                                         *)
(* The gate's sessions stand on the register's leases: a lease on a        *)
(* directory is whole (LeasesWhole), and what a session is told to write,  *)
(* of the path its lease is on, that lease covers as long as it is in      *)
(* force (WritingOK).  Two paths above one place lie on one way to the     *)
(* root, so leases on paths above what two sessions write, and covering    *)
(* it, meet where that does (CoversMeet): writers are apart because their  *)
(* leases are.  A slot kept for a take-over is nobody else's (ForcingOK).  *)
(* What a refused claim made is the lease it gives back (MadeOK).          *)
(*                                                                         *)
(* Last comes the mutex every operation of the register runs in.           *)
(***************************************************************************)
EXTENDS LeaseGate, ExclusiveLock, TLAPS

(* Where both are named, lines that meet are in the same code. *)
Follows(a, b) ==
    /\ a.path = b.path
    /\ a.region.names # {} /\ b.region.names # {}
    /\ a.region.lines \cap b.region.lines # {}
    => ShareCode(a.region, b.region)

LeasesFollowLines ==
    \A i \in Id : leases[i] # None =>
        /\ \A q \in Place : Follows(leases[i], q)
        /\ \A j \in Id : leases[j] # None => Follows(leases[i], leases[j])

RegisterInv ==
    /\ NamesFollowLines
    /\ LeasesTypeOK
    /\ LeasesFollowLines
    /\ OnlyForceOverlaps

(* What the register may be asked, whichever slot a new lease gets. *)
RegisterOp ==
    \/ \E h \in Holder, place \in Place, m \in Minutes, i \in Id : TakeTaken(h, place, m, i)
    \/ \E h \in Holder, i, j \in Id : TakeOver(i, h, j)
    \/ \E h \in Holder, i \in Id : Release(h, i)
    \/ \E h \in Holder : ReleaseSession(h)
    \/ \E h \in Holder, m \in Minutes : RenewSession(h, m)
    \/ Forget
    \/ Tick
    \/ \E i \in Id : HolderDies(i)

(* What a lease in force covers, and for whom: all Apart looks at. *)
SameCover(l, m) ==
    /\ l.path = m.path
    /\ l.region = m.region
    /\ l.holder = m.holder
    /\ l.forced = m.forced

----------------------------------------------------------------------------
(* Regions and leases.                                                     *)

(* leaseState says held just when the lease has not ended in any way.      *)
LEMMA HeldMeans ==
  ASSUME NEW l \in Lease
  PROVE  LeaseState(l) = "held" <=> l.over = "no" /\ l.left > 0
  BY DEF LeaseState, Lease

(* A place has a path and a region of it.                                  *)
LEMMA PlaceHas ==
  ASSUME NEW place \in Place
  PROVE  place.path \in Path /\ place.region \in Region
  BY PlaceAssumption

(* A region is made of lines and of names, which are none without lines.   *)
LEMMA RegionHas ==
  ASSUME NEW r \in Region
  PROVE  /\ r.lines \in SUBSET Line
         /\ r.names \in SUBSET Name
         /\ r.lines = {} => r.names = {}
  BY DEF Region

(* Being the same code does not depend on who is asked first.              *)
LEMMA ShareSymmetric ==
  ASSUME NEW a \in Region, NEW b \in Region
  PROVE  ShareCode(a, b) <=> ShareCode(b, a)
  BY RegionHas, SameCodeAssumption DEF ShareCode

(* regionsMeet does not care which of the two was there first.             *)
LEMMA MeetSymmetric ==
  ASSUME NEW l, NEW m, l.region \in Region, m.region \in Region
  PROVE  RegionsMeet(l, m) <=> RegionsMeet(m, l)
  BY ShareSymmetric DEF RegionsMeet, Conflicts

(* Nor does lines following declarations.                                  *)
LEMMA FollowsSymmetric ==
  ASSUME NEW a, NEW b, a.region \in Region, b.region \in Region
  PROVE  Follows(a, b) <=> Follows(b, a)
  BY ShareSymmetric DEF Follows

(* A place always follows itself: a declaration is its own code.           *)
LEMMA FollowsItself ==
  ASSUME NEW a, a.region \in Region
  PROVE  Follows(a, a)
  BY RegionHas, SameCodeAssumption DEF Follows, ShareCode

(* mergedRegion is a region.                                               *)
LEMMA MergedIsRegion ==
  ASSUME NEW a \in Region, NEW b \in Region
  PROVE  MergedRegion(a, b) \in Region
  <1>1. CASE a.lines = {} \/ b.lines = {}
    BY <1>1 DEF MergedRegion, Whole, Region
  <1>2. CASE a.lines # {} /\ b.lines # {}
    <2>1. a.lines \cup b.lines \in SUBSET Line /\ a.lines \cup b.lines # {}
      BY <1>2, RegionHas
    <2>2. a.names \cup b.names \in SUBSET Name
      BY RegionHas
    <2> QED
      BY <1>2, <2>1, <2>2 DEF MergedRegion, Region
  <1> QED
    BY <1>1, <1>2

(* What renewed() makes of a lease.                                        *)
LEMMA RenewedHas ==
  ASSUME NEW l \in Lease, NEW place \in Place, NEW minutes \in Minutes
  PROVE  /\ Renewed(l, place, minutes) \in Lease
         /\ Renewed(l, place, minutes).path = l.path
         /\ Renewed(l, place, minutes).holder = l.holder
         /\ Renewed(l, place, minutes).forced = l.forced
         /\ Renewed(l, place, minutes).region =
               IF l.path = place.path THEN MergedRegion(l.region, place.region)
                                      ELSE l.region
  <1>1. MergedRegion(l.region, place.region) \in Region
    BY PlaceHas, MergedIsRegion DEF Lease
  <1>2. ASSUME NEW m \in Lease
        PROVE  /\ ExtendedTo(m, minutes) \in Lease
               /\ ExtendedTo(m, minutes).path = m.path
               /\ ExtendedTo(m, minutes).region = m.region
               /\ ExtendedTo(m, minutes).holder = m.holder
               /\ ExtendedTo(m, minutes).forced = m.forced
    BY MinutesAssumption DEF ExtendedTo, Lease, Minutes
  <1>3. CASE l.path = place.path
    <2> DEFINE grown == [l EXCEPT !.region = MergedRegion(l.region, place.region)]
    <2>1. /\ grown \in Lease
          /\ grown.path = l.path
          /\ grown.region = MergedRegion(l.region, place.region)
          /\ grown.holder = l.holder
          /\ grown.forced = l.forced
      BY <1>1 DEF Lease
    <2>2. Renewed(l, place, minutes) = ExtendedTo(grown, minutes)
      BY <1>3, Zenon DEF Renewed
    <2> HIDE DEF grown
    <2> QED
      BY <1>2, <1>3, <2>1, <2>2
  <1>4. CASE l.path # place.path
    <2>1. Renewed(l, place, minutes) = ExtendedTo(l, minutes)
      BY <1>4, Zenon DEF Renewed
    <2> QED
      BY <1>2, <1>4, <2>1
  <1> QED
    BY <1>3, <1>4

(* A grown lease follows lines where both its sides do.                    *)
LEMMA GrownFollows ==
  ASSUME NEW l \in Lease, NEW place \in Place, NEW minutes \in Minutes, NEW m,
         Follows(l, m), Follows(place, m)
  PROVE  Follows(Renewed(l, place, minutes), m)
  <1> DEFINE r == Renewed(l, place, minutes)
  <1>1. r.path = l.path
        /\ r.region = IF l.path = place.path THEN MergedRegion(l.region, place.region)
                                             ELSE l.region
    BY RenewedHas
  <1> SUFFICES Follows(r, m)
    OBVIOUS
  <1> HIDE DEF r
  <1>2. CASE l.path # place.path
    BY <1>1, <1>2 DEF Follows
  <1>3. CASE l.path = place.path
    <2> DEFINE a == l.region
               b == place.region
    <2>1. CASE a.lines # {} /\ b.lines # {} /\ a.names # {} /\ b.names # {}
      <3>1. r.region.lines = a.lines \cup b.lines /\ r.region.names = a.names \cup b.names
        BY <1>1, <1>3, <2>1 DEF MergedRegion
      <3> QED
        BY <1>1, <1>3, <2>1, <3>1 DEF Follows, ShareCode
    <2>2. CASE ~(a.lines # {} /\ b.lines # {} /\ a.names # {} /\ b.names # {})
      <3>1. r.region.names = {}
        BY <1>1, <1>3, <2>2 DEF MergedRegion, Whole
      <3> QED
        BY <3>1 DEF Follows
    <2> QED
      BY <2>1, <2>2
  <1> QED
    BY <1>2, <1>3

(* A renewed lease meets another only if the old lease or the place asked  *)
(* for did: mergedRegion never reaches beyond the two.                     *)
LEMMA GrownMeets ==
  ASSUME NEW l \in Lease, NEW place \in Place, NEW m \in Lease,
         NEW minutes \in Minutes,
         Follows(m, l), Follows(m, place),
         RegionsMeet(m, Renewed(l, place, minutes))
  PROVE  RegionsMeet(m, l) \/ RegionsMeet(m, place)
  <1> DEFINE r == Renewed(l, place, minutes)
  <1>1. r.path = l.path
        /\ r.region = IF l.path = place.path THEN MergedRegion(l.region, place.region)
                                             ELSE l.region
    BY RenewedHas
  <1>2. RegionsMeet(m, r)
    OBVIOUS
  <1> HIDE DEF r
  <1>3. CASE l.path # place.path
    BY <1>1, <1>2, <1>3 DEF RegionsMeet
  <1>4. CASE l.path = place.path /\ m.path # l.path
    BY <1>1, <1>2, <1>4 DEF RegionsMeet
  <1>5. CASE l.path = place.path /\ m.path = l.path
    <2> DEFINE a == l.region
               b == place.region
               c == m.region
    <2>0. a \in Region /\ b \in Region /\ c \in Region
      BY PlaceHas DEF Lease
    <2>1. Conflicts(m.path, l.path) /\ Conflicts(m.path, place.path)
      BY <1>2, <1>1, <1>5 DEF RegionsMeet
    <2>2. CASE a.lines = {} \/ b.lines = {}
      BY <1>5, <2>0, <2>1, <2>2, RegionHas DEF RegionsMeet
    <2>3. CASE a.lines # {} /\ b.lines # {} /\ a.names # {} /\ b.names # {}
      <3>1. r.region.lines = a.lines \cup b.lines /\ r.region.names = a.names \cup b.names
        BY <1>1, <1>5, <2>3 DEF MergedRegion
      <3>2. IF c.names # {} THEN ShareCode(c, r.region)
            ELSE c.lines = {} \/ c.lines \cap r.region.lines # {}
        BY <1>1, <1>2, <1>5, <2>3, <3>1 DEF RegionsMeet
      <3>3. CASE c.names # {}
        <4>1. ShareCode(c, a) \/ ShareCode(c, b)
          BY <3>1, <3>2, <3>3 DEF ShareCode
        <4> QED
          BY <1>5, <2>1, <2>3, <3>3, <4>1 DEF RegionsMeet
      <3>4. CASE c.names = {}
        BY <1>5, <2>1, <2>3, <3>1, <3>2, <3>4 DEF RegionsMeet
      <3> QED
        BY <3>3, <3>4
    <2>4. CASE a.lines # {} /\ b.lines # {} /\ (a.names = {} \/ b.names = {})
      <3>1. r.region.lines = a.lines \cup b.lines /\ r.region.names = {}
        BY <1>1, <1>5, <2>4 DEF MergedRegion
      <3>2. c.lines = {} \/ c.lines \cap a.lines # {} \/ c.lines \cap b.lines # {}
        BY <1>1, <1>2, <1>5, <2>4, <3>1 DEF RegionsMeet
      <3>3. CASE c.lines = {}
        BY <1>5, <2>0, <2>1, <3>3, RegionHas DEF RegionsMeet
      <3>4. CASE c.lines \cap a.lines # {}
        BY <1>5, <2>1, <3>4 DEF RegionsMeet, Follows
      <3>5. CASE c.lines \cap b.lines # {}
        BY <1>5, <2>1, <3>5 DEF RegionsMeet, Follows
      <3> QED
        BY <3>2, <3>3, <3>4, <3>5
    <2> QED
      BY <2>2, <2>3, <2>4
  <1> QED
    BY <1>3, <1>4, <1>5

----------------------------------------------------------------------------
(* Type correctness.                                                       *)

(* Every step of the register's own specification is an operation.         *)
LEMMA NextIsOp == [LeasesNext]_leases => [RegisterOp]_leases
  BY DEF LeasesNext, RegisterOp, TakeBlocked, TakeOverNotFound

(* Every operation of the register keeps it well typed.                    *)
LEMMA TypeStep == LeasesTypeOK /\ [RegisterOp]_leases => LeasesTypeOK'
  <1> SUFFICES ASSUME LeasesTypeOK, [RegisterOp]_leases
               PROVE  LeasesTypeOK'
    OBVIOUS
  <1> USE MinutesAssumption
  <1>t. \A i \in Id : leases[i] # None => leases[i] \in Lease
    BY DEF LeasesTypeOK
  <1>w. Whole \in Region
    BY DEF Whole, Region
  <1>1. ASSUME NEW h \in Holder, NEW place \in Place, NEW m \in Minutes, NEW i \in Id,
               TakeTaken(h, place, m, i)
        PROVE  LeasesTypeOK'
    <2>1. CASE i \in Mine(h, place) /\ Write(i, Renewed(leases[i], place, m))
      <3>1. leases[i] \in Lease
        BY <1>t, <2>1 DEF Mine, Standing, InForce
      <3>2. Renewed(leases[i], place, m) \in Lease
        BY <3>1, RenewedHas
      <3> QED
        BY <2>1, <3>2 DEF Write, LeasesTypeOK
    <2>2. CASE Write(i, LeaseFor(place, h, m, FALSE))
      <3>1. LeaseFor(place, h, m, FALSE) \in Lease
        BY PlaceHas DEF LeaseFor, Lease, Minutes
      <3> QED
        BY <2>2, <3>1 DEF Write, LeasesTypeOK
    <2> QED
      BY <1>1, <2>1, <2>2 DEF TakeTaken
  <1>2. ASSUME NEW h \in Holder, NEW i \in Id, NEW j \in Id, TakeOver(i, h, j)
        PROVE  LeasesTypeOK'
    <2>1. leases[i] \in Lease
      BY <1>t, <1>2 DEF TakeOver
    <2>2. LeaseFor([path |-> leases[i].path, region |-> Whole], h, MaxMinutes, TRUE) \in Lease
      BY <1>w, <2>1 DEF LeaseFor, Lease
    <2>3. [leases[i] EXCEPT !.over = "taken_over"] \in Lease
      BY <2>1 DEF Lease
    <2> QED
      BY <1>2, <2>2, <2>3 DEF LeasesTypeOK, TakeOver
  <1>3. ASSUME leases' = leases PROVE LeasesTypeOK'
    BY <1>3 DEF LeasesTypeOK
  <1>4. ASSUME NEW h \in Holder, NEW i \in Id, Release(h, i) PROVE LeasesTypeOK'
    BY <1>t, <1>4 DEF LeasesTypeOK, Release, Write, Released, Lease
  <1>5. ASSUME NEW h \in Holder, ReleaseSession(h) PROVE LeasesTypeOK'
    BY <1>t, <1>5 DEF LeasesTypeOK, ReleaseSession, Released, Lease
  <1>6. ASSUME NEW h \in Holder, NEW m \in Minutes, RenewSession(h, m) PROVE LeasesTypeOK'
    BY <1>t, <1>6 DEF LeasesTypeOK, RenewSession, ExtendedTo, InForce, Lease, Minutes
  <1>7. CASE Forget
    BY <1>7 DEF LeasesTypeOK, Forget
  <1>8. CASE Tick
    <2>1. \A k \in Id : InForce(k) => leases[k] \in Lease /\ leases[k].left > 0
      BY <1>t, HeldMeans DEF InForce
    <2> QED
      BY <1>8, <2>1 DEF LeasesTypeOK, Tick, Lease
  <1>9. ASSUME NEW i \in Id, HolderDies(i) PROVE LeasesTypeOK'
    BY <1>t, <1>9 DEF LeasesTypeOK, HolderDies, InForce, Write, Lease
  <1> QED
    BY <1>1, <1>2, <1>3, <1>4, <1>5, <1>6, <1>7, <1>8, <1>9
       DEF RegisterOp

(* Type correctness of the lease register, for every instance.             *)
THEOREM RegisterTypeCorrect == LeasesSpec => []LeasesTypeOK
  <1>1. LeasesInit => LeasesTypeOK
    BY DEF LeasesInit, LeasesTypeOK
  <1> QED
    BY <1>1, TypeStep, NextIsOp, PTL DEF LeasesSpec

----------------------------------------------------------------------------
(* Two sessions stay apart.                                                *)

(* A step that leaves every lease in force where it was, or takes it out   *)
(* of force, and moves none, keeps two sessions apart.                     *)
LEMMA KeepsApart ==
  ASSUME RegisterInv, LeasesTypeOK',
         \A i \in Id : leases'[i] # None => leases[i] # None /\ SameCover(leases'[i], leases[i]),
         \A i \in Id : InForce(i)' => InForce(i)
  PROVE  RegisterInv'
  <1>1. LeasesFollowLines'
    BY DEF RegisterInv, LeasesFollowLines, SameCover, Follows
  <1>2. ASSUME NEW i \in Id, NEW j \in Id, InForce(i)', InForce(j)'
        PROVE  (leases[i].forced \/ leases[j].forced \/ Apart(i, j))'
    <2>1. leases[i].forced \/ leases[j].forced \/ Apart(i, j)
      BY <1>2 DEF RegisterInv, OnlyForceOverlaps, Standing
    <2>2. SameCover(leases'[i], leases[i]) /\ SameCover(leases'[j], leases[j])
      BY <1>2 DEF InForce
    <2> QED
      BY <2>1, <2>2 DEF SameCover, Apart, RegionsMeet
  <1>3. OnlyForceOverlaps'
    BY <1>2 DEF OnlyForceOverlaps, Standing
  <1> QED
    BY <1>1, <1>3 DEF RegisterInv, NamesFollowLines

(* A lease written over one record keeps lines following declarations if   *)
(* it follows every place and every other lease.                           *)
LEMMA WrittenFollows ==
  ASSUME RegisterInv, LeasesTypeOK', NEW i \in Id, NEW new \in Lease,
         \A k \in Id \ {i} : \/ leases'[k] = leases[k]
                             \/ SameCover(leases'[k], leases[k]) /\ leases[k] # None,
         leases'[i] = new,
         \A q \in Place : Follows(new, q),
         \A k \in Id \ {i} : leases[k] # None => Follows(new, leases[k])
  PROVE  LeasesFollowLines'
  <1>1. ASSUME NEW k \in Id \ {i}, leases'[k] # None
        PROVE  /\ leases[k] # None
               /\ leases[k] \in Lease
               /\ leases[k].region \in Region
               /\ leases'[k].path = leases[k].path
               /\ leases'[k].region = leases[k].region
    BY <1>1 DEF SameCover, RegisterInv, LeasesTypeOK, Lease
  <1>2. new.region \in Region
    BY DEF Lease
  <1>3. ASSUME NEW k \in Id, leases'[k] # None, NEW q \in Place
        PROVE  Follows(leases'[k], q)
    BY <1>1, <1>3 DEF RegisterInv, LeasesFollowLines, Follows
  <1>4. ASSUME NEW k \in Id, leases'[k] # None, NEW j \in Id, leases'[j] # None
        PROVE  Follows(leases'[k], leases'[j])
    <2>1. CASE k = i /\ j = i
      BY <1>2, <2>1, FollowsItself
    <2>2. CASE k = i /\ j # i
      BY <1>1, <1>4, <2>2 DEF Follows
    <2>3. CASE k # i /\ j = i
      <3>1. Follows(new, leases[k])
        BY <1>1, <1>4, <2>3
      <3>2. Follows(leases[k], new)
        BY <1>1, <1>2, <1>4, <2>3, <3>1, FollowsSymmetric
      <3> QED
        BY <1>1, <1>4, <2>3, <3>2 DEF Follows
    <2>4. CASE k # i /\ j # i
      BY <1>1, <1>4, <2>4 DEF RegisterInv, LeasesFollowLines, Follows
    <2> QED
      BY <2>1, <2>2, <2>3, <2>4
  <1> QED
    BY <1>3, <1>4 DEF LeasesFollowLines

(* take() keeps two sessions apart.                                        *)
LEMMA TakeKeeps ==
  ASSUME RegisterInv, LeasesTypeOK', NEW h \in Holder, NEW place \in Place,
         NEW minutes \in Minutes, NEW i \in Id,
         TakeTaken(h, place, minutes, i)
  PROVE  RegisterInv'
  <1> DEFINE new == leases'[i]
  <1>1. \A j \in Id : leases[j] # None => leases[j] \in Lease
    BY DEF RegisterInv, LeasesTypeOK
  <1>s. \A j \in Standing : j \in Id /\ leases[j] # None /\ leases[j] \in Lease
    BY <1>1 DEF Standing, InForce
  <1>p. \A q \in Place : Follows(place, q)
    BY DEF RegisterInv, NamesFollowLines, Follows
  <1>l. \A j \in Id : leases[j] # None => Follows(leases[j], place) /\ Follows(place, leases[j])
    BY <1>1, PlaceHas, FollowsSymmetric DEF RegisterInv, LeasesFollowLines, Lease
  <1>2. /\ new \in Lease
        /\ new.holder = h
        /\ leases' = [leases EXCEPT ![i] = new]
        /\ \A q \in Place : Follows(new, q)
        /\ \A k \in Id : leases[k] # None => Follows(new, leases[k])
        /\ \A j \in Standing : leases[j].holder # h /\ RegionsMeet(leases[j], new)
              => i \in Standing /\ RegionsMeet(leases[j], leases[i]) /\ leases[i].holder = h
                 /\ leases[i].forced = new.forced
    <2>1. CASE i \in Mine(h, place) /\ Write(i, Renewed(leases[i], place, minutes))
      <3>1. i \in Standing /\ leases[i].holder = h
        BY <2>1 DEF Mine
      <3>2. leases[i] \in Lease /\ leases[i] # None
        BY <1>s, <3>1
      <3>3. new = Renewed(leases[i], place, minutes)
        BY <2>1 DEF Write, RegisterInv, LeasesTypeOK
      <3>4. new \in Lease /\ new.holder = h /\ new.forced = leases[i].forced
        BY <3>1, <3>2, <3>3, RenewedHas
      <3>5. ASSUME NEW j \in Standing, leases[j].holder # h, RegionsMeet(leases[j], new)
            PROVE  RegionsMeet(leases[j], leases[i])
        <4>1. ~RegionsMeet(leases[j], place)
          BY <3>5 DEF TakeTaken, Blocking
        <4>2. Follows(leases[j], leases[i]) /\ Follows(leases[j], place)
          BY <1>l, <1>s, <3>2 DEF RegisterInv, LeasesFollowLines
        <4> QED
          BY <1>s, <3>2, <3>3, <3>5, <4>1, <4>2, GrownMeets
      <3>6. \A q \in Place : Follows(new, q)
        BY <1>p, <3>2, <3>3, GrownFollows DEF RegisterInv, LeasesFollowLines
      <3>7. \A k \in Id : leases[k] # None => Follows(new, leases[k])
        BY <1>l, <3>2, <3>3, GrownFollows DEF RegisterInv, LeasesFollowLines
      <3> QED
        BY <2>1, <3>1, <3>3, <3>4, <3>5, <3>6, <3>7 DEF Write
    <2>2. CASE Mine(h, place) = {} /\ Write(i, LeaseFor(place, h, minutes, FALSE))
      <3>1. new = LeaseFor(place, h, minutes, FALSE)
        BY <2>2 DEF Write, RegisterInv, LeasesTypeOK
      <3>2. new.holder = h /\ new.path = place.path /\ new.region = place.region
        BY <3>1 DEF LeaseFor
      <3>3. new \in Lease
        BY <3>1, PlaceHas, MinutesAssumption DEF LeaseFor, Lease, Minutes
      <3>4. \A j \in Standing : leases[j].holder # h => ~RegionsMeet(leases[j], new)
        BY <3>2 DEF TakeTaken, Blocking, RegionsMeet
      <3>5. \A q \in Place : Follows(new, q)
        BY <1>p, <3>2 DEF Follows
      <3>6. \A k \in Id : leases[k] # None => Follows(new, leases[k])
        BY <1>l, <3>2 DEF Follows
      <3> QED
        BY <2>2, <3>1, <3>2, <3>3, <3>4, <3>5, <3>6 DEF Write
    <2> QED
      BY <2>1, <2>2 DEF TakeTaken
  <1>3. LeasesFollowLines'
    <2>1. \A k \in Id \ {i} : leases'[k] = leases[k]
      BY <1>2 DEF RegisterInv, LeasesTypeOK
    <2> HIDE DEF new
    <2>2. leases'[i] = new
      BY DEF new
    <2> QED
      BY <1>2, <2>1, <2>2, WrittenFollows
  <1>4. ASSUME NEW j \in Id, NEW k \in Id, InForce(j)', InForce(k)'
        PROVE  (leases[j].forced \/ leases[k].forced \/ Apart(j, k))'
    <2>1. \A l \in Id \ {i} : leases'[l] = leases[l] /\ (InForce(l)' => l \in Standing)
      BY <1>2 DEF RegisterInv, LeasesTypeOK, InForce, Standing
    <2>2. CASE j # i /\ k # i
      BY <1>4, <2>1, <2>2 DEF RegisterInv, OnlyForceOverlaps, Apart
    <2>3. CASE j = i /\ k = i
      BY <2>3 DEF Apart
    <2>4. ASSUME NEW l \in Id \ {i}, InForce(l)', leases[l].holder # h,
                 RegionsMeet(leases[l], new)
          PROVE  leases[l].forced \/ new.forced
      <3>1. l \in Standing
        BY <2>1, <2>4
      <3>2. i \in Standing /\ RegionsMeet(leases[l], leases[i]) /\ leases[i].holder = h
            /\ leases[i].forced = new.forced
        BY <1>2, <2>4, <3>1
      <3> QED
        BY <2>4, <3>1, <3>2 DEF RegisterInv, OnlyForceOverlaps, Apart
    <2>5. CASE j = i /\ k # i
      <3>1. RegionsMeet(new, leases[k]) <=> RegionsMeet(leases[k], new)
        BY <1>2, <1>4, <1>s, <2>1, <2>5, MeetSymmetric DEF Lease
      <3> QED
        BY <1>2, <1>4, <2>1, <2>4, <2>5, <3>1 DEF Apart
    <2>6. CASE j # i /\ k = i
      BY <1>2, <1>4, <2>1, <2>4, <2>6 DEF Apart
    <2> QED
      BY <2>2, <2>3, <2>5, <2>6
  <1> QED
    BY <1>3, <1>4 DEF RegisterInv, OnlyForceOverlaps, Standing, NamesFollowLines

(* takeOver() adds only a lease that is marked as forced, and is whole.    *)
LEMMA TakeOverKeeps ==
  ASSUME RegisterInv, LeasesTypeOK', NEW h \in Holder, NEW i \in Id, NEW j \in Id,
         TakeOver(i, h, j)
  PROVE  RegisterInv'
  <1> DEFINE new == LeaseFor([path |-> leases[i].path, region |-> Whole], h, MaxMinutes, TRUE)
  <1>1. leases[i] \in Lease
    BY DEF RegisterInv, LeasesTypeOK, TakeOver
  <1>2. new.forced /\ new.region = Whole
    BY DEF LeaseFor
  <1>4. /\ leases'[j] = new
        /\ leases'[i] = [leases[i] EXCEPT !.over = "taken_over"]
        /\ i # j
        /\ \A k \in Id \ {i, j} : leases'[k] = leases[k]
    BY DEF RegisterInv, LeasesTypeOK, TakeOver
  <1>5. /\ SameCover(leases'[i], leases[i])
        /\ ~InForce(i)'
    <2>1. SameCover(leases'[i], leases[i]) /\ leases'[i].over = "taken_over"
      BY <1>1, <1>4 DEF Lease, SameCover
    <2> QED
      BY <2>1 DEF InForce, LeaseState
  <1>6. LeasesFollowLines'
    <2>1. ASSUME NEW q PROVE Follows(new, q)
      <3>1. Whole.names = {}
        BY DEF Whole
      <3> HIDE DEF new
      <3> QED
        BY <1>2, <3>1 DEF Follows
    <2>2. new \in Lease
      <3>1. Whole \in Region
        BY DEF Whole, Region
      <3> QED
        BY <1>1, <3>1, MinutesAssumption DEF LeaseFor, Lease
    <2>3. \A k \in Id \ {j} : \/ leases'[k] = leases[k]
                              \/ SameCover(leases'[k], leases[k]) /\ leases[k] # None
      BY <1>4, <1>5 DEF TakeOver
    <2> HIDE DEF new
    <2> QED
      BY <1>4, <2>1, <2>2, <2>3, WrittenFollows
  <1>7. ASSUME NEW k \in Id, NEW l \in Id, InForce(k)', InForce(l)'
        PROVE  (leases[k].forced \/ leases[l].forced \/ Apart(k, l))'
    <2>1. CASE k = j \/ l = j
      BY <1>2, <1>4, <2>1
    <2>2. CASE k # j /\ l # j
      BY <1>4, <1>5, <1>7, <2>2 DEF RegisterInv, OnlyForceOverlaps, Standing,
                                    InForce, Apart
    <2> QED
      BY <2>1, <2>2
  <1> QED
    BY <1>6, <1>7 DEF RegisterInv, OnlyForceOverlaps, Standing, NamesFollowLines

(* Every operation of the register keeps RegisterInv.                      *)
LEMMA RegisterInvStep == RegisterInv /\ [RegisterOp]_leases => RegisterInv'
  <1> SUFFICES ASSUME RegisterInv, [RegisterOp]_leases
               PROVE  RegisterInv'
    OBVIOUS
  <1>0. LeasesTypeOK /\ LeasesTypeOK'
    BY TypeStep DEF RegisterInv
  <1>t. \A i \in Id : leases[i] # None => leases[i] \in Lease
    BY <1>0 DEF LeasesTypeOK
  <1> DEFINE Kept == /\ \A i \in Id : leases'[i] # None =>
                            leases[i] # None /\ SameCover(leases'[i], leases[i])
                     /\ \A i \in Id : InForce(i)' => InForce(i)
  <1>k. Kept => RegisterInv'
    BY <1>0, KeepsApart
  <1>1. ASSUME NEW h \in Holder, NEW place \in Place, NEW m \in Minutes, NEW i \in Id,
               TakeTaken(h, place, m, i)
        PROVE  RegisterInv'
    BY <1>0, <1>1, TakeKeeps
  <1>2. ASSUME NEW h \in Holder, NEW i \in Id, NEW j \in Id, TakeOver(i, h, j)
        PROVE  RegisterInv'
    BY <1>0, <1>2, TakeOverKeeps
  <1>3. ASSUME leases' = leases PROVE Kept
    BY <1>3 DEF InForce, SameCover
  <1>4. ASSUME NEW h \in Holder, NEW i \in Id, Release(h, i) PROVE Kept
    BY <1>0, <1>t, <1>4 DEF LeasesTypeOK, Release, Write, Released, InForce, LeaseState,
                            SameCover, Lease
  <1>5. ASSUME NEW h \in Holder, ReleaseSession(h) PROVE Kept
    BY <1>0, <1>t, <1>5 DEF LeasesTypeOK, ReleaseSession, Released, InForce, LeaseState,
                            SameCover, Lease
  <1>6. ASSUME NEW h \in Holder, NEW m \in Minutes, RenewSession(h, m) PROVE Kept
    BY <1>0, <1>t, <1>6 DEF LeasesTypeOK, RenewSession, ExtendedTo, InForce, LeaseState,
                            SameCover, Lease
  <1>7. CASE Forget
    <2> Kept
      BY <1>0, <1>7 DEF LeasesTypeOK, Forget, InForce, SameCover
    <2> QED
      BY <1>k
  <1>8. CASE Tick
    <2>1. ASSUME NEW k \in Id, leases'[k] # None
          PROVE  leases[k] # None /\ SameCover(leases'[k], leases[k])
      BY <1>0, <1>t, <1>8, <2>1 DEF LeasesTypeOK, Tick, InForce, SameCover, Lease
    <2>2. ASSUME NEW k \in Id, InForce(k)' PROVE InForce(k)
      BY <1>0, <1>8, <2>2 DEF LeasesTypeOK, Tick, InForce
    <2> QED
      BY <1>k, <2>1, <2>2
  <1>9. ASSUME NEW i \in Id, HolderDies(i) PROVE Kept
    BY <1>0, <1>t, <1>9 DEF LeasesTypeOK, HolderDies, Write, InForce, LeaseState,
                            SameCover, Lease
  <1> HIDE DEF Kept
  <1> QED
    BY <1>k, <1>1, <1>2, <1>3, <1>4, <1>5, <1>6, <1>7, <1>8, <1>9
       DEF RegisterOp

(* However many sessions, paths, lines and declarations there are, and     *)
(* whatever lies under what: where line numbers follow declarations, two   *)
(* sessions hold the same code only if one of them took it over            *)
(* (LeaseRegistry.take, takeOver).                                         *)
THEOREM RegisterKeepsApart ==
  LeasesSpec /\ NamesFollowLines => []OnlyForceOverlaps
  <1>1. LeasesInit /\ NamesFollowLines => RegisterInv
    BY DEF LeasesInit, RegisterInv, LeasesTypeOK, OnlyForceOverlaps, Standing, InForce,
           LeasesFollowLines
  <1>2. RegisterInv => OnlyForceOverlaps
    BY DEF RegisterInv
  <1> QED
    BY <1>1, <1>2, RegisterInvStep, NextIsOp, PTL DEF LeasesSpec
----------------------------------------------------------------------------
(* A lease that is over stays over.                                        *)

(* A record that is not in force is not held.                              *)
LEMMA OverMeans ==
  ASSUME LeasesTypeOK, NEW i \in Id, leases[i] # None
  PROVE  leases[i] \in Lease /\ (InForce(i) <=> LeaseState(leases[i]) = "held")
  BY DEF LeasesTypeOK, InForce

(* No operation of the register brings back a lease that is over: it would *)
(* have to be written where a record is, and only a standing one is.       *)
THEOREM OverIsFinal == LeasesSpec => OverStaysOver
  <1> DEFINE Final == \A i \in Id : leases[i] # None /\ leases'[i] # None /\ ~InForce(i)
                                       => LeaseState(leases'[i]) # "held"
  <1>1. ASSUME LeasesTypeOK, [LeasesNext]_leases PROVE [Final]_leases
    <2>0. LeasesTypeOK'
      BY <1>1, NextIsOp, TypeStep
    <2>t. ASSUME NEW i \in Id, leases[i] # None
          PROVE  leases[i] \in Lease /\ (InForce(i) <=> LeaseState(leases[i]) = "held")
      BY <1>1, <2>t, OverMeans
    <2>k. ASSUME \A i \in Id : leases[i] # None /\ ~InForce(i) =>
                    leases'[i] = leases[i] \/ leases'[i] = None \/ leases'[i].over = "taken_over"
                        \/ leases'[i].over = "released"
          PROVE  Final
      BY <2>k, <2>t DEF LeaseState
    <2>1. ASSUME NEW h \in Holder, NEW place \in Place, NEW m \in Minutes, NEW i \in Id,
                 NewOrStanding(i), TakeTaken(h, place, m, i)
          PROVE  Final
      <3>1. \A k \in Id \ {i} : leases'[k] = leases[k]
        BY <1>1, <2>1 DEF TakeTaken, Write, LeasesTypeOK
      <3> QED
        BY <2>1, <2>k, <3>1 DEF NewOrStanding
    <2>2. ASSUME NEW h \in Holder, NEW i \in Id, NEW j \in Id, NewOrStanding(j), TakeOver(i, h, j)
          PROVE  Final
      <3>1. /\ \A k \in Id \ {i, j} : leases'[k] = leases[k]
            /\ i # j
            /\ leases'[i] = [leases[i] EXCEPT !.over = "taken_over"]
        BY <1>1, <2>2 DEF TakeOver, LeasesTypeOK
      <3>2. leases'[i].over = "taken_over"
        BY <2>2, <2>t, <3>1 DEF TakeOver, Lease
      <3> QED
        BY <2>2, <2>k, <3>1, <3>2 DEF NewOrStanding
    <2>3. ASSUME leases' = leases PROVE Final
      BY <2>3, <2>k
    <2>r. ASSUME NEW l \in Lease PROVE Released(l).over \in {"taken_over", "released"}
      BY DEF Released, Lease
    <2>4. ASSUME NEW h \in Holder, NEW i \in Id, Release(h, i) PROVE Final
      <3>1. /\ \A k \in Id \ {i} : leases'[k] = leases[k]
            /\ leases'[i] = Released(leases[i])
        BY <1>1, <2>4 DEF Release, Write, LeasesTypeOK
      <3> QED
        BY <2>4, <2>k, <2>r, <2>t, <3>1 DEF Release
    <2>5. ASSUME NEW h \in Holder, ReleaseSession(h) PROVE Final
      <3>1. \A k \in Id : leases[k] # None =>
                leases'[k] = leases[k] \/ leases'[k] = Released(leases[k])
        BY <1>1, <2>5 DEF ReleaseSession
      <3> QED
        BY <2>k, <2>r, <2>t, <3>1
    <2>6. ASSUME NEW h \in Holder, NEW m \in Minutes, RenewSession(h, m) PROVE Final
      BY <2>6, <2>k DEF RenewSession
    <2>7. CASE Forget
      BY <2>7, <2>k DEF Forget
    <2>8. CASE Tick
      BY <2>8, <2>k DEF Tick
    <2>9. ASSUME NEW i \in Id, HolderDies(i) PROVE Final
      BY <1>1, <2>9, <2>k DEF HolderDies, Write, LeasesTypeOK
    <2> HIDE DEF Final
    <2> QED
      BY <1>1, <2>1, <2>2, <2>3, <2>4, <2>5, <2>6, <2>7, <2>8, <2>9
         DEF LeasesNext, TakeBlocked, TakeOverNotFound
  <1> HIDE DEF Final
  <1>2. LeasesSpec => [][Final]_leases
    BY <1>1, RegisterTypeCorrect, PTL DEF LeasesSpec
  <1> QED
    BY <1>2 DEF OverStaysOver, Final
----------------------------------------------------------------------------
(* The gate: what a session was told to write, and the lease it has for it. *)

(* What has a place below it is held whole. *)
LeasesWhole ==
    \A i \in Id : leases[i] # None =>
        \A q \in Place :
            <<q.path, leases[i].path>> \in Under /\ q.path # leases[i].path
                => leases[i].region.lines = {}

(* Of one path: whatever meets the place meets the lease. *)
Covers(l, place) ==
    l.path = place.path /\ l.region.lines # {}
        => /\ place.region.lines # {}
           /\ place.region.lines \subseteq l.region.lines
           /\ place.region.names = {} => l.region.names = {}
           /\ l.region.names # {} => place.region.names \subseteq l.region.names

Writing == {"confirm", "taken", "waited"}

(* Which of want, mine and holding a stage can rely on. *)
StageOK(h) ==
    /\ stage[h] \notin {"idle", "refused", "timed_out", "took_over"} => want[h] \in Place
    /\ stage[h] \in Writing \cup {"give_back", "force"} => mine[h] \in Id
    /\ stage[h] \in {"ask", "force"} => holding[h] \in Id

(* What h is told to write its own lease covers, while that is in force. *)
WritingOK(h) ==
    stage[h] \in Writing /\ InForce(mine[h])
        => leases[mine[h]].holder = h /\ Covers(leases[mine[h]], want[h])

(* The slot kept for the lease of a take-over is empty, and h's alone. *)
ForcingOK(h) ==
    stage[h] = "force" => /\ ~InForce(mine[h])
                          /\ \A k \in Holder \ {h} : mine[k] # mine[h]

SessionOK(h) == StageOK(h) /\ WritingOK(h) /\ ForcingOK(h)

GateInv ==
    /\ RegisterInv
    /\ GateTypeOK
    /\ LeasesWhole
    /\ \A h \in Holder : SessionOK(h)

(* A step that moves lease i nowhere, and does not put it in force.        *)
Keeps(i) ==
    /\ leases'[i] # None => leases[i] # None /\ SameCover(leases'[i], leases[i])
    /\ InForce(i)' => InForce(i)

(* A session that does not move itself.                                    *)
Sits(k) ==
    /\ stage'[k] = stage[k] /\ want'[k] = want[k]
    /\ mine'[k] = mine[k] /\ holding'[k] = holding[k]

(* The lease with which take() answers covers the place.                   *)
LEMMA RenewedCovers ==
  ASSUME NEW l \in Lease, NEW place \in Place, NEW m \in Minutes
  PROVE  Covers(Renewed(l, place, m), place)
  <1> DEFINE r == Renewed(l, place, m)
             a == l.region
             b == place.region
  <1>1. /\ r.path = l.path
        /\ l.path = place.path => r.region = MergedRegion(a, b)
    BY RenewedHas
  <1> SUFFICES ASSUME l.path = place.path, r.region.lines # {} PROVE Covers(r, place)
    BY <1>1 DEF Covers
  <1> HIDE DEF r
  <1>2. a.lines # {} /\ b.lines # {}
    BY <1>1 DEF MergedRegion, Whole
  <1>3. /\ r.region.lines = a.lines \cup b.lines
        /\ a.names # {} /\ b.names # {} => r.region.names = a.names \cup b.names
        /\ a.names = {} \/ b.names = {} => r.region.names = {}
    <2>1. r.region = MergedRegion(a, b)
      BY <1>1
    <2> HIDE DEF a, b
    <2> QED
      BY <1>2, <2>1 DEF MergedRegion
  <1> QED
    BY <1>2, <1>3 DEF Covers

(* A new lease of a place covers it.                                       *)
LEMMA NewCovers ==
  ASSUME NEW place \in Place, NEW h \in Holder, NEW m \in Minutes
  PROVE  Covers(LeaseFor(place, h, m, FALSE), place)
  BY DEF LeaseFor, Covers

(* Leases on the way to the root from what two sessions write, covering    *)
(* it, meet where that does.                                               *)
LEMMA CoversMeet ==
  ASSUME NEW i \in Id, NEW j \in Id, NEW p \in Place, NEW q \in Place,
         leases[i] \in Lease, leases[j] \in Lease, leases[i] # None, leases[j] # None,
         LeasesWhole, RegionsMeet(p, q),
         Covers(leases[i], p), Holds(leases[i], p),
         Covers(leases[j], q), Holds(leases[j], q)
  PROVE  RegionsMeet(leases[i], leases[j])
  <1> DEFINE l == leases[i]
             m == leases[j]
  <1>0. /\ p.region \in Region /\ q.region \in Region
        /\ l.region \in Region /\ m.region \in Region
        /\ p.path \in Path /\ q.path \in Path /\ l.path \in Path /\ m.path \in Path
    BY PlaceHas DEF Lease
  <1>1. <<p.path, l.path>> \in Under /\ <<q.path, m.path>> \in Under
    BY DEF Holds
  <1>2. Conflicts(l.path, m.path)
    <2>1. CASE <<p.path, q.path>> \in Under
      <3>1. <<p.path, m.path>> \in Under
        BY <1>0, <1>1, <2>1, UnderAssumption
      <3> QED
        BY <1>0, <1>1, <3>1, UnderAssumption DEF Conflicts
    <2>2. CASE <<q.path, p.path>> \in Under
      <3>1. <<q.path, l.path>> \in Under
        BY <1>0, <1>1, <2>2, UnderAssumption
      <3> QED
        BY <1>0, <1>1, <3>1, UnderAssumption DEF Conflicts
    <2> QED
      BY <2>1, <2>2 DEF RegionsMeet, Conflicts
  <1>3. CASE l.path # m.path
    BY <1>2, <1>3 DEF RegionsMeet
  <1>4. CASE l.path = m.path /\ (l.region.lines = {} \/ m.region.lines = {})
    BY <1>0, <1>2, <1>4, RegionHas DEF RegionsMeet
  <1>5. CASE l.path = m.path /\ l.region.lines # {} /\ m.region.lines # {}
    <2>1. p.path = l.path /\ q.path = m.path
      BY <1>1, <1>5 DEF LeasesWhole
    <2>2. /\ p.region.lines # {} /\ p.region.lines \subseteq l.region.lines
          /\ p.region.names = {} => l.region.names = {}
          /\ p.region.names # {} => l.region.names # {}
          /\ l.region.names # {} => p.region.names \subseteq l.region.names
      BY <1>5, <2>1 DEF Covers, Holds
    <2>3. /\ q.region.lines # {} /\ q.region.lines \subseteq m.region.lines
          /\ q.region.names = {} => m.region.names = {}
          /\ q.region.names # {} => m.region.names # {}
          /\ m.region.names # {} => q.region.names \subseteq m.region.names
      BY <1>5, <2>1 DEF Covers, Holds
    <2>4. CASE p.region.names # {} /\ q.region.names # {}
      <3>1. ShareCode(p.region, q.region)
        BY <1>5, <2>1, <2>4 DEF RegionsMeet
      <3>2. ShareCode(l.region, m.region)
        BY <2>2, <2>3, <2>4, <3>1 DEF ShareCode
      <3> QED
        BY <1>2, <1>5, <2>2, <2>3, <2>4, <3>2 DEF RegionsMeet
    <2>5. CASE ~(p.region.names # {} /\ q.region.names # {})
      <3>1. p.region.lines \cap q.region.lines # {}
        BY <1>5, <2>1, <2>2, <2>3, <2>5 DEF RegionsMeet
      <3> QED
        BY <1>2, <1>5, <2>2, <2>3, <2>5, <3>1 DEF RegionsMeet
    <2> QED
      BY <2>4, <2>5
  <1> QED
    BY <1>3, <1>4, <1>5

(* take() as the gate calls it: one lease is written, of h, which covers   *)
(* the place; the others stay where they are, and directories whole.       *)
LEMMA TakenEffect ==
  ASSUME GateInv, NEW h \in Holder, NEW place \in Place, NEW m \in Minutes, NEW i \in Id,
         TakeTaken(h, place, m, i)
  PROVE  /\ leases'[i].holder = h
         /\ Covers(leases'[i], place)
         /\ \A k \in Id \ {i} : leases'[k] = leases[k]
         /\ InForce(i) => leases[i].holder = h
         /\ LeasesWhole'
  <1>t. \A j \in Id : leases[j] # None => leases[j] \in Lease
    BY DEF GateInv, RegisterInv, LeasesTypeOK
  <1>w. LeasesWhole
    BY DEF GateInv
  <1>1. CASE i \in Mine(h, place) /\ Write(i, Renewed(leases[i], place, m))
    <2>1. leases[i] # None /\ leases[i].holder = h
      BY <1>1 DEF Mine, Standing, InForce
    <2>2. leases[i] \in Lease
      BY <1>t, <2>1
    <2>3. /\ leases'[i] = Renewed(leases[i], place, m)
          /\ \A k \in Id \ {i} : leases'[k] = leases[k]
      BY <1>1 DEF Write, GateInv, RegisterInv, LeasesTypeOK
    <2>4. /\ leases'[i].path = leases[i].path
          /\ leases[i].region.lines = {} => leases'[i].region.lines = {}
      <3>1. ASSUME NEW a, NEW b, a.lines = {} PROVE MergedRegion(a, b).lines = {}
        BY <3>1 DEF MergedRegion, Whole
      <3>2. /\ Renewed(leases[i], place, m).path = leases[i].path
            /\ \/ Renewed(leases[i], place, m).region = leases[i].region
               \/ Renewed(leases[i], place, m).region
                     = MergedRegion(leases[i].region, place.region)
        BY <2>2, RenewedHas
      <3> QED
        BY <2>3, <3>1, <3>2
    <2>5. LeasesWhole'
      BY <1>w, <2>1, <2>3, <2>4 DEF LeasesWhole
    <2> QED
      BY <2>1, <2>2, <2>3, <2>5, RenewedHas, RenewedCovers
  <1>2. CASE ~InForce(i) /\ Write(i, LeaseFor(place, h, m, FALSE))
    <2>1. /\ leases'[i] = LeaseFor(place, h, m, FALSE)
          /\ \A k \in Id \ {i} : leases'[k] = leases[k]
      BY <1>2 DEF Write, GateInv, RegisterInv, LeasesTypeOK
    <2>2. /\ leases'[i].holder = h
          /\ leases'[i].path = place.path
          /\ leases'[i].region = place.region
      BY <2>1 DEF LeaseFor
    <2>3. LeasesWhole'
      <3>1. ASSUME NEW k \in Id, leases'[k] # None, NEW q \in Place,
                   <<q.path, leases'[k].path>> \in Under, q.path # leases'[k].path
            PROVE  leases'[k].region.lines = {}
        <4>1. CASE k = i
          <5>1. place.region = Whole
            BY <2>2, <3>1, <4>1, DirectoryAssumption
          <5> QED
            BY <2>2, <4>1, <5>1 DEF Whole
        <4>2. CASE k # i
          BY <1>w, <2>1, <3>1, <4>2 DEF LeasesWhole
        <4> QED
          BY <4>1, <4>2
      <3> QED
        BY <3>1 DEF LeasesWhole
    <2> QED
      BY <1>2, <2>1, <2>2, <2>3, NewCovers
  <1> QED
    BY <1>1, <1>2 DEF TakeTaken

(* The gate's own state is well typed whatever the register does.          *)
LEMMA GateTypeStep == GateTypeOK /\ [Next]_vars => GateTypeOK'
  <1> SUFFICES ASSUME GateTypeOK, [Next]_vars PROVE GateTypeOK'
    OBVIOUS
  <1>0. 0 \in 0 .. Attempts - 1
    BY AttemptsAssumption
  <1>t. \A h \in Holder : tries[h] \in 0 .. Attempts - 1
    BY DEF GateTypeOK
  <1> USE DEF GateTypeOK, Goto, Rest, Verdict, Proceeds
  <1>1. ASSUME NEW h \in Holder, NEW place \in Place, Claim(h, place) PROVE GateTypeOK'
    BY <1>1 DEF Claim, Taken
  <1>2. ASSUME NEW h \in Holder,
               ConfirmShared(h) \/ AnswerIsWait(h) \/ AnswerIsTake(h) \/ ForceTake(h)
        PROVE  GateTypeOK'
    BY <1>2 DEF ConfirmShared, AnswerIsWait, AnswerIsTake, ForceTake
  <1>3. ASSUME NEW h \in Holder, NEW s \in Rest, StandDown(h, s),
               tries' = tries \/ tries' = [tries EXCEPT ![h] = 0]
        PROVE  GateTypeOK'
    BY <1>0, <1>3 DEF StandDown
  <1>4. ASSUME NEW h \in Holder,
               GiveBack(h) \/ AnswerIsRefuse(h) \/ WaitEnds(h) \/ Retake(h) \/ SessionEnds(h)
        PROVE  GateTypeOK'
    BY <1>3, <1>4 DEF GiveBack, AnswerIsRefuse, WaitEnds, Retake, SessionEnds
  <1>5. ASSUME NEW h \in Holder, WaitOut(h) PROVE GateTypeOK'
    <2>1. CASE /\ \E i \in Id : Taken(h, want[h], i)
               /\ Goto(h, "waited")
               /\ tries' = [tries EXCEPT ![h] = 0]
               /\ UNCHANGED <<want, made>>
      BY <1>0, <2>1 DEF Taken
    <2>2. CASE /\ tries[h] + 1 < Attempts
               /\ tries' = [tries EXCEPT ![h] = @ + 1]
               /\ UNCHANGED <<stage, want, mine, holding, made>>
      <3>1. tries[h] + 1 \in 0 .. Attempts - 1
        BY <1>t, <2>2, AttemptsAssumption
      <3> QED
        BY <2>2, <3>1
    <2>3. CASE tries' = [tries EXCEPT ![h] = 0] /\ StandDown(h, "timed_out")
      BY <1>3, <2>3
    <2> QED
      BY <1>5, <2>1, <2>2, <2>3 DEF WaitOut
  <1>8. ASSUME gateVars' = gateVars PROVE GateTypeOK'
    BY <1>8 DEF gateVars
  <1>9. \A h \in Holder : Asks[h] \subseteq Place
    BY AsksAssumption
  <1> QED
    BY <1>1, <1>2, <1>4, <1>5, <1>8, <1>9 DEF Next, GateStep, RegisterMoves, vars

(* A lease that stays where it is is still whole where it was.             *)
LEMMA KeptWhole ==
  ASSUME LeasesWhole, \A i \in Id : Keeps(i)
  PROVE  LeasesWhole'
  BY DEF LeasesWhole, Keeps, SameCover

(* Operations of the register that write no new lease.                     *)
LEMMA OperationsKeep ==
  ASSUME LeasesTypeOK,
         \/ leases' = leases
         \/ \E h \in Holder, i \in Id : Release(h, i)
         \/ \E h \in Holder : ReleaseSession(h)
         \/ \E h \in Holder, m \in Minutes : RenewSession(h, m)
         \/ Forget
         \/ Tick
         \/ \E i \in Id : HolderDies(i)
  PROVE  \A i \in Id : Keeps(i)
  <1>t. \A i \in Id : leases[i] # None => leases[i] \in Lease
    BY DEF LeasesTypeOK
  <1>1. ASSUME leases' = leases PROVE \A i \in Id : Keeps(i)
    BY <1>1 DEF Keeps, InForce, SameCover
  <1>2. ASSUME NEW h \in Holder, NEW i \in Id, Release(h, i) PROVE \A k \in Id : Keeps(k)
    BY <1>t, <1>2 DEF LeasesTypeOK, Release, Write, Released, InForce, LeaseState,
                      SameCover, Lease, Keeps
  <1>3. ASSUME NEW h \in Holder, ReleaseSession(h) PROVE \A k \in Id : Keeps(k)
    BY <1>t, <1>3 DEF LeasesTypeOK, ReleaseSession, Released, InForce, LeaseState,
                      SameCover, Lease, Keeps
  <1>4. ASSUME NEW h \in Holder, NEW m \in Minutes, RenewSession(h, m)
        PROVE  \A k \in Id : Keeps(k)
    BY <1>t, <1>4 DEF LeasesTypeOK, RenewSession, ExtendedTo, InForce, LeaseState,
                      SameCover, Lease, Keeps
  <1>5. ASSUME Forget PROVE \A k \in Id : Keeps(k)
    BY <1>5 DEF LeasesTypeOK, Forget, InForce, SameCover, Keeps
  <1>6. ASSUME Tick PROVE \A k \in Id : Keeps(k)
    <2>1. ASSUME NEW k \in Id, leases'[k] # None
          PROVE  leases[k] # None /\ SameCover(leases'[k], leases[k])
      BY <1>t, <1>6, <2>1 DEF LeasesTypeOK, Tick, InForce, SameCover, Lease
    <2>2. ASSUME NEW k \in Id, InForce(k)' PROVE InForce(k)
      BY <1>6, <2>2 DEF LeasesTypeOK, Tick, InForce
    <2> QED
      BY <2>1, <2>2 DEF Keeps
  <1>7. ASSUME NEW i \in Id, HolderDies(i) PROVE \A k \in Id : Keeps(k)
    BY <1>t, <1>7 DEF LeasesTypeOK, HolderDies, Write, InForce, LeaseState,
                      SameCover, Lease, Keeps
  <1> QED
    BY <1>1, <1>2, <1>3, <1>4, <1>5, <1>6, <1>7

(* A session that sits, with its lease, is as well off as before, if no    *)
(* other session now refers to the slot it keeps.                          *)
LEMMA SitsOK ==
  ASSUME NEW h \in Holder, SessionOK(h), Sits(h),
         stage[h] \in Writing \cup {"force"} => \A i \in Id : i = mine[h] => Keeps(i),
         stage[h] = "force" => \A k \in Holder \ {h} : mine'[k] # mine[h]
  PROVE  SessionOK(h)'
  <1>1. StageOK(h)'
    BY DEF SessionOK, StageOK, Sits
  <1>2. WritingOK(h)'
    <2> SUFFICES ASSUME stage[h] \in Writing, InForce(mine[h])'
                 PROVE  (leases[mine[h]].holder = h /\ Covers(leases[mine[h]], want[h]))'
      BY DEF WritingOK, Sits, InForce
    <2>1. PICK i \in Id : i = mine[h] /\ i = mine'[h] /\ Keeps(i)
      BY DEF SessionOK, StageOK, Sits
    <2>2. InForce(i)' /\ InForce(i) /\ SameCover(leases'[i], leases[i])
      BY <2>1 DEF Keeps, InForce
    <2>3. leases[i].holder = h /\ Covers(leases[i], want[h])
      BY <2>1, <2>2 DEF SessionOK, WritingOK
    <2> QED
      BY <2>1, <2>2, <2>3 DEF SameCover, Covers, Sits
  <1>3. ForcingOK(h)'
    <2> SUFFICES ASSUME stage[h] = "force" PROVE ForcingOK(h)'
      BY DEF ForcingOK, Sits
    <2>1. PICK i \in Id : i = mine[h] /\ i = mine'[h] /\ Keeps(i)
      BY DEF SessionOK, StageOK, Sits
    <2>2. ~InForce(i) /\ \A k \in Holder \ {h} : mine'[k] # i
      BY <2>1 DEF SessionOK, ForcingOK
    <2> QED
      BY <2>1, <2>2 DEF Keeps, ForcingOK, InForce
  <1> QED
    BY <1>1, <1>2, <1>3 DEF SessionOK

(* What a step of the gate has to leave as it was, session by session.     *)
LEMMA GateTogether ==
  ASSUME GateInv, [RegisterOp]_leases, GateTypeOK', LeasesWhole',
         NEW Sitting \in SUBSET Holder,
         \A k \in Holder \ Sitting : SessionOK(k)',
         \A k \in Sitting : Sits(k),
         \A k \in Sitting : stage[k] \in Writing \cup {"force"}
                               => \A i \in Id : i = mine[k] => Keeps(i),
         \A k \in Sitting : stage[k] = "force"
                               => \A l \in Holder \ {k} : mine'[l] # mine[k]
  PROVE  GateInv'
  <1>1. RegisterInv'
    BY RegisterInvStep DEF GateInv
  <1>3. ASSUME NEW k \in Sitting PROVE SessionOK(k)'
    <2>1. k \in Holder /\ SessionOK(k)
      BY DEF GateInv
    <2> QED
      BY <2>1, SitsOK
  <1> QED
    BY <1>1, <1>3 DEF GateInv

(* Steps that write no new lease and give no session another lease.        *)
LEMMA GateQuiet ==
  ASSUME GateInv, NEW h \in Holder,
         \/ leases' = leases
         \/ \E i \in Id : Release(h, i)
         \/ ReleaseSession(h),
         GateTypeOK', SessionOK(h)',
         \A k \in Holder \ {h} : Sits(k),
         mine'[h] \in {mine[h], None}
  PROVE  GateInv'
  <1>1. \A i \in Id : Keeps(i)
    BY OperationsKeep DEF GateInv, RegisterInv
  <1>2. LeasesWhole'
    BY <1>1, KeptWhole DEF GateInv
  <1>3. [RegisterOp]_leases
    BY DEF RegisterOp
  <1>4. ASSUME NEW k \in Holder \ {h}, stage[k] = "force", NEW l \in Holder \ {k}
        PROVE  mine'[l] # mine[k]
    <2>1. mine[k] \in Id /\ mine[l] # mine[k]
      BY <1>4 DEF GateInv, SessionOK, StageOK, ForcingOK
    <2>2. CASE mine'[l] = mine[l]
      BY <2>1, <2>2
    <2>3. CASE mine'[l] = None
      BY <2>1, <2>3, IdAssumption
    <2> QED
      BY <2>2, <2>3 DEF Sits
  <1>5. Holder \ {h} \in SUBSET Holder /\ Holder \ (Holder \ {h}) = {h}
    OBVIOUS
  <1> QED
    BY <1>1, <1>2, <1>3, <1>4, <1>5, GateTogether

(* take(), wherever the gate calls it.                                     *)
LEMMA GateTakes ==
  ASSUME GateInv, NEW h \in Holder, NEW place \in Place, NEW m \in Minutes, NEW i \in Id,
         TakeTaken(h, place, m, i), NewToOthers(h, i), GateTypeOK',
         \A k \in Holder \ {h} : Sits(k),
         mine'[h] \in {i, None},
         SessionOK(h)'
  PROVE  GateInv'
  <1>1. /\ \A k \in Id \ {i} : leases'[k] = leases[k]
        /\ InForce(i) => leases[i].holder = h
        /\ LeasesWhole'
    BY TakenEffect
  <1>2. [RegisterOp]_leases
    BY DEF RegisterOp
  <1>3. ASSUME NEW k \in Holder \ {h}, stage[k] \in Writing \cup {"force"}
        PROVE  mine[k] # i
    <2> SUFFICES ASSUME mine[k] = i PROVE FALSE
      OBVIOUS
    <2>1. InForce(i)
      BY DEF NewToOthers
    <2>2. SessionOK(k)
      BY DEF GateInv
    <2>3. CASE stage[k] \in Writing
      BY <1>1, <2>1, <2>2, <2>3 DEF SessionOK, WritingOK
    <2>4. CASE stage[k] = "force"
      BY <2>1, <2>2, <2>4 DEF SessionOK, ForcingOK
    <2> QED
      BY <1>3, <2>3, <2>4
  <1>4. ASSUME NEW k \in Holder \ {h}, stage[k] \in Writing \cup {"force"}
        PROVE  \A j \in Id : j = mine[k] => Keeps(j)
    BY <1>1, <1>3, <1>4 DEF Keeps, SameCover, InForce
  <1>5. ASSUME NEW k \in Holder \ {h}, stage[k] = "force", NEW l \in Holder \ {k}
        PROVE  mine'[l] # mine[k]
    <2>1. mine[k] \in Id /\ mine[l] # mine[k] /\ mine[k] # i
      BY <1>3, <1>5 DEF GateInv, SessionOK, StageOK, ForcingOK
    <2> QED
      BY <2>1, IdAssumption DEF Sits
  <1>6. Holder \ {h} \in SUBSET Holder /\ Holder \ (Holder \ {h}) = {h}
    OBVIOUS
  <1> QED
    BY <1>1, <1>2, <1>4, <1>5, <1>6, GateTogether

(* take() with which a claim gets its lease: h may write on it.            *)
LEMMA GateTakesToWrite ==
  ASSUME GateInv, NEW h \in Holder, NEW place \in Place, NEW i \in Id,
         Taken(h, place, i), GateTypeOK',
         \A k \in Holder \ {h} : Sits(k),
         want'[h] = place,
         stage'[h] \in {"confirm", "waited"}
  PROVE  GateInv'
  <1>1. PICK m \in Minutes : TakeTaken(h, place, m, i)
    BY DEF Taken
  <1>2. leases'[i].holder = h /\ Covers(leases'[i], place)
    BY <1>1, TakenEffect
  <1>3. mine'[h] = i
    BY DEF Taken, GateInv, GateTypeOK
  <1>4. SessionOK(h)'
    <2>1. StageOK(h)'
      BY <1>3 DEF StageOK
    <2>2. WritingOK(h)'
      BY <1>2, <1>3 DEF WritingOK
    <2>3. ForcingOK(h)'
      BY DEF ForcingOK
    <2> QED
      BY <2>1, <2>2, <2>3 DEF SessionOK
  <1> QED
    BY <1>1, <1>3, <1>4, GateTakes DEF Taken

(* takeOver() of the lease in the way: h's new lease is in the slot kept   *)
(* for it, whole, on the path of the one taken over.                       *)
LEMMA ForceKeeps ==
  ASSUME GateInv, NEW h \in Holder, ForceTake(h)
  PROVE  GateInv'
  <1>0. /\ GateTypeOK
        /\ \A k \in Holder : StageOK(k)
        /\ \A k \in Holder : ForcingOK(k)
    BY DEF GateInv, SessionOK
  <1>1. /\ stage[h] = "force" /\ stage'[h] = "retake"
        /\ want' = want /\ mine'[h] = None
        /\ \A k \in Holder \ {h} : Sits(k)
    BY <1>0 DEF ForceTake, Goto, Sits, GateTypeOK
  <1>2. /\ want[h] \in Place /\ mine[h] \in Id /\ holding[h] \in Id
        /\ \A k \in Holder \ {h} : mine[k] # mine[h]
    BY <1>0, <1>1 DEF StageOK, ForcingOK
  <1>3. GateTypeOK'
    BY <1>0, GateTypeStep DEF Next, GateStep
  <1>5. SessionOK(h)'
    BY <1>1, <1>2 DEF SessionOK, StageOK, WritingOK, ForcingOK, Writing
  <1>6. CASE TakeOverNotFound(holding[h])
    BY <1>1, <1>3, <1>5, <1>6, GateQuiet DEF TakeOverNotFound
  <1>7. CASE TakeOver(holding[h], h, mine[h])
    <2> DEFINE i == holding[h]
               j == mine[h]
               new == LeaseFor([path |-> leases[i].path, region |-> Whole], h, MaxMinutes, TRUE)
    <2>1. /\ leases'[j] = new
          /\ leases'[i] = [leases[i] EXCEPT !.over = "taken_over"]
          /\ leases[i] # None
          /\ \A k \in Id \ {i, j} : leases'[k] = leases[k]
      BY <1>2, <1>7 DEF TakeOver, GateInv, RegisterInv, LeasesTypeOK
    <2>2. leases[i] \in Lease
      BY <1>2, <2>1 DEF GateInv, RegisterInv, LeasesTypeOK
    <2>3. SameCover(leases'[i], leases[i]) /\ leases'[i].over = "taken_over"
      BY <2>1, <2>2 DEF SameCover, Lease
    <2>4. new.region.lines = {}
      BY DEF LeaseFor, Whole
    <2>5. ASSUME NEW k \in Id \ {j} PROVE Keeps(k)
      <3>1. CASE k = i
        <4>1. ~InForce(k)'
          BY <2>3, <3>1 DEF InForce, LeaseState
        <4> QED
          BY <2>1, <2>3, <3>1, <4>1 DEF Keeps
      <3>2. CASE k # i
        BY <2>1, <3>2 DEF Keeps, InForce, SameCover
      <3> QED
        BY <3>1, <3>2
    <2>7. LeasesWhole'
      <3>1. ASSUME NEW k \in Id, leases'[k] # None, NEW q \in Place,
                   <<q.path, leases'[k].path>> \in Under, q.path # leases'[k].path
            PROVE  leases'[k].region.lines = {}
        <4>1. CASE k = j
          BY <2>1, <2>4, <4>1
        <4>2. CASE k # j
          BY <2>5, <3>1, <4>2 DEF Keeps, SameCover, GateInv, LeasesWhole
        <4> QED
          BY <4>1, <4>2
      <3> QED
        BY <3>1 DEF LeasesWhole
    <2>8. [RegisterOp]_leases
      BY <1>2, <1>7 DEF RegisterOp
    <2>9. ASSUME NEW k \in Holder \ {h}, stage[k] = "force", NEW l \in Holder \ {k}
          PROVE  mine'[l] # mine[k]
      <3>1. mine[k] \in Id /\ mine[l] # mine[k]
        BY <1>0, <2>9 DEF StageOK, ForcingOK
      <3> QED
        BY <1>1, <3>1, IdAssumption DEF Sits
    <2>10. Holder \ {h} \in SUBSET Holder /\ Holder \ (Holder \ {h}) = {h}
      OBVIOUS
    <2>11. \A k \in Holder \ {h} : \A x \in Id : x = mine[k] => Keeps(x)
      BY <1>2, <2>5
    <2> QED
      BY <1>1, <1>3, <1>5, <2>7, <2>8, <2>9, <2>10, <2>11, GateTogether
  <1> QED
    BY <1>6, <1>7 DEF ForceTake

(* Every step of the gate keeps GateInv.                                   *)
LEMMA GateInvStep == GateInv /\ [Next]_vars => GateInv'
  <1> SUFFICES ASSUME GateInv, [Next]_vars PROVE GateInv'
    OBVIOUS
  <1>0. /\ GateTypeOK
        /\ \A h \in Holder : StageOK(h)
        /\ \A h \in Holder : ForcingOK(h)
    BY DEF GateInv, SessionOK
  <1>T. GateTypeOK'
    BY <1>0, GateTypeStep
  <1>1. ASSUME NEW h \in Holder, NEW place \in Place, Claim(h, place) PROVE GateInv'
    <2>1. CASE \E i \in Id : Taken(h, place, i) /\ Goto(h, "confirm")
      <3>1. PICK i \in Id : Taken(h, place, i) /\ Goto(h, "confirm")
        BY <2>1
      <3>2. \A k \in Holder \ {h} : Sits(k)
        BY <1>0, <1>1, <3>1 DEF Claim, Taken, Goto, Sits, GateTypeOK
      <3>3. want'[h] = place /\ stage'[h] = "confirm"
        BY <1>0, <1>1, <3>1 DEF Claim, Goto, GateTypeOK
      <3> QED
        BY <3>1, <3>2, <3>3, <1>T, GateTakesToWrite
    <2>2. CASE \E i \in Id : /\ TakeBlocked(h, place, i)
                             /\ mine' = [mine EXCEPT ![h] = None]
                             /\ holding' = [holding EXCEPT ![h] = i]
                             /\ Goto(h, "ask")
      <3>1. PICK i \in Id : /\ leases' = leases
                            /\ mine' = [mine EXCEPT ![h] = None]
                            /\ holding' = [holding EXCEPT ![h] = i]
                            /\ Goto(h, "ask")
        BY <2>2 DEF TakeBlocked
      <3>2. \A k \in Holder \ {h} : Sits(k)
        BY <1>0, <1>1, <3>1 DEF Claim, Goto, Sits, GateTypeOK
      <3>3. want'[h] = place /\ stage'[h] = "ask" /\ mine'[h] = None /\ holding'[h] = i
        BY <1>0, <1>1, <3>1 DEF Claim, Goto, GateTypeOK
      <3>5. SessionOK(h)'
        BY <3>3 DEF SessionOK, StageOK, WritingOK, ForcingOK, Writing
      <3> QED
        BY <3>1, <3>2, <3>3, <1>T, <3>5, GateQuiet
    <2> QED
      BY <1>1, <2>1, <2>2 DEF Claim
  <1>q. ASSUME NEW h \in Holder, leases' = leases, want' = want, mine' = mine,
               holding' = holding \/ holding' = [holding EXCEPT ![h] = None],
               NEW s \in {"give_back", "taken", "wait"}, Goto(h, s), SessionOK(h)'
        PROVE  GateInv'
    <2>1. \A k \in Holder \ {h} : Sits(k)
      BY <1>0, <1>q DEF Goto, Sits, GateTypeOK
    <2> QED
      BY <1>q, <2>1, <1>T, GateQuiet
  <1>s. ASSUME NEW h \in Holder, NEW s \in Rest \ Writing, StandDown(h, s)
        PROVE  (\A k \in Holder \ {h} : Sits(k)) /\ mine'[h] = None /\ SessionOK(h)'
    <2>1. (\A k \in Holder \ {h} : Sits(k)) /\ mine'[h] = None /\ stage'[h] = s
      BY <1>0, <1>s DEF StandDown, Goto, Sits, GateTypeOK
    <2>2. SessionOK(h)'
      BY <2>1 DEF SessionOK, StageOK, WritingOK, ForcingOK, Writing, Rest, Verdict, Proceeds
    <2> QED
      BY <2>1, <2>2
  <1>d. ASSUME NEW h \in Holder, NEW s \in Rest \ Writing, StandDown(h, s),
               leases' = leases \/ (\E i \in Id : Release(h, i)) \/ ReleaseSession(h)
        PROVE  GateInv'
    BY <1>d, <1>s, <1>T, GateQuiet
  <1>e. {"refused", "timed_out", "took_over", "idle"} \subseteq Rest \ Writing
    BY DEF Rest, Verdict, Proceeds, Writing
  <1>2. ASSUME NEW h \in Holder, ConfirmShared(h) PROVE GateInv'
    <2>1. stage[h] = "confirm" /\ SessionOK(h)
      BY <1>2 DEF ConfirmShared, GateInv
    <2>2. PICK s \in {"give_back", "taken"} : Goto(h, s)
      BY <1>2 DEF ConfirmShared
    <2>3. stage'[h] = s /\ leases' = leases /\ want' = want /\ mine' = mine /\ holding' = holding
      BY <1>0, <1>2, <2>2 DEF ConfirmShared, Goto, GateTypeOK
    <2>4. SessionOK(h)'
      BY <2>1, <2>3 DEF SessionOK, StageOK, WritingOK, ForcingOK, Writing, InForce
    <2> QED
      BY <1>q, <1>2, <2>2, <2>3, <2>4 DEF ConfirmShared
  <1>3. ASSUME NEW h \in Holder, GiveBack(h) PROVE GateInv'
    <2>1. mine[h] \in Id
      BY <1>0, <1>3 DEF GiveBack, StageOK
    <2>2. leases' = leases \/ \E i \in Id : Release(h, i)
      BY <1>3, <2>1 DEF GiveBack
    <2> QED
      BY <1>d, <1>e, <1>3, <2>2 DEF GiveBack
  <1>4. ASSUME NEW h \in Holder, AnswerIsWait(h) PROVE GateInv'
    <2>1. stage'[h] = "wait" /\ want' = want /\ want[h] \in Place
      BY <1>0, <1>4 DEF AnswerIsWait, Goto, GateTypeOK, StageOK
    <2>2. SessionOK(h)'
      BY <2>1 DEF SessionOK, StageOK, WritingOK, ForcingOK, Writing
    <2> QED
      BY <1>q, <1>4, <2>2 DEF AnswerIsWait
  <1>5. ASSUME NEW h \in Holder, AnswerIsTake(h) PROVE GateInv'
    <2>1. PICK j \in Id : /\ ~InForce(j) /\ NewToOthers(h, j)
                          /\ mine' = [mine EXCEPT ![h] = j]
      BY <1>5 DEF AnswerIsTake
    <2>2. /\ stage'[h] = "force" /\ stage[h] = "ask" /\ mine'[h] = j
          /\ leases' = leases /\ want' = want /\ holding' = holding
          /\ \A k \in Holder \ {h} : mine'[k] = mine[k] /\ stage'[k] = stage[k]
      BY <1>0, <1>5, <2>1 DEF AnswerIsTake, Goto, GateTypeOK
    <2>3. \A k \in Holder \ {h} : Sits(k)
      BY <2>2 DEF Sits
    <2>4. \A k \in Holder \ {h} : mine[k] # j
      BY <2>1 DEF NewToOthers
    <2>5. SessionOK(h)'
      <3>1. StageOK(h)'
        BY <1>0, <2>2 DEF StageOK
      <3>2. WritingOK(h)'
        BY <2>2 DEF WritingOK, Writing
      <3>3. ForcingOK(h)'
        BY <2>1, <2>2, <2>4 DEF ForcingOK, InForce
      <3> QED
        BY <3>1, <3>2, <3>3 DEF SessionOK
    <2>7. LeasesWhole' /\ [RegisterOp]_leases
      BY <2>2 DEF GateInv, LeasesWhole
    <2>8. \A i \in Id : Keeps(i)
      BY <2>2 DEF Keeps, InForce, SameCover
    <2>9. ASSUME NEW k \in Holder \ {h}, stage[k] = "force", NEW l \in Holder \ {k}
          PROVE  mine'[l] # mine[k]
      BY <1>0, <2>2, <2>4, <2>9 DEF ForcingOK
    <2>10. Holder \ {h} \in SUBSET Holder /\ Holder \ (Holder \ {h}) = {h}
      OBVIOUS
    <2> QED
      BY <2>3, <2>5, <1>T, <2>7, <2>8, <2>9, <2>10, GateTogether
  <1>6. ASSUME NEW h \in Holder, AnswerIsRefuse(h) PROVE GateInv'
    BY <1>d, <1>e, <1>6 DEF AnswerIsRefuse
  <1>7. ASSUME NEW h \in Holder, WaitOut(h) PROVE GateInv'
    <2>0. stage[h] = "wait" /\ want[h] \in Place
      BY <1>0, <1>7 DEF WaitOut, StageOK
    <2>1. CASE /\ \E i \in Id : Taken(h, want[h], i)
               /\ Goto(h, "waited")
               /\ tries' = [tries EXCEPT ![h] = 0]
               /\ UNCHANGED <<want, made>>
      <3>1. PICK i \in Id : Taken(h, want[h], i)
        BY <2>1
      <3>2. \A k \in Holder \ {h} : Sits(k)
        BY <1>0, <2>1, <3>1 DEF Taken, Goto, Sits, GateTypeOK
      <3>3. want'[h] = want[h] /\ stage'[h] = "waited"
        BY <1>0, <2>1 DEF Goto, GateTypeOK
      <3> QED
        BY <2>0, <3>1, <3>2, <3>3, <1>T, GateTakesToWrite
    <2>2. CASE /\ \E i \in Id : TakeBlocked(h, want[h], i)
               /\ tries[h] + 1 < Attempts
               /\ tries' = [tries EXCEPT ![h] = @ + 1]
               /\ UNCHANGED <<stage, want, mine, holding, made>>
      <3>1. \A k \in Holder \ {h} : Sits(k)
        BY <2>2 DEF Sits
      <3>2. leases' = leases /\ stage' = stage /\ want' = want /\ mine' = mine
        BY <2>2 DEF TakeBlocked
      <3>4. SessionOK(h)'
        BY <2>0, <3>2 DEF SessionOK, StageOK, WritingOK, ForcingOK, Writing
      <3> QED
        BY <3>1, <3>2, <1>T, <3>4, GateQuiet
    <2>3. CASE /\ \E i \in Id : TakeBlocked(h, want[h], i)
               /\ tries' = [tries EXCEPT ![h] = 0]
               /\ StandDown(h, "timed_out")
      BY <1>d, <1>e, <2>3 DEF TakeBlocked
    <2> QED
      BY <1>7, <2>1, <2>2, <2>3 DEF WaitOut
  <1>8. ASSUME NEW h \in Holder, WaitEnds(h) PROVE GateInv'
    BY <1>d, <1>e, <1>8 DEF WaitEnds
  <1>9. ASSUME NEW h \in Holder, ForceTake(h) PROVE GateInv'
    BY <1>9, ForceKeeps
  <1>10. ASSUME NEW h \in Holder, Retake(h) PROVE GateInv'
    <2>0. stage[h] = "retake" /\ want[h] \in Place
      BY <1>0, <1>10 DEF Retake, StageOK, Rest, Verdict, Proceeds
    <2>1. CASE \E i \in Id, m \in Minutes : NewToOthers(h, i) /\ TakeTaken(h, want[h], m, i)
      <3>1. PICK i \in Id, m \in Minutes : NewToOthers(h, i) /\ TakeTaken(h, want[h], m, i)
        BY <2>1
      <3>2. (\A k \in Holder \ {h} : Sits(k)) /\ mine'[h] = None /\ SessionOK(h)'
        BY <1>10, <1>e, <1>s DEF Retake
      <3> QED
        BY <2>0, <3>1, <3>2, <1>T, GateTakes
    <2>2. CASE \E i \in Id : TakeBlocked(h, want[h], i)
      BY <1>10, <2>2, <1>d, <1>e DEF Retake, TakeBlocked
    <2> QED
      BY <1>10, <2>1, <2>2 DEF Retake
  <1>11. ASSUME NEW h \in Holder, SessionEnds(h) PROVE GateInv'
    BY <1>11, <1>d, <1>e DEF SessionEnds
  <1>12. ASSUME RegisterMoves \/ vars' = vars PROVE GateInv'
    <2>1. \A i \in Id : Keeps(i)
      BY <1>12, OperationsKeep DEF RegisterMoves, vars, GateInv, RegisterInv
    <2>2. LeasesWhole'
      BY <2>1, KeptWhole DEF GateInv
    <2>3. [RegisterOp]_leases
      BY <1>12 DEF RegisterMoves, vars, RegisterOp
    <2>4. gateVars' = gateVars
      BY <1>12 DEF RegisterMoves, vars
    <2>5. \A k \in Holder : Sits(k)
      BY <2>4 DEF gateVars, Sits
    <2>6. ASSUME NEW k \in Holder, stage[k] = "force", NEW l \in Holder \ {k}
          PROVE  mine'[l] # mine[k]
      BY <1>0, <2>4, <2>6 DEF gateVars, ForcingOK
    <2>7. Holder \in SUBSET Holder /\ Holder \ Holder = {}
      OBVIOUS
    <2> QED
      BY <1>T, <2>1, <2>2, <2>3, <2>5, <2>6, <2>7, GateTogether
  <1>13. \A h \in Holder : Asks[h] \subseteq Place
    BY AsksAssumption
  <1> QED
    BY <1>1, <1>2, <1>3, <1>4, <1>5, <1>6, <1>7, <1>8, <1>9, <1>10, <1>11, <1>12, <1>13
       DEF Next, GateStep

(* The inductive invariant of the gate over the register: a session told   *)
(* to write holds a lease of its own that, on the path it asked for,       *)
(* covers what it asked, while that is in force; a directory is held       *)
(* whole; and the slot of a take-over under way is nobody else's.          *)
THEOREM GateInvariant ==
  Spec /\ NamesFollowLines => []GateInv
  <1>1. Init /\ NamesFollowLines => GateInv
    <2> SUFFICES ASSUME Init, NamesFollowLines PROVE GateInv
      OBVIOUS
    <2>1. RegisterInv /\ LeasesWhole
      BY DEF Init, LeasesInit, RegisterInv, LeasesTypeOK, OnlyForceOverlaps, Standing, InForce,
             LeasesFollowLines, LeasesWhole
    <2>2. GateTypeOK
      <3>1. 0 \in 0 .. Attempts - 1
        BY AttemptsAssumption
      <3> QED
        BY <3>1 DEF Init, GateTypeOK, Rest
    <2>3. \A h \in Holder : SessionOK(h)
      BY DEF Init, SessionOK, StageOK, WritingOK, ForcingOK, Writing, Rest
    <2> QED
      BY <2>1, <2>2, <2>3 DEF GateInv
  <1> QED
    BY <1>1, GateInvStep, PTL DEF Spec

(* For any sessions, directories, files, parts of files and leases, and    *)
(* whatever is released, expires, dies or is taken over meanwhile: two     *)
(* sessions LeaseGate.claim let write are not in the same code, each on a  *)
(* lease still in force, not forced, on the path it asked for or above it, *)
(* and with names where it named what it writes.                           *)
THEOREM GateKeepsWritersApart ==
  Spec /\ NamesFollowLines => []WritersApart
  <1>1. ASSUME GateInv PROVE WritersApart
    <2> SUFFICES ASSUME NEW h \in Holder, NEW k \in Holder, h # k, WritesByLease(h),
                        WritesByLease(k), RegionsMeet(want[h], want[k])
                 PROVE  FALSE
      BY DEF WritersApart
    <2>1. ASSUME NEW g \in Holder, WritesByLease(g)
          PROVE  /\ want[g] \in Place
                 /\ mine[g] \in Id
                 /\ mine[g] \in Standing
                 /\ leases[mine[g]] \in Lease
                 /\ leases[mine[g]] # None
                 /\ leases[mine[g]].holder = g
                 /\ ~leases[mine[g]].forced
                 /\ Covers(leases[mine[g]], want[g])
                 /\ Holds(leases[mine[g]], want[g])
      <3>1. SessionOK(g) /\ stage[g] \in Writing /\ InForce(mine[g])
            /\ stage[g] \notin {"idle", "refused", "timed_out", "took_over"}
        BY <1>1, <2>1 DEF GateInv, WritesByLease, Writing
      <3>2. want[g] \in Place /\ mine[g] \in Id
        BY <3>1 DEF SessionOK, StageOK
      <3>3. leases[mine[g]].holder = g /\ Covers(leases[mine[g]], want[g])
        BY <3>1 DEF SessionOK, WritingOK
      <3>4. mine[g] \in Standing /\ leases[mine[g]] \in Lease /\ leases[mine[g]] # None
        BY <1>1, <3>1, <3>2 DEF Standing, InForce, GateInv, RegisterInv, LeasesTypeOK
      <3> QED
        BY <2>1, <3>2, <3>3, <3>4 DEF WritesByLease
    <2>2. RegionsMeet(leases[mine[h]], leases[mine[k]])
      BY <1>1, <2>1, CoversMeet DEF GateInv
    <2>3. ~RegionsMeet(leases[mine[h]], leases[mine[k]])
      BY <1>1, <2>1 DEF GateInv, RegisterInv, OnlyForceOverlaps, Apart
    <2> QED
      BY <2>2, <2>3
  <1> QED
    BY <1>1, GateInvariant, PTL

(* A claim always has what its stage relies on.                            *)
LEMMA StageStep ==
  ASSUME GateTypeOK, \A h \in Holder : StageOK(h), [Next]_vars
  PROVE  \A h \in Holder : StageOK(h)'
  <1>s. ASSUME NEW h \in Holder, \A k \in Holder \ {h} : Sits(k), StageOK(h)'
        PROVE  \A k \in Holder : StageOK(k)'
    BY <1>s DEF Sits, StageOK
  <1> USE DEF StageOK, Writing, Sits, Goto, GateTypeOK
  <1>1. ASSUME NEW h \in Holder, NEW place \in Place, Claim(h, place)
        PROVE  \A k \in Holder : StageOK(k)'
    BY <1>s, <1>1 DEF Claim, Taken
  <1>2. ASSUME NEW h \in Holder,
               NEW s \in {"refused", "timed_out", "took_over", "idle"}, StandDown(h, s)
        PROVE  \A k \in Holder : StageOK(k)'
    BY <1>s, <1>2 DEF StandDown
  <1>3. ASSUME NEW h \in Holder,
               ConfirmShared(h) \/ AnswerIsWait(h) \/ AnswerIsTake(h) \/ ForceTake(h)
        PROVE  \A k \in Holder : StageOK(k)'
    BY <1>s, <1>3 DEF ConfirmShared, AnswerIsWait, AnswerIsTake, ForceTake
  <1>4. ASSUME NEW h \in Holder,
               GiveBack(h) \/ AnswerIsRefuse(h) \/ WaitEnds(h) \/ Retake(h) \/ SessionEnds(h)
        PROVE  \A k \in Holder : StageOK(k)'
    BY <1>2, <1>4 DEF GiveBack, AnswerIsRefuse, WaitEnds, Retake, SessionEnds
  <1>5. ASSUME NEW h \in Holder, WaitOut(h) PROVE \A k \in Holder : StageOK(k)'
    <2>1. CASE /\ \E i \in Id : Taken(h, want[h], i)
               /\ Goto(h, "waited")
               /\ UNCHANGED want
      BY <1>s, <1>5, <2>1 DEF WaitOut, Taken
    <2>2. CASE UNCHANGED <<stage, want, mine, holding>>
      BY <2>2
    <2>3. CASE StandDown(h, "timed_out")
      BY <1>2, <2>3
    <2> QED
      BY <1>5, <2>1, <2>2, <2>3 DEF WaitOut
  <1>6. ASSUME gateVars' = gateVars PROVE \A k \in Holder : StageOK(k)'
    BY <1>6 DEF gateVars
  <1>7. \A h \in Holder : Asks[h] \subseteq Place
    BY AsksAssumption
  <1> QED
    BY <1>1, <1>3, <1>4, <1>5, <1>6, <1>7 DEF Next, GateStep, RegisterMoves, vars

(* The gate moves the register only by the register's operations.          *)
LEMMA GateMovesRegister ==
  ASSUME \A h \in Holder : StageOK(h), [Next]_vars
  PROVE  [RegisterOp]_leases
  <1>1. \A h \in Holder : Asks[h] \subseteq Place
    BY AsksAssumption
  <1>2. ASSUME NEW h \in Holder, NEW place \in Asks[h], Claim(h, place)
        PROVE  [RegisterOp]_leases
    BY <1>1, <1>2 DEF Claim, Taken, TakeBlocked, RegisterOp
  <1>3. ASSUME NEW h \in Holder, WaitOut(h) \/ Retake(h) PROVE [RegisterOp]_leases
    <2>1. want[h] \in Place
      BY <1>3 DEF WaitOut, Retake, StageOK
    <2>2. \/ \E i \in Id, m \in Minutes : TakeTaken(h, want[h], m, i)
          \/ leases' = leases
      BY <1>3 DEF WaitOut, Retake, Taken, TakeBlocked
    <2> QED
      BY <2>1, <2>2 DEF RegisterOp
  <1>4. ASSUME NEW h \in Holder, ForceTake(h) PROVE [RegisterOp]_leases
    BY <1>4 DEF ForceTake, TakeOverNotFound, RegisterOp, StageOK
  <1>5. ASSUME NEW h \in Holder, GiveBack(h) PROVE [RegisterOp]_leases
    BY <1>5 DEF GiveBack, RegisterOp, StageOK
  <1>6. ASSUME NEW h \in Holder,
               \/ ConfirmShared(h) \/ AnswerIsWait(h) \/ AnswerIsTake(h)
               \/ AnswerIsRefuse(h) \/ WaitEnds(h)
        PROVE  [RegisterOp]_leases
    BY <1>6 DEF ConfirmShared, AnswerIsWait, AnswerIsTake, AnswerIsRefuse, WaitEnds
  <1>7. ASSUME NEW h \in Holder, SessionEnds(h) PROVE [RegisterOp]_leases
    BY <1>7 DEF SessionEnds, RegisterOp
  <1>8. ASSUME RegisterMoves \/ UNCHANGED vars PROVE [RegisterOp]_leases
    BY <1>8 DEF RegisterMoves, RegisterOp, vars
  <1> QED
    BY <1>2, <1>3, <1>4, <1>5, <1>6, <1>7, <1>8 DEF Next, GateStep

(* Until its verdict, what a claim made is the lease it would give back,   *)
(* and only a claim still to be confirmed has made one.                    *)
MadeOK ==
    \A h \in Holder :
        IF stage[h] \in {"confirm", "give_back"} THEN made[h] \in {None, mine[h]}
                                               ELSE made[h] = None

(* No step of a claim, and none of another session, changes which lease    *)
(* that is.                                                                *)
LEMMA MadeStep ==
  ASSUME GateTypeOK, MadeOK, [Next]_vars
  PROVE  MadeOK'
  <1>s. ASSUME NEW h \in Holder,
               \A k \in Holder \ {h} :
                   stage'[k] = stage[k] /\ mine'[k] = mine[k] /\ made'[k] = made[k],
               IF stage'[h] \in {"confirm", "give_back"} THEN made'[h] \in {None, mine'[h]}
                                                        ELSE made'[h] = None
        PROVE  MadeOK'
    BY <1>s DEF MadeOK
  <1>1. ASSUME NEW h \in Holder, NEW place \in Place, Claim(h, place) PROVE MadeOK'
    <2>1. CASE \E i \in Id :
                   /\ Taken(h, place, i)
                   /\ made' = [made EXCEPT ![h] = IF InForce(i) THEN None ELSE i]
                   /\ Goto(h, "confirm")
      BY <1>s, <2>1 DEF Taken, Goto, GateTypeOK
    <2>2. CASE \E i \in Id :
                   /\ mine' = [mine EXCEPT ![h] = None]
                   /\ made' = [made EXCEPT ![h] = None]
                   /\ Goto(h, "ask")
      BY <1>s, <2>2 DEF Goto, GateTypeOK
    <2> QED
      BY <1>1, <2>1, <2>2 DEF Claim
  <1>2. ASSUME NEW h \in Holder, NEW s \in Rest, StandDown(h, s) PROVE MadeOK'
    BY <1>s, <1>2 DEF StandDown, Goto, GateTypeOK, Rest, Verdict, Proceeds
  <1>3. ASSUME NEW h \in Holder, ConfirmShared(h) PROVE MadeOK'
    BY <1>s, <1>3 DEF ConfirmShared, Goto, GateTypeOK, MadeOK
  <1>4. ASSUME NEW h \in Holder,
               AnswerIsWait(h) \/ AnswerIsTake(h) \/ ForceTake(h)
        PROVE  MadeOK'
    BY <1>s, <1>4 DEF AnswerIsWait, AnswerIsTake, ForceTake, Goto, GateTypeOK, MadeOK
  <1>5. ASSUME NEW h \in Holder, WaitOut(h) PROVE MadeOK'
    <2>1. CASE /\ \E i \in Id : Taken(h, want[h], i)
               /\ Goto(h, "waited")
               /\ UNCHANGED made
      BY <1>s, <1>5, <2>1 DEF WaitOut, Taken, Goto, GateTypeOK, MadeOK
    <2>2. CASE UNCHANGED <<stage, mine, made>>
      BY <2>2 DEF MadeOK
    <2>3. CASE StandDown(h, "timed_out")
      BY <1>2, <2>3 DEF Rest, Verdict
    <2> QED
      BY <1>5, <2>1, <2>2, <2>3 DEF WaitOut
  <1>6. ASSUME NEW h \in Holder,
               GiveBack(h) \/ AnswerIsRefuse(h) \/ WaitEnds(h) \/ Retake(h) \/ SessionEnds(h)
        PROVE  MadeOK'
    BY <1>2, <1>6 DEF GiveBack, AnswerIsRefuse, WaitEnds, Retake, SessionEnds,
                      Rest, Verdict, Proceeds
  <1>7. ASSUME gateVars' = gateVars PROVE MadeOK'
    BY <1>7 DEF gateVars, MadeOK
  <1>8. \A h \in Holder : Asks[h] \subseteq Place
    BY AsksAssumption
  <1> QED
    BY <1>1, <1>3, <1>4, <1>5, <1>6, <1>7, <1>8 DEF Next, GateStep, RegisterMoves, vars

(* A claim that ends refused, wherever that was decided and whatever other *)
(* sessions and the clock do between its take and its release, leaves no   *)
(* lease in force that it made.                                            *)
THEOREM RefusalLeavesNothing == Spec => RefusedLeavesNothing
  <1>1. Init => LeasesTypeOK /\ GateTypeOK /\ MadeOK /\ \A h \in Holder : StageOK(h)
    <2>1. 0 \in 0 .. Attempts - 1
      BY AttemptsAssumption
    <2> QED
      BY <2>1 DEF Init, LeasesInit, LeasesTypeOK, GateTypeOK, Rest, MadeOK, StageOK,
                    Writing
  <1> DEFINE Final == \A h \in Holder, i \in Id :
          stage[h] \notin Rest /\ stage'[h] \in {"refused", "timed_out"}
              /\ made[h] = i /\ InForce(i)'
              => leases'[i].holder # h
  <1>2. ASSUME LeasesTypeOK, GateTypeOK, MadeOK, [Next]_vars PROVE Final
    <2> SUFFICES ASSUME NEW h \in Holder, NEW i \in Id, stage[h] \notin Rest,
                        stage'[h] \in {"refused", "timed_out"}, made[h] = i, InForce(i)'
                 PROVE  FALSE
      OBVIOUS
    <2>1. stage[h] \in {"confirm", "give_back"} /\ mine[h] = i
      BY <1>2, IdAssumption DEF MadeOK
    <2>2. stage'[h] # stage[h]
      BY DEF Rest, Verdict
    <2>3. GiveBack(h)
      <3>1. ASSUME NEW k \in Holder, GateStep(k) \/ WaitEnds(k) \/ SessionEnds(k)
            PROVE  k = h
        BY <1>2, <2>2, <3>1 DEF GateStep, ConfirmShared, GiveBack, AnswerIsWait, AnswerIsTake,
                                AnswerIsRefuse, WaitOut, ForceTake, Retake, WaitEnds,
                                SessionEnds, StandDown, Goto, GateTypeOK
      <3>2. ASSUME NEW k \in Holder, NEW place \in Place, Claim(k, place) PROVE FALSE
        BY <1>2, <2>2, <3>2 DEF Claim, Goto, GateTypeOK
      <3>3. Asks[h] \subseteq Place /\ \A k \in Holder : Asks[k] \subseteq Place
        BY AsksAssumption
      <3>4. GateStep(h) \/ WaitEnds(h) \/ SessionEnds(h)
        BY <1>2, <2>2, <3>1, <3>2, <3>3 DEF Next, RegisterMoves, vars, gateVars
      <3>5. ~ConfirmShared(h)
        BY <1>2 DEF ConfirmShared, Goto, GateTypeOK
      <3> QED
        BY <2>1, <3>4, <3>5 DEF GateStep, AnswerIsWait, AnswerIsTake, AnswerIsRefuse, WaitOut,
                                ForceTake, Retake, WaitEnds, SessionEnds, Rest, Verdict, Proceeds
    <2>4. Release(h, i) \/ (leases[i] = None /\ leases' = leases)
      BY <2>1, <2>3 DEF GiveBack
    <2>5. ~InForce(i)'
      <3>1. CASE Release(h, i)
        BY <1>2, <3>1 DEF Release, Write, Released, InForce, LeaseState, LeasesTypeOK, Lease
      <3>2. CASE leases[i] = None /\ leases' = leases
        BY <3>2 DEF InForce
      <3> QED
        BY <2>4, <3>1, <3>2
    <2> QED
      BY <2>5
  <1> HIDE DEF Final
  <1>3. Spec => [][Final]_vars
    <2>1. LeasesTypeOK /\ GateTypeOK /\ MadeOK /\ (\A h \in Holder : StageOK(h)) /\ [Next]_vars
             => (LeasesTypeOK /\ GateTypeOK /\ MadeOK /\ \A h \in Holder : StageOK(h))'
      BY GateMovesRegister, TypeStep, GateTypeStep, MadeStep, StageStep
    <2>2. LeasesTypeOK /\ GateTypeOK /\ MadeOK /\ [Next]_vars => Final
      BY <1>2
    <2> QED
      BY <1>1, <2>1, <2>2, PTL DEF Spec
  <1> QED
    BY <1>3 DEF RefusedLeavesNothing, Final

----------------------------------------------------------------------------
(***************************************************************************)
(* The mutex every operation of the register runs in is exclusive for      *)
(* every number of processes, attempts and faults, until the first lock    *)
(* grows stale.  The argument: until then nobody is about to remove a lock *)
(* it judged stale, so only its maker removes a lock, and whoever is       *)
(* between mkdir and rm made the lock that is there (LockInv).             *)
(***************************************************************************)
(* What keeps the lock exclusive while no lock has grown stale. *)
HolderMadeLock == \A p \in Proc : Holding(p) => lock = p

NobodyReclaims == ~stale /\ \A p \in Proc : pc[p] # "reclaim"

ReadsAreFresh == ~lost /\ \A p \in Proc : pc[p] = "write" => p \in fresh

LockInv ==
    /\ LockTypeOK
    /\ ~aged => NobodyReclaims /\ HolderMadeLock /\ ReadsAreFresh

(* Every reachable state is well typed, the loop counter of exclusively()  *)
(* never past ATTEMPTS included.                                           *)
LEMMA InitLockInv == LockInit => LockInv
  <1> SUFFICES ASSUME LockInit PROVE LockInv
    OBVIOUS
  <1>1. stale \in BOOLEAN /\ lost \in BOOLEAN /\ aged \in BOOLEAN
    BY Zenon DEF LockInit
  <1>2. 0 \in 0 .. ATTEMPTS /\ 0 \in 0 .. MaxFaults
    BY LockAttemptsAssumption, MaxFaultsAssumption
  <1>3. LockTypeOK
    BY <1>1, <1>2, Zenon DEF LockInit, LockTypeOK, PC
  <1>4. NobodyReclaims /\ HolderMadeLock /\ ReadsAreFresh
    BY DEF LockInit, NobodyReclaims, HolderMadeLock, Holding, Inside, ReadsAreFresh
  <1> QED
    BY <1>3, <1>4 DEF LockInv

(* The loop counter stays in range because only a process still below      *)
(* ATTEMPTS goes round again; this strengthening is what Retry needs.      *)
CounterInv ==
    \A p \in Proc : pc[p] \in {"mkdir", "stat", "reclaim", "sleep"}
                        => attempt[p] < ATTEMPTS

(* Going round the loop keeps the counter of exclusively() below ATTEMPTS. *)
LEMMA InitCounterInv == LockInit => CounterInv
  BY DEF LockInit, CounterInv

(* No step of exclusively(), no fault and no passing of time takes the     *)
(* counter of a process still in its loop to ATTEMPTS.                     *)
LEMMA CounterInvStep == LockTypeOK /\ CounterInv /\ [LockNext]_lockVars => CounterInv'
  <1> SUFFICES ASSUME LockTypeOK, CounterInv, [LockNext]_lockVars
               PROVE  CounterInv'
    OBVIOUS
  <1> USE LockAttemptsAssumption DEF LockTypeOK, CounterInv, PC, StepsTo
  <1>1. ASSUME NEW p \in Proc, Step(p) PROVE CounterInv'
    <2>1. CASE Call(p)
      BY <2>1 DEF Call
    <2>2. CASE MkdirTakes(p) \/ MkdirExists(p)
      BY <2>2 DEF MkdirTakes, MkdirExists
    <2>3. CASE Stat(p)
      BY <2>3 DEF Stat
    <2>4. CASE Reclaim(p)
      BY <2>4 DEF Reclaim
    <2>5. CASE Retry(p)
      BY <2>5 DEF Retry
    <2>6. CASE WorkReads(p) \/ WorkWrites(p) \/ WorkEndsEarly(p) \/ ReleaseLock(p)
      BY <2>6 DEF WorkReads, WorkWrites, WorkEndsEarly, ReleaseLock
    <2> QED
      BY <1>1, <2>1, <2>2, <2>3, <2>4, <2>5, <2>6 DEF Step
  <1>2. ASSUME NEW p \in Proc, Crash(p) \/ FileFails(p) PROVE CounterInv'
    BY <1>2 DEF Crash, FileFails
  <1>3. CASE Age
    BY <1>3 DEF Age
  <1>4. CASE UNCHANGED lockVars
    BY <1>4 DEF lockVars
  <1> QED
    BY <1>1, <1>2, <1>3, <1>4 DEF LockNext

(* No step of a process takes it out of LockInv: the parts of LockInv that *)
(* the step of exclusively() can disturb, action by action.                *)
LEMMA StepLockInv ==
  ASSUME LockInv, CounterInv, NEW p \in Proc, Step(p)
  PROVE  LockInv'
  <1> USE ProcAssumption, LockAttemptsAssumption
          DEF LockInv, LockTypeOK, PC, StepsTo, NobodyReclaims, HolderMadeLock,
              Holding, Inside, ReadsAreFresh
  <1>1. CASE Call(p)
    BY <1>1 DEF Call
  <1>2. CASE MkdirTakes(p)
    BY <1>2 DEF MkdirTakes
  <1>3. CASE MkdirExists(p)
    BY <1>3 DEF MkdirExists
  <1>4. CASE Stat(p)
    BY <1>4 DEF Stat
  <1>5. CASE Reclaim(p)
    \* somebody judged a lock stale, so one had grown stale
    <2>1. aged
      BY <1>5 DEF Reclaim
    <2> QED
      BY <1>5, <2>1 DEF Reclaim, RemoveLock
  <1>6. CASE Retry(p)
    <2>1. attempt[p] + 1 \in 0 .. ATTEMPTS
      BY <1>6 DEF Retry, CounterInv
    <2> QED
      BY <1>6, <2>1 DEF Retry
  <1>7. CASE WorkReads(p)
    BY <1>7 DEF WorkReads
  <1>8. CASE WorkWrites(p)
    \* until a lock is stale nobody else is inside, so no other copy matters
    <2>1. ~aged => \A q \in Proc : Holding(q) => q = p
      BY <1>8 DEF WorkWrites
    <2> QED
      BY <1>8, <2>1 DEF WorkWrites
  <1>9. CASE WorkEndsEarly(p)
    BY <1>9 DEF WorkEndsEarly
  <1>10. CASE ReleaseLock(p)
    <2>1. ~aged => \A q \in Proc : Holding(q) => q = p
      BY <1>10 DEF ReleaseLock
    <2> QED
      BY <1>10, <2>1 DEF ReleaseLock, RemoveLock
  <1> QED
    BY <1>1, <1>2, <1>3, <1>4, <1>5, <1>6, <1>7, <1>8, <1>9, <1>10 DEF Step

(* A fault, the passing of STALE_MS and stuttering keep LockInv as well.   *)
LEMMA LockInvStep == LockInv /\ CounterInv /\ [LockNext]_lockVars => LockInv'
  <1> SUFFICES ASSUME LockInv, CounterInv, [LockNext]_lockVars
               PROVE  LockInv'
    OBVIOUS
  <1> USE ProcAssumption, MaxFaultsAssumption
          DEF LockInv, LockTypeOK, PC, StepsTo, NobodyReclaims, HolderMadeLock,
              Holding, Inside, ReadsAreFresh
  <1>1. ASSUME NEW p \in Proc, Step(p) PROVE LockInv'
    BY <1>1, StepLockInv
  <1>2. ASSUME NEW p \in Proc, Crash(p) \/ FileFails(p) PROVE LockInv'
    BY <1>2 DEF Crash, FileFails
  <1>3. CASE Age
    BY <1>3 DEF Age
  <1>4. CASE UNCHANGED lockVars
    BY <1>4 DEF lockVars
  <1> QED
    BY <1>1, <1>2, <1>3, <1>4 DEF LockNext

(* LockInv is an invariant of the mutex.                                   *)
LEMMA LockInvariant == LockSpec => [](LockInv /\ CounterInv)
  <1>1. LockInit => LockInv /\ CounterInv
    BY InitLockInv, InitCounterInv
  <1>2. LockInv /\ CounterInv /\ [LockNext]_lockVars => (LockInv /\ CounterInv)'
    BY LockInvStep, CounterInvStep DEF LockInv
  <1> QED
    BY <1>1, <1>2, PTL DEF LockSpec

(* Type correctness of the mutex, for every instance.                      *)
THEOREM LockTypeCorrect == LockSpec => []LockTypeOK
  <1>1. LockInv => LockTypeOK
    BY DEF LockInv
  <1> QED
    BY <1>1, LockInvariant, PTL

(* However many processes share a store, however they interleave and       *)
(* wherever they fail, work() runs in one of them at a time until the first *)
(* lock grows older than STALE_MS.                                         *)
THEOREM LockExclusive == LockSpec => []OneWriterUntilStale
  <1>1. LockInv => OneWriterUntilStale
    BY DEF LockInv, OneWriterUntilStale, OneWriter, HolderMadeLock, Inside,
           Holding
  <1> QED
    BY <1>1, LockInvariant, PTL

(* And in all that time no read-change-write under the lock loses another  *)
(* process's change.                                                       *)
THEOREM LockLosesNothing == LockSpec => []NoLostUpdateUntilStale
  <1>1. LockInv => NoLostUpdateUntilStale
    BY DEF LockInv, NoLostUpdateUntilStale, ReadsAreFresh
  <1> QED
    BY <1>1, LockInvariant, PTL
=============================================================================
