---------------------------- MODULE RemoteProofs ----------------------------
(***************************************************************************)
(* For any phones, requests, changes of the registry and drops: a phone    *)
(* that was revoked is let in to nothing more while no two writers of the  *)
(* registry crossed; what the voice hold counts is what is there; and the  *)
(* Mac keeps the voice once it was spoken to.                              *)
(*                                                                         *)
(* None of the three is inductive.  That a late request reads a revoked    *)
(* entry needs that the registry keeps the revoke from its write on, which *)
(* precedes the answer that makes the request late (RevokedInv).  The      *)
(* counts need to be right of a phone the hold does not know yet, which    *)
(* counts as nothing (CountInv).  The Mac keeps the voice because every    *)
(* phone the hold knows has yielded (VoiceInv).                            *)
(***************************************************************************)
EXTENDS RemoteEndpoint, FiniteSetTheorems, SequenceTheorems, WellFoundedInduction, TLAPS

RequestRecord == [phone : Phone \cup {None}, method : Method \cup {None}, pc : RequestPC,
                  copy : Registry \cup {None}, late : BOOLEAN]
ChangeRecord == [phone : Phone \cup {None}, kind : Change \cup {None}, pc : ChangePC,
                 copy : Registry \cup {None}]

(* A request or a change under way has its phone, and what it read. *)
RequestOK(q) ==
    /\ request[q].pc # "idle" => request[q].phone \in Phone
    /\ request[q].pc \in {"sync", "act"} => request[q].copy \in Registry

ChangeOK(c) ==
    /\ change[c].pc # "idle" => change[c].phone \in Phone
    /\ change[c].pc \in {"sync", "write"} => change[c].copy \in Registry

ShakeOK(p) == shaking[p].pc = "sync" => shaking[p].copy \in Registry

TypeInv ==
    /\ TypeOK
    /\ \A q \in Request : RequestOK(q)
    /\ \A c \in Changing : ChangeOK(c)
    /\ \A p \in Phone : ShakeOK(p)

(* While no writers crossed, a revoke is in the registry from its write on, *)
(* and a request that came after its answer reads it there.                 *)
LateOK(q) ==
    request[q].late =>
        /\ request[q].phone \in gone
        /\ request[q].pc \notin {"idle", "asking"}
        /\ request[q].pc \in {"sync", "act"} => Read(q).revoked

WrittenOK(c) ==
    change[c].pc = "after" /\ change[c].kind = "revoke"
        => registry[change[c].phone].revoked

RevokedInv ==
    ~crossed => /\ \A p \in gone : registry[p].revoked
                /\ \A c \in Changing : WrittenOK(c)
                /\ \A q \in Request : LateOK(q)

Asking(p) == {q \in Request : request[q].phone = p /\ request[q].pc = "asking"}

CountOK(p) ==
    /\ Touched(p).subscribed = IF p \in stream THEN 1 ELSE 0
    /\ Touched(p).asking = Cardinality(Asking(p))

CountInv == \A p \in Phone \ gone : CountOK(p)

Yielded == \A p \in Phone : Known(p) => phones[p].yielded

VoiceInv == spoken => current = None /\ Yielded

----------------------------------------------------------------------------
(* The voice hold.                                                         *)

(* A set of numbers up to n that is not empty has a last one.              *)
LEMMA HasLast ==
  ASSUME NEW n \in Nat, NEW S \in SUBSET (1 .. n), S # {}
  PROVE  \E i \in S : \A j \in S : j <= i
  <1> DEFINE T == {n - i : i \in S}
  <1>1. T \subseteq Nat /\ T # {}
    <2>1. ASSUME NEW i \in S PROVE n - i \in Nat
      BY <2>1
    <2> QED
      BY <2>1
  <1>2. PICK x \in T : \A y \in T : ~(<<y, x>> \in OpToRel(<, Nat))
    BY <1>1, NatLessThanWellFounded, WFMin
  <1>3. PICK i \in S : x = n - i
    OBVIOUS
  <1>4. ASSUME NEW j \in S PROVE j <= i
    <2>1. n - j \in T /\ n - j \in Nat /\ x \in Nat
      BY <1>1
    <2>2. ~(n - j < x)
      BY <1>2, <2>1 DEF OpToRel
    <2> QED
      BY <1>3, <2>1, <2>2
  <1> QED
    BY <1>4

(* The order of the phones without one of them.                            *)
LEMMA WithoutType ==
  ASSUME NEW order \in Seq(Phone), NEW p
  PROVE  Without(order, p) \in Seq(Phone)
  <1> DEFINE at == {i \in 1 .. Len(order) : order[i] = p}
             i == CHOOSE i \in at : TRUE
  <1>1. CASE at = {}
    BY <1>1 DEF Without
  <1>2. CASE at # {}
    <2>1. i \in 1 .. Len(order)
      BY <1>2
    <2> HIDE DEF i
    <2>2. SubSeq(order, 1, i - 1) \in Seq(Phone) /\ SubSeq(order, i + 1, Len(order)) \in Seq(Phone)
      BY <2>1, SubSeqProperties
    <2> USE DEF i
    <2>3. Without(order, p) = SubSeq(order, 1, i - 1) \o SubSeq(order, i + 1, Len(order))
      BY <1>2 DEF Without
    <2> QED
      BY <2>2, <2>3
  <1> QED
    BY <1>1, <1>2

(* voiceHolder is a phone that qualifies, or nobody.                       *)
LEMMA HolderIs ==
  ASSUME NEW acts \in [Phone -> Activity \cup {None}], NEW order \in Seq(Phone)
  PROVE  /\ VoiceHolder(acts, order) \in Phone \cup {None}
         /\ (\A p \in Phone : acts[p] # None => acts[p].yielded)
                => VoiceHolder(acts, order) = None
  <1> DEFINE found == {i \in 1 .. Len(order) : acts[order[i]] # None /\ Qualifies(acts[order[i]])}
             last == CHOOSE i \in found : \A j \in found : j <= i
  <1>1. VoiceHolder(acts, order) = IF found = {} THEN None ELSE order[last]
    BY DEF VoiceHolder
  <1>2. found # {} => last \in found
    <2>1. Len(order) \in Nat /\ found \in SUBSET (1 .. Len(order))
      OBVIOUS
    <2>2. found # {} => \E i \in found : \A j \in found : j <= i
      <3> HIDE DEF found
      <3> QED
        BY <2>1, HasLast
    <2> HIDE DEF found
    <2> QED
      BY <2>2
  <1>3. \A i \in found : order[i] \in Phone /\ acts[order[i]] # None /\ ~acts[order[i]].yielded
    BY DEF Qualifies
  <1> HIDE DEF found, last
  <1> QED
    BY <1>1, <1>2, <1>3

(* An entry is known just when it is one.                                  *)
LEMMA TouchedIs ==
  ASSUME HoldTypeOK, NEW p \in Phone
  PROVE  /\ Touched(p) \in Activity
         /\ Known(p) => Touched(p) = phones[p] /\ phones[p] \in Activity
         /\ ~Known(p) => Touched(p) = NoActivity /\ phones[p] = None
  <1>1. NoActivity \in Activity
    BY DEF NoActivity, Activity, Span
  <1> QED
    BY <1>1 DEF HoldTypeOK, Touched, Known

(* What an event of phone p does to what is kept of the phones: p's counts *)
(* are now these, and a phone that had yielded still has, if so it says.   *)
HoldDoes(p, subs, asks, yields) ==
    /\ HoldTypeOK'
    /\ \A r \in Phone \ {p} : phones'[r] = phones[r]
    /\ (Touched(p).subscribed)' = subs
    /\ (Touched(p).asking)' = asks
    /\ yields /\ Yielded => Yielded'
    /\ current' = current \/ (Yielded' => current' = None)

(* Writing one entry and settling.                                         *)
LEMMA SettledDoes ==
  ASSUME HoldTypeOK, NEW p \in Phone, NEW a \in Activity, NEW order,
         order \in {recent, Latest(p)},
         Settled([phones EXCEPT ![p] = a], order)
  PROVE  HoldDoes(p, a.subscribed, a.asking, Known(p) /\ (phones[p].yielded => a.yielded))
  <1>1. order \in Seq(Phone)
    BY WithoutType DEF HoldTypeOK, Latest
  <1> DEFINE acts == [phones EXCEPT ![p] = a]
  <1>2. acts \in [Phone -> Activity \cup {None}]
    BY DEF HoldTypeOK
  <1>3. phones' = acts /\ recent' = order /\ current' = VoiceHolder(acts, order) /\ due' = FALSE
    BY DEF Settled
  <1>4. phones'[p] = a /\ \A r \in Phone \ {p} : phones'[r] = phones[r]
    BY <1>3 DEF HoldTypeOK
  <1> HIDE DEF acts
  <1>5. HoldTypeOK'
    BY <1>1, <1>2, <1>3, HolderIs DEF HoldTypeOK
  <1>6. (Touched(p) = a)'
    BY <1>4, ActivityAssumption DEF Touched, Known
  <1>7. Yielded' => current' = None
    BY <1>1, <1>2, <1>3, HolderIs DEF Yielded, Known
  <1>8. Known(p) /\ (phones[p].yielded => a.yielded) /\ Yielded => Yielded'
    BY <1>4 DEF Yielded, Known
  <1> QED
    BY <1>4, <1>5, <1>6, <1>7, <1>8 DEF HoldDoes

(* Nothing of p told.                                                      *)
LEMMA HoldStays ==
  ASSUME HoldTypeOK, NEW p \in Phone, UNCHANGED holdVars
  PROVE  HoldDoes(p, Touched(p).subscribed, Touched(p).asking, TRUE)
  BY DEF holdVars, HoldTypeOK, HoldDoes, Touched, Known, Yielded

(* Every event of the voice hold, as HoldDoes tells it.                    *)
LEMMA HoldEvents ==
  ASSUME HoldTypeOK, NEW p \in Phone
  PROVE  LET S == Touched(p).subscribed
             A == Touched(p).asking
         IN  /\ HoldDriven(p) => HoldDoes(p, S, A, FALSE)
             /\ HoldUndriven(p) => HoldDoes(p, S, A, TRUE)
             /\ HoldBegan(p) => HoldDoes(p, S, A + 1, FALSE)
             /\ HoldSubscribed(p) => HoldDoes(p, S + 1, A, ~Fresh(p))
             /\ HoldRenewed(p) => HoldDoes(p, S, A, TRUE)
             /\ HoldReleased(p) => HoldDoes(p, S, A, TRUE)
             /\ HoldEnded(p) => HoldDoes(p, S, IF A = 0 THEN 0 ELSE A - 1, TRUE)
  <1> DEFINE S == Touched(p).subscribed
             A == Touched(p).asking
  <1>1. /\ Touched(p) \in Activity
        /\ Known(p) => Touched(p) = phones[p] /\ phones[p] \in Activity
        /\ ~Known(p) => Touched(p) = NoActivity /\ phones[p] = None
    BY TouchedIs
  <1>2. S \in Nat /\ A \in Nat
    BY <1>1 DEF Activity
  <1>n. ~Known(p) => S = 0 /\ A = 0
    BY <1>1 DEF NoActivity
  <1>w. ASSUME NEW a \in Activity, NEW order \in {recent, Latest(p)},
               Settled([phones EXCEPT ![p] = a], order)
        PROVE  HoldDoes(p, a.subscribed, a.asking, Known(p) /\ (phones[p].yielded => a.yielded))
    BY <1>w, SettledDoes
  <1>y. ASSUME NEW s, NEW k, NEW b, NEW c, HoldDoes(p, s, k, b), c => b
        PROVE  HoldDoes(p, s, k, c)
    BY <1>y DEF HoldDoes
  <1>s. UNCHANGED holdVars => HoldDoes(p, S, A, TRUE)
    BY HoldStays
  <1>3. ASSUME HoldDriven(p) PROVE HoldDoes(p, S, A, FALSE)
    <2> DEFINE a == [Touched(p) EXCEPT !.driving = "live", !.yielded = FALSE, !.letGo = FALSE]
    <2>1. a \in Activity /\ a.subscribed = S /\ a.asking = A
      BY <1>1 DEF Activity, Span
    <2>2. Settled([phones EXCEPT ![p] = a], Latest(p))
      BY <1>3 DEF HoldDriven
    <2> HIDE DEF a, S, A
    <2> QED
      BY <1>w, <1>y, <2>1, <2>2
  <1>4. ASSUME HoldUndriven(p) PROVE HoldDoes(p, S, A, TRUE)
    <2>1. CASE Known(p)
      <3> DEFINE a == [phones[p] EXCEPT !.driving = "none"]
      <3>1. a \in Activity /\ a.subscribed = S /\ a.asking = A /\ a.yielded = phones[p].yielded
        BY <1>1, <2>1 DEF Activity, Span
      <3>2. Settled([phones EXCEPT ![p] = a], recent)
        BY <1>4, <2>1 DEF HoldUndriven
      <3> HIDE DEF a, S, A
      <3> QED
        BY <1>w, <1>y, <2>1, <3>1, <3>2
    <2>2. CASE ~Known(p)
      BY <1>4, <1>s, <2>2 DEF HoldUndriven
    <2> QED
      BY <2>1, <2>2
  <1>5. ASSUME HoldBegan(p) PROVE HoldDoes(p, S, A + 1, FALSE)
    <2> DEFINE n == Touched(p).asking + 1
               a == [Touched(p) EXCEPT !.asking = n, !.yielded = FALSE, !.letGo = FALSE]
    <2>0. n \in Nat
      BY <1>2
    <2>2. Settled([phones EXCEPT ![p] = a], Latest(p))
      BY <1>5 DEF HoldBegan
    <2>n. n = A + 1
      OBVIOUS
    <2> HIDE DEF n
    <2>1. a \in Activity /\ a.subscribed = S /\ a.asking = n
      BY <1>1, <2>0 DEF Activity, Span
    <2> HIDE DEF a, S, A
    <2> QED
      BY <1>w, <1>y, <2>1, <2>2, <2>n
  <1>6. ASSUME HoldSubscribed(p) PROVE HoldDoes(p, S + 1, A, ~Fresh(p))
    <2> DEFINE n == Touched(p).subscribed + 1
               y == IF Fresh(p) THEN FALSE ELSE Touched(p).yielded
               a == [Touched(p) EXCEPT !.subscribed = n, !.letGo = FALSE, !.yielded = y]
    <2>b. Touched(p).yielded \in BOOLEAN
      BY <1>1 DEF Activity
    <2>0. n \in Nat /\ y \in BOOLEAN
      <3>1. n \in Nat
        BY <1>2
      <3>2. y \in BOOLEAN
        BY <2>b, Zenon
      <3> QED
        BY <3>1, <3>2
    <2>2. Settled([phones EXCEPT ![p] = a], Latest(p))
      BY <1>6 DEF HoldSubscribed
    <2>n. n = S + 1 /\ (~Fresh(p) => y = Touched(p).yielded)
      OBVIOUS
    <2> HIDE DEF n, y
    <2>1. a \in Activity /\ a.subscribed = n /\ a.asking = A /\ a.yielded = y
      BY <1>1, <2>0 DEF Activity, Span
    <2>3. ~Fresh(p) => Known(p) /\ (phones[p].yielded => a.yielded)
      BY <1>1, <2>1, <2>n DEF Fresh
    <2> HIDE DEF a, S, A
    <2> QED
      BY <1>w, <1>y, <2>1, <2>2, <2>3, <2>n
  <1>7. ASSUME NEW b \in BOOLEAN, Known(p), Settled([phones EXCEPT ![p].letGo = b], recent)
        PROVE  HoldDoes(p, S, A, TRUE)
    <2> DEFINE a == [phones[p] EXCEPT !.letGo = b]
    <2>1. a \in Activity /\ a.subscribed = S /\ a.asking = A /\ a.yielded = phones[p].yielded
      BY <1>1, <1>7 DEF Activity, Span
    <2>2. Settled([phones EXCEPT ![p] = a], recent)
      BY <1>7
    <2> HIDE DEF a, S, A
    <2> QED
      BY <1>w, <1>y, <1>7, <2>1, <2>2
  <1>8. ASSUME HoldRenewed(p) \/ HoldReleased(p) PROVE HoldDoes(p, S, A, TRUE)
    BY <1>7, <1>8, <1>s DEF HoldRenewed, HoldReleased
  <1>9. ASSUME HoldEnded(p) PROVE HoldDoes(p, S, IF A = 0 THEN 0 ELSE A - 1, TRUE)
    <2>1. CASE Known(p)
      <3> DEFINE n == IF phones[p].asking = 0 THEN 0 ELSE phones[p].asking - 1
                 a == [phones[p] EXCEPT !.asking = n, !.grace = "live"]
      <3>0. n \in Nat /\ n = IF A = 0 THEN 0 ELSE A - 1
        BY <1>1, <1>2, <2>1
      <3>2. Settled([phones EXCEPT ![p] = a], Latest(p))
        BY <1>9, <2>1 DEF HoldEnded
      <3> HIDE DEF n
      <3>1. a \in Activity /\ a.subscribed = S /\ a.yielded = phones[p].yielded /\ a.asking = n
        BY <1>1, <2>1, <3>0 DEF Activity, Span
      <3> HIDE DEF a, S, A
      <3> QED
        BY <1>w, <1>y, <2>1, <3>0, <3>1, <3>2
    <2>2. CASE ~Known(p)
      BY <1>9, <1>n, <1>s, <2>2 DEF HoldEnded
    <2> QED
      BY <2>1, <2>2
  <1> QED
    BY <1>3, <1>4, <1>5, <1>6, <1>8, <1>9

(* Time passing, and a session's end.                                      *)
LEMMA HoldPassing ==
  ASSUME HoldTypeOK, NEW p \in Phone
  PROVE  LET S == Touched(p).subscribed
             A == Touched(p).asking
         IN  /\ GracePasses(p) \/ HoldDrivePasses(p) => HoldDoes(p, S, A, TRUE)
             /\ DriveStops(p) => HoldDoes(p, S, A, TRUE)
             /\ HoldClosed(p) => HoldDoes(p, IF p \in stream /\ S > 0 THEN S - 1 ELSE S, A, TRUE)
  <1> DEFINE S == Touched(p).subscribed
             A == Touched(p).asking
  <1>1. /\ Touched(p) \in Activity
        /\ Known(p) => Touched(p) = phones[p] /\ phones[p] \in Activity
        /\ ~Known(p) => Touched(p) = NoActivity /\ phones[p] = None
    BY TouchedIs
  <1>2. S \in Nat /\ A \in Nat
    BY <1>1 DEF Activity
  <1>n. ~Known(p) => S = 0 /\ A = 0
    BY <1>1 DEF NoActivity
  <1>s. UNCHANGED holdVars => HoldDoes(p, S, A, TRUE)
    BY HoldStays
  <1>u. ASSUME NEW a \in Activity, Known(p), phones' = [phones EXCEPT ![p] = a],
               due' = TRUE, recent' = recent, current' = current,
               a.subscribed = S, a.asking = A, a.yielded = phones[p].yielded
        PROVE  HoldDoes(p, S, A, TRUE)
    <2>1. phones'[p] = a /\ \A r \in Phone \ {p} : phones'[r] = phones[r]
      BY <1>u DEF HoldTypeOK
    <2>2. HoldTypeOK'
      BY <1>u DEF HoldTypeOK
    <2>3. (Touched(p) = a)'
      BY <2>1, ActivityAssumption DEF Touched, Known
    <2>4. Yielded => Yielded'
      BY <1>u, <2>1 DEF Yielded, Known
    <2> HIDE DEF S, A
    <2> QED
      BY <1>u, <2>1, <2>2, <2>3, <2>4 DEF HoldDoes
  <1>3. ASSUME GracePasses(p) PROVE HoldDoes(p, S, A, TRUE)
    <2> DEFINE a == [phones[p] EXCEPT !.grace = "over"]
    <2>0. Known(p)
      BY <1>3 DEF GracePasses
    <2>1. a \in Activity /\ a.subscribed = S /\ a.asking = A /\ a.yielded = phones[p].yielded
      BY <1>1, <2>0 DEF Activity, Span
    <2>2. /\ phones' = [phones EXCEPT ![p] = a]
          /\ due' = TRUE /\ recent' = recent /\ current' = current
      BY <1>3 DEF GracePasses
    <2> HIDE DEF a, S, A
    <2> QED
      BY <1>u, <2>0, <2>1, <2>2
  <1>4. ASSUME HoldDrivePasses(p) PROVE HoldDoes(p, S, A, TRUE)
    <2>1. CASE Known(p) /\ phones[p].driving = "live"
      <3> DEFINE a == [phones[p] EXCEPT !.driving = "over"]
      <3>1. a \in Activity /\ a.subscribed = S /\ a.asking = A /\ a.yielded = phones[p].yielded
        BY <1>1, <2>1 DEF Activity, Span
      <3>2. /\ phones' = [phones EXCEPT ![p] = a]
            /\ due' = TRUE /\ recent' = recent /\ current' = current
        BY <1>4, <2>1 DEF HoldDrivePasses
      <3> HIDE DEF a, S, A
      <3> QED
        BY <1>u, <2>1, <3>1, <3>2
    <2>2. CASE ~(Known(p) /\ phones[p].driving = "live")
      BY <1>4, <1>s, <2>2 DEF HoldDrivePasses, holdVars
    <2> QED
      BY <2>1, <2>2
  <1>5. ASSUME DriveStops(p) PROVE HoldDoes(p, S, A, TRUE)
    <2>1. UNCHANGED holdVars \/ HoldUndriven(p)
      BY <1>5 DEF DriveStops
    <2> QED
      BY <1>s, <2>1, HoldEvents
  <1>6. ASSUME HoldClosed(p)
        PROVE  HoldDoes(p, IF p \in stream /\ S > 0 THEN S - 1 ELSE S, A, TRUE)
    <2> DEFINE undriven == [phones EXCEPT ![p].driving = "none"]
               ended(acts) == [acts EXCEPT ![p].subscribed = @ - 1, ![p].grace = "live"]
               drove == Known(p) /\ drives[p] # "none"
               streamed == Known(p) /\ p \in stream /\ phones[p].subscribed > 0
               rest == IF p \in stream /\ S > 0 THEN S - 1 ELSE S
    <2>0. phones \in [Phone -> Activity \cup {None}]
      BY DEF HoldTypeOK
    <2>1. rest = IF streamed THEN S - 1 ELSE S
      BY <1>1, <1>n
    <2>2. \/ UNCHANGED holdVars /\ ~streamed
          \/ \E a \in Activity : /\ Known(p)
                                 /\ Settled([phones EXCEPT ![p] = a], recent)
                                 /\ a.subscribed = rest /\ a.asking = A
                                 /\ a.yielded = phones[p].yielded
      <3>1. CASE drove /\ streamed
        <4> DEFINE n == phones[p].subscribed - 1
                   a == [phones[p] EXCEPT !.driving = "none", !.subscribed = n, !.grace = "live"]
        <4>0. n \in Nat /\ n = S - 1
          BY <1>1, <1>2, <3>1
        <4>2. ended(undriven) = [phones EXCEPT ![p] = a]
          BY <1>1, <2>0, <3>1 DEF Activity
        <4>3. Settled(ended(undriven), recent)
          BY <1>6, <3>1 DEF HoldClosed
        <4> HIDE DEF n
        <4>1. a \in Activity /\ a.subscribed = n /\ a.asking = A /\ a.yielded = phones[p].yielded
          BY <1>1, <3>1, <4>0 DEF Activity, Span
        <4> HIDE DEF a, undriven, ended, rest, drove
        <4> QED
          BY <2>1, <3>1, <4>0, <4>1, <4>2, <4>3
      <3>2. CASE drove /\ ~streamed
        <4> DEFINE a == [phones[p] EXCEPT !.driving = "none"]
        <4>1. a \in Activity /\ a.subscribed = S /\ a.asking = A /\ a.yielded = phones[p].yielded
          BY <1>1, <3>2 DEF Activity, Span
        <4>2. undriven = [phones EXCEPT ![p] = a]
          OBVIOUS
        <4>3. Settled(undriven, recent) /\ Known(p)
          BY <1>6, <3>2 DEF HoldClosed
        <4> HIDE DEF a, undriven, rest, drove
        <4> QED
          BY <2>1, <3>2, <4>1, <4>2, <4>3
      <3>3. CASE ~drove /\ streamed
        <4> DEFINE n == phones[p].subscribed - 1
                   a == [phones[p] EXCEPT !.subscribed = n, !.grace = "live"]
        <4>0. n \in Nat /\ n = S - 1
          BY <1>1, <1>2, <3>3
        <4>2. ended(phones) = [phones EXCEPT ![p] = a]
          BY <1>1, <2>0, <3>3 DEF Activity
        <4>3. Settled(ended(phones), recent)
          BY <1>6, <3>3 DEF HoldClosed
        <4> HIDE DEF n
        <4>1. a \in Activity /\ a.subscribed = n /\ a.asking = A /\ a.yielded = phones[p].yielded
          BY <1>1, <3>3, <4>0 DEF Activity, Span
        <4> HIDE DEF a, ended, rest, drove
        <4> QED
          BY <2>1, <3>3, <4>0, <4>1, <4>2, <4>3
      <3>4. CASE ~drove /\ ~streamed
        BY <1>6, <3>4 DEF HoldClosed
      <3> QED
        BY <3>1, <3>2, <3>3, <3>4
    <2> HIDE DEF rest, streamed, S, A
    <2>3. CASE UNCHANGED holdVars /\ ~streamed
      BY <1>s, <2>1, <2>3 DEF rest
    <2>4. ASSUME NEW a \in Activity, Known(p), Settled([phones EXCEPT ![p] = a], recent),
                 a.subscribed = rest, a.asking = A, a.yielded = phones[p].yielded
          PROVE  HoldDoes(p, rest, A, TRUE)
      <3>1. HoldDoes(p, a.subscribed, a.asking, Known(p) /\ (phones[p].yielded => a.yielded))
        BY <2>4, SettledDoes
      <3> QED
        BY <2>4, <3>1 DEF HoldDoes
    <2> QED
      BY <2>2, <2>3, <2>4 DEF rest
  <1> QED
    BY <1>3, <1>4, <1>5, <1>6

(* forget: the phone's entry is gone.                                      *)
LEMMA HoldForgets ==
  ASSUME HoldTypeOK, NEW p \in Phone, HoldForget(p)
  PROVE  /\ HoldTypeOK'
         /\ \A r \in Phone \ {p} : phones'[r] = phones[r]
         /\ Yielded => Yielded'
         /\ current' = current \/ (Yielded' => current' = None)
  <1>1. CASE UNCHANGED holdVars
    BY <1>1, HoldStays DEF HoldDoes
  <1>2. CASE Settled([phones EXCEPT ![p] = None], Without(recent, p))
    <2> DEFINE acts == [phones EXCEPT ![p] = None]
               order == Without(recent, p)
    <2>1. order \in Seq(Phone)
      BY WithoutType DEF HoldTypeOK
    <2>2. acts \in [Phone -> Activity \cup {None}]
      BY DEF HoldTypeOK
    <2>3. phones' = acts /\ recent' = order /\ current' = VoiceHolder(acts, order) /\ due' = FALSE
      BY <1>2 DEF Settled
    <2>4. phones'[p] = None /\ \A r \in Phone \ {p} : phones'[r] = phones[r]
      BY <2>3 DEF HoldTypeOK
    <2> HIDE DEF acts, order
    <2> QED
      BY <2>1, <2>2, <2>3, <2>4, HolderIs DEF HoldTypeOK, Yielded, Known
  <1> QED
    BY <1>1, <1>2 DEF HoldForget

(* macTookBack and the timer change no count.                              *)
LEMMA HoldWhole ==
  ASSUME HoldTypeOK, HoldMacTookBack \/ HoldTimer
  PROVE  /\ HoldTypeOK'
         /\ \A p \in Phone : /\ (Touched(p).subscribed)' = Touched(p).subscribed
                             /\ (Touched(p).asking)' = Touched(p).asking
         /\ HoldMacTookBack => Yielded' /\ current' = None
         /\ HoldTimer /\ Yielded => Yielded' /\ current' = None
  <1>1. ASSUME HoldTimer
        PROVE  /\ HoldTypeOK'
               /\ \A p \in Phone : /\ (Touched(p).subscribed)' = Touched(p).subscribed
                                   /\ (Touched(p).asking)' = Touched(p).asking
               /\ Yielded => Yielded' /\ current' = None
    <2>1. /\ phones' = phones /\ recent' = recent /\ due' = FALSE
          /\ current' = VoiceHolder(phones, recent)
      BY <1>1 DEF HoldTimer, Settled
    <2>2. /\ VoiceHolder(phones, recent) \in Phone \cup {None}
          /\ Yielded => VoiceHolder(phones, recent) = None
      BY HolderIs DEF HoldTypeOK, Yielded, Known
    <2> QED
      BY <2>1, <2>2 DEF HoldTypeOK, Touched, Known, Yielded
  <1>2. ASSUME HoldMacTookBack
        PROVE  /\ HoldTypeOK'
               /\ \A p \in Phone : /\ (Touched(p).subscribed)' = Touched(p).subscribed
                                   /\ (Touched(p).asking)' = Touched(p).asking
               /\ Yielded' /\ current' = None
    <2> DEFINE acts == [p \in Phone |-> IF Known(p) THEN [phones[p] EXCEPT !.yielded = TRUE]
                                        ELSE None]
    <2>1. \A p \in Phone : Known(p) => phones[p] \in Activity
      BY DEF HoldTypeOK, Known
    <2>2. \A p \in Phone :
             Known(p) => /\ acts[p] \in Activity
                         /\ acts[p].yielded
                         /\ acts[p].subscribed = phones[p].subscribed
                         /\ acts[p].asking = phones[p].asking
      BY <2>1 DEF Activity
    <2>3. \A p \in Phone : ~Known(p) => acts[p] = None
      OBVIOUS
    <2>4. acts \in [Phone -> Activity \cup {None}]
      BY <2>2, <2>3
    <2>5. phones' = acts /\ recent' = recent /\ current' = VoiceHolder(acts, recent) /\ due' = FALSE
      BY <1>2 DEF HoldMacTookBack, Settled
    <2> HIDE DEF acts
    <2>6. current' = None
      BY <2>2, <2>3, <2>4, <2>5, HolderIs DEF HoldTypeOK
    <2>7. HoldTypeOK'
      BY <2>4, <2>5, <2>6 DEF HoldTypeOK
    <2>8. \A p \in Phone : Known(p)' <=> Known(p)
      BY <2>2, <2>3, <2>5, ActivityAssumption DEF Known
    <2>9. Yielded'
      BY <2>2, <2>5, <2>8 DEF Yielded
    <2>10. \A p \in Phone : /\ (Touched(p).subscribed)' = Touched(p).subscribed
                            /\ (Touched(p).asking)' = Touched(p).asking
      BY <2>2, <2>3, <2>5, <2>8 DEF Touched
    <2> QED
      BY <2>6, <2>7, <2>9, <2>10
  <1> QED
    BY <1>1, <1>2

----------------------------------------------------------------------------
(* Requests and changes.                                                   *)

(* Request q goes on to pc with this copy; the rest of it and the others   *)
(* stay as they are.                                                       *)
RequestTo(q, pc, copy) ==
    /\ request' \in [Request -> RequestRecord]
    /\ \A r \in Request \ {q} : request'[r] = request[r]
    /\ request'[q].phone = request[q].phone
    /\ request'[q].late = request[q].late
    /\ request'[q].method = request[q].method
    /\ request'[q].pc = pc
    /\ request'[q].copy = copy

ChangeTo(c, pc, copy) ==
    /\ change' \in [Changing -> ChangeRecord]
    /\ \A d \in Changing \ {c} : change'[d] = change[d]
    /\ change'[c].phone = change[c].phone
    /\ change'[c].kind = change[c].kind
    /\ change'[c].pc = pc
    /\ change'[c].copy = copy

(* The types of requests and changes, kept as records.                     *)
LEMMA Records ==
  ASSUME TypeOK
  PROVE  request \in [Request -> RequestRecord] /\ change \in [Changing -> ChangeRecord]
  BY DEF TypeOK, RequestRecord, ChangeRecord

(* The ways a request is written, as RequestTo tells them.                 *)
LEMMA RequestMoves ==
  ASSUME TypeOK, NEW q \in Request, NEW pc \in RequestPC, NEW copy \in Registry \cup {None}
  PROVE  /\ request' = [request EXCEPT ![q].pc = pc, ![q].copy = copy] => RequestTo(q, pc, copy)
         /\ request' = [request EXCEPT ![q].copy = copy, ![q].pc = pc] => RequestTo(q, pc, copy)
         /\ request' = [request EXCEPT ![q].pc = pc] => RequestTo(q, pc, request[q].copy)
  <1>1. request \in [Request -> RequestRecord]
    BY Records
  <1>2. ASSUME request' = [request EXCEPT ![q].pc = pc, ![q].copy = copy]
        PROVE  RequestTo(q, pc, copy)
    BY <1>1, <1>2 DEF RequestTo, RequestRecord
  <1>3. ASSUME request' = [request EXCEPT ![q].copy = copy, ![q].pc = pc]
        PROVE  RequestTo(q, pc, copy)
    BY <1>1, <1>3 DEF RequestTo, RequestRecord
  <1>4. ASSUME request' = [request EXCEPT ![q].pc = pc]
        PROVE  RequestTo(q, pc, request[q].copy)
    BY <1>1, <1>4 DEF RequestTo, RequestRecord
  <1> QED
    BY <1>2, <1>3, <1>4

(* The ways a change is written, as ChangeTo tells them.                   *)
LEMMA ChangeMoves ==
  ASSUME TypeOK, NEW c \in Changing, NEW pc \in ChangePC, NEW copy \in Registry \cup {None}
  PROVE  /\ change' = [change EXCEPT ![c].pc = pc, ![c].copy = copy] => ChangeTo(c, pc, copy)
         /\ change' = [change EXCEPT ![c].copy = copy, ![c].pc = pc] => ChangeTo(c, pc, copy)
         /\ change' = [change EXCEPT ![c].pc = pc] => ChangeTo(c, pc, change[c].copy)
  <1>1. change \in [Changing -> ChangeRecord]
    BY Records
  <1>2. ASSUME change' = [change EXCEPT ![c].pc = pc, ![c].copy = copy]
        PROVE  ChangeTo(c, pc, copy)
    BY <1>1, <1>2 DEF ChangeTo, ChangeRecord
  <1>3. ASSUME change' = [change EXCEPT ![c].copy = copy, ![c].pc = pc]
        PROVE  ChangeTo(c, pc, copy)
    BY <1>1, <1>3 DEF ChangeTo, ChangeRecord
  <1>4. ASSUME change' = [change EXCEPT ![c].pc = pc]
        PROVE  ChangeTo(c, pc, change[c].copy)
    BY <1>1, <1>4 DEF ChangeTo, ChangeRecord
  <1> QED
    BY <1>2, <1>3, <1>4

----------------------------------------------------------------------------
(* Type correctness.                                                       *)

ShakeRecord == [pc : {"idle", "sync", "proved"}, copy : Registry \cup {None}]

(* TypeOK and what each place of a program can rely on, in parts.          *)
RegistryOK == registry \in Registry /\ keyChanged \in BOOLEAN /\ crossed \in BOOLEAN
SessionsOK ==
    /\ open \in SUBSET Phone /\ stream \in SUBSET Phone /\ gone \in SUBSET Phone
    /\ drives \in [Phone -> Span]
    /\ spoken \in BOOLEAN /\ drops \in 0 .. MaxDrops
ShakingOK == shaking \in [Phone -> ShakeRecord] /\ \A p \in Phone : ShakeOK(p)
RequestsOK == request \in [Request -> RequestRecord] /\ \A q \in Request : RequestOK(q)
ChangesOK == change \in [Changing -> ChangeRecord] /\ \A c \in Changing : ChangeOK(c)

(* The invariant is its parts, in this state.                              *)
LEMMA TypeParts ==
  TypeInv <=> HoldTypeOK /\ RegistryOK /\ SessionsOK /\ ShakingOK /\ RequestsOK /\ ChangesOK
  BY DEF TypeInv, TypeOK, RegistryOK, SessionsOK, ShakingOK, RequestsOK, ChangesOK,
         RequestRecord, ChangeRecord, ShakeRecord

(* The parts in the next state make it there.                              *)
LEMMA TypeTogether ==
  ASSUME HoldTypeOK', RegistryOK', SessionsOK', ShakingOK', RequestsOK', ChangesOK'
  PROVE  TypeInv'
  BY DEF TypeInv, TypeOK, RegistryOK, SessionsOK, ShakingOK, RequestsOK, ChangesOK,
         RequestRecord, ChangeRecord, ShakeRecord

(* A part that is not written stays well typed.                            *)
LEMMA PartsStay ==
  ASSUME TypeInv
  PROVE  /\ UNCHANGED holdVars => HoldTypeOK'
         /\ UNCHANGED <<registry, keyChanged, crossed>> => RegistryOK'
         /\ UNCHANGED <<open, stream, gone, drives, spoken, drops>> => SessionsOK'
         /\ UNCHANGED shaking => ShakingOK'
         /\ UNCHANGED request => RequestsOK'
         /\ UNCHANGED change => ChangesOK'
  <1>1. HoldTypeOK /\ RegistryOK /\ SessionsOK /\ ShakingOK /\ RequestsOK /\ ChangesOK
    BY TypeParts
  <1>2. UNCHANGED holdVars => HoldTypeOK'
    BY <1>1 DEF holdVars, HoldTypeOK
  <1>3. UNCHANGED <<registry, keyChanged, crossed>> => RegistryOK'
    BY <1>1 DEF RegistryOK
  <1>4. UNCHANGED <<open, stream, gone, drives, spoken, drops>> => SessionsOK'
    BY <1>1 DEF SessionsOK
  <1>5. UNCHANGED shaking => ShakingOK'
    BY <1>1 DEF ShakingOK, ShakeOK
  <1>6. UNCHANGED request => RequestsOK'
    BY <1>1 DEF RequestsOK, RequestOK
  <1>7. UNCHANGED change => ChangesOK'
    BY <1>1 DEF ChangesOK, ChangeOK
  <1> QED
    BY <1>2, <1>3, <1>4, <1>5, <1>6, <1>7

(* A request that goes on has its phone still, and its copy where it needs *)
(* one.                                                                    *)
LEMMA RequestsGoOn ==
  ASSUME RequestsOK, NEW q \in Request, NEW pc, NEW copy, request[q].pc # "idle",
         RequestTo(q, pc, copy), pc \in {"sync", "act"} => copy \in Registry
  PROVE  RequestsOK'
  BY DEF RequestsOK, RequestOK, RequestTo

(* A change that goes on has its phone and its copy likewise.              *)
LEMMA ChangesGoOn ==
  ASSUME ChangesOK, NEW c \in Changing, NEW pc, NEW copy, change[c].pc # "idle",
         ChangeTo(c, pc, copy), pc \in {"sync", "write"} => copy \in Registry
  PROVE  ChangesOK'
  BY DEF ChangesOK, ChangeOK, ChangeTo

(* Devices.all writing back what was read.                                 *)
LEMMA WritesBackOK ==
  ASSUME RegistryOK, NEW copy \in Registry, WritesBack(copy)
  PROVE  RegistryOK' /\ (crossed => crossed') /\ (~crossed' => registry' = registry)
  BY DEF RegistryOK, WritesBack

(* A changed entry is one, and stays revoked.                              *)
LEMMA ChangedIs ==
  ASSUME NEW entry \in Entry, NEW kind
  PROVE  /\ Changed(entry, kind) \in Entry
         /\ entry.revoked => Changed(entry, kind).revoked
         /\ kind = "revoke" => Changed(entry, kind).revoked
  <1>1. CASE kind = "revoke"
    BY <1>1 DEF Changed, Entry
  <1>2. CASE kind = "grant"
    BY <1>2 DEF Changed, Entry
  <1>3. CASE kind \notin {"revoke", "grant"}
    <2>1. Changed(entry, kind) = [entry EXCEPT !.mac = FALSE]
      BY <1>3 DEF Changed
    <2> QED
      BY <1>3, <2>1 DEF Entry
  <1> QED
    BY <1>1, <1>2, <1>3

(* Changing the registry: the entry is written into the copy read.         *)
LEMMA ChangeWritesOK ==
  ASSUME RegistryOK, ChangesOK, NEW c \in Changing, ChangeWrite(c)
  PROVE  /\ RegistryOK'
         /\ crossed => crossed'
         /\ ~crossed' => \A p \in Phone : registry[p].revoked => registry'[p].revoked
         /\ \/ change' = [change EXCEPT ![c].pc = "done", ![c].copy = None]
            \/ /\ change' = [change EXCEPT ![c].pc = "after", ![c].copy = None]
               /\ ~crossed' /\ change[c].kind = "revoke" => registry'[change[c].phone].revoked
  <1> DEFINE p == change[c].phone
             copy == change[c].copy
             kind == change[c].kind
             new == Changed(copy[p], kind)
  <1>1. p \in Phone /\ copy \in Registry
    BY DEF ChangesOK, ChangeOK, ChangeWrite
  <1>2. copy[p] \in Entry
    BY <1>1 DEF Registry
  <1>3. new \in Entry /\ (copy[p].revoked => new.revoked) /\ (kind = "revoke" => new.revoked)
    BY <1>2, ChangedIs
  <1>4. CASE ChangeEnds(c) /\ UNCHANGED <<registry, keyChanged, crossed>>
    BY <1>4 DEF ChangeEnds, RegistryOK
  <1>5. CASE /\ registry' = [copy EXCEPT ![p] = new]
             /\ crossed' = (crossed \/ registry # copy)
             /\ change' = [change EXCEPT ![c].pc = "after", ![c].copy = None]
             /\ keyChanged' = keyChanged
    <2> HIDE DEF new
    <2>1. registry' \in Registry /\ registry'[p] = new
          /\ \A r \in Phone \ {p} : registry'[r] = copy[r]
      BY <1>1, <1>3, <1>5 DEF Registry
    <2> HIDE DEF p, copy, kind
    <2>2. crossed' \in BOOLEAN /\ (crossed => crossed') /\ (~crossed' => registry = copy)
      BY <1>5 DEF RegistryOK
    <2> QED
      BY <1>3, <1>5, <2>1, <2>2 DEF RegistryOK, p, copy, kind
  <1> QED
    BY <1>4, <1>5 DEF ChangeWrite

(* A session that ends: what it had is let go, and the hold is told.       *)
LEMMA ClosesDoes ==
  ASSUME TypeInv, NEW p \in Phone, Closes(p)
  PROVE  /\ open' \in SUBSET Phone /\ stream' \in SUBSET Phone /\ drives' \in [Phone -> Span]
         /\ \A r \in Phone \ {p} : r \in stream' <=> r \in stream
         /\ LET S == Touched(p).subscribed
                A == Touched(p).asking
            IN  \/ /\ p \notin stream'
                   /\ HoldDoes(p, IF p \in stream /\ S > 0 THEN S - 1 ELSE S, A, TRUE)
                \/ /\ stream' = stream
                   /\ HoldDoes(p, S, A, TRUE)
  <1>1. HoldTypeOK /\ SessionsOK
    BY TypeParts
  <1>2. CASE p \in open
    <2>1. /\ open' = open \ {p} /\ stream' = stream \ {p}
          /\ drives' = [drives EXCEPT ![p] = "none"]
          /\ HoldClosed(p)
      BY <1>2 DEF Closes
    <2>2. drives' \in [Phone -> Span]
      BY <1>1, <2>1 DEF SessionsOK, Span
    <2> QED
      BY <1>1, <2>1, <2>2, HoldPassing DEF SessionsOK
  <1>3. CASE p \notin open
    <2>1. open' = open \ {p} /\ stream' = stream /\ drives' = drives /\ UNCHANGED holdVars
      BY <1>3 DEF Closes
    <2> QED
      BY <1>1, <2>1, HoldStays DEF SessionsOK
  <1> QED
    BY <1>2, <1>3

(* Every step keeps TypeInv: the steps of a handshake and of a session.    *)
LEMMA SessionTypes ==
  ASSUME TypeInv, NEW p \in Phone,
         \/ HandshakeReads(p) \/ HandshakeSync(p) \/ HandshakeOpens(p) \/ SessionDrops(p)
         \/ DrivePasses(p) \/ DriveTimer(p) \/ Time(p)
  PROVE  TypeInv'
  <1>1. HoldTypeOK /\ RegistryOK /\ SessionsOK /\ ShakingOK /\ RequestsOK /\ ChangesOK
    BY TypeParts
  <1>2. ASSUME NEW pc \in {"idle", "sync", "proved"}, NEW copy \in Registry \cup {None},
               shaking' = [shaking EXCEPT ![p] = [pc |-> pc, copy |-> copy]],
               pc = "sync" => copy \in Registry
        PROVE  ShakingOK'
    <2>1. [pc |-> pc, copy |-> copy] \in ShakeRecord
      BY <1>2 DEF ShakeRecord
    <2>2. shaking' \in [Phone -> ShakeRecord]
      BY <1>1, <1>2, <2>1 DEF ShakingOK
    <2>3. /\ shaking'[p] = [pc |-> pc, copy |-> copy]
          /\ \A r \in Phone \ {p} : shaking'[r] = shaking[r]
      BY <1>1, <1>2 DEF ShakingOK
    <2>4. shaking'[p].pc = pc /\ shaking'[p].copy = copy
      BY <2>3
    <2>5. \A r \in Phone : ShakeOK(r)'
      BY <1>1, <1>2, <2>3, <2>4 DEF ShakingOK, ShakeOK
    <2> QED
      BY <2>2, <2>5 DEF ShakingOK
  <1>3. CASE HandshakeReads(p)
    <2>1. CASE keyChanged
      <3>1. shaking' = [shaking EXCEPT ![p] = [pc |-> "sync", copy |-> registry]]
        BY <1>3, <2>1 DEF HandshakeReads
      <3>2. ShakingOK'
        BY <1>1, <1>2, <3>1 DEF RegistryOK
      <3> QED
        BY <1>3, <3>2, PartsStay, TypeTogether DEF HandshakeReads
    <2>2. CASE ~keyChanged
      <3>1. shaking' = [shaking EXCEPT ![p] = [pc |-> "proved", copy |-> None]]
        BY <1>3, <2>2 DEF HandshakeReads
      <3>2. ShakingOK'
        BY <1>2, <3>1
      <3> QED
        BY <1>3, <3>2, PartsStay, TypeTogether DEF HandshakeReads
    <2> QED
      BY <2>1, <2>2
  <1>4. CASE HandshakeSync(p)
    <2>1. shaking[p].copy \in Registry
      BY <1>1, <1>4 DEF HandshakeSync, ShakingOK, ShakeOK
    <2>2. RegistryOK'
      BY <1>1, <1>4, <2>1, WritesBackOK DEF HandshakeSync
    <2>3. \/ shaking' = [shaking EXCEPT ![p] = [pc |-> "idle", copy |-> None]]
          \/ shaking' = [shaking EXCEPT ![p] = [pc |-> "proved", copy |-> None]]
      <3>1. CASE shaking[p].copy[p].revoked
        BY <1>4, <3>1 DEF HandshakeSync
      <3>2. CASE ~shaking[p].copy[p].revoked
        BY <1>4, <3>2 DEF HandshakeSync
      <3> QED
        BY <3>1, <3>2
    <2>4. ShakingOK'
      BY <1>2, <2>3
    <2> QED
      BY <1>4, <2>2, <2>4, PartsStay, TypeTogether DEF HandshakeSync
  <1>5. CASE HandshakeOpens(p)
    <2>1. ShakingOK'
      BY <1>2, <1>5 DEF HandshakeOpens
    <2>2. SessionsOK'
      BY <1>1, <1>5 DEF HandshakeOpens, SessionsOK
    <2> QED
      BY <1>5, <2>1, <2>2, PartsStay, TypeTogether DEF HandshakeOpens
  <1>6. CASE SessionDrops(p)
    <2>1. Closes(p)
      BY <1>6 DEF SessionDrops
    <2>2. HoldTypeOK'
      BY <2>1, ClosesDoes DEF HoldDoes
    <2>3. drops' \in 0 .. MaxDrops
      BY <1>1, <1>6, DropAssumption DEF SessionDrops, SessionsOK
    <2>4. SessionsOK'
      BY <1>1, <1>6, <2>1, <2>3, ClosesDoes DEF SessionDrops, SessionsOK
    <2> QED
      BY <1>6, <2>2, <2>4, PartsStay, TypeTogether DEF SessionDrops
  <1>7. CASE DrivePasses(p)
    <2>1. HoldTypeOK'
      BY <1>1, <1>7, HoldPassing DEF DrivePasses, HoldDoes
    <2>2. SessionsOK'
      BY <1>1, <1>7 DEF DrivePasses, SessionsOK, Span
    <2> QED
      BY <1>7, <2>1, <2>2, PartsStay, TypeTogether DEF DrivePasses
  <1>8. CASE DriveTimer(p)
    <2>1. HoldTypeOK'
      BY <1>1, <1>8, HoldPassing DEF DriveTimer, HoldDoes
    <2>2. SessionsOK'
      BY <1>1, <1>8 DEF DriveTimer, DriveStops, SessionsOK, Span
    <2> QED
      BY <1>8, <2>1, <2>2, PartsStay, TypeTogether DEF DriveTimer
  <1>9. CASE Time(p)
    <2>1. HoldTypeOK'
      BY <1>1, <1>9, HoldPassing DEF Time, HoldDoes
    <2> QED
      BY <1>9, <2>1, PartsStay, TypeTogether DEF Time, endpointVars
  <1> QED
    BY <1>3, <1>4, <1>5, <1>6, <1>7, <1>8, <1>9

(* The steps of a request, each with where it goes on.                     *)
LEMMA RequestSteps ==
  ASSUME TypeInv, NEW q \in Request, Step(q)
  PROVE  /\ request[q].pc # "idle"
         /\ request[q].phone \in Phone
         /\ Find(q) => RequestTo(q, IF keyChanged THEN "sync" ELSE "act", registry)
         /\ SyncMac(q) => request[q].copy \in Registry /\ RequestTo(q, "act", request[q].copy)
         /\ DispatchAsk(q) => RequestTo(q, "asking", None)
         /\ \/ DispatchRevoked(q) \/ DispatchDrive(q) \/ DispatchUndrive(q)
            \/ DispatchRelease(q) \/ DispatchSubscribe(q) \/ AskEnds(q)
            => RequestTo(q, "done", None)
  <1>1. TypeOK /\ RegistryOK /\ RequestsOK
    BY TypeParts DEF TypeInv
  <1>2. request[q].pc # "idle"
    BY DEF Step, Find, SyncMac, DispatchRevoked, DispatchDrive, DispatchUndrive, DispatchRelease,
           DispatchSubscribe, DispatchAsk, AskEnds, May
  <1>3. request[q].phone \in Phone
    BY <1>1, <1>2 DEF RequestsOK, RequestOK
  <1>4. {"sync", "act", "asking", "done"} \subseteq RequestPC
    BY DEF RequestPC
  <1>5. ASSUME Find(q) PROVE RequestTo(q, IF keyChanged THEN "sync" ELSE "act", registry)
    <2>1. (IF keyChanged THEN "sync" ELSE "act") \in RequestPC /\ registry \in Registry \cup {None}
      BY <1>1, <1>4 DEF RegistryOK
    <2> QED
      BY <1>1, <1>5, <2>1, RequestMoves DEF Find
  <1>6. ASSUME SyncMac(q)
        PROVE  request[q].copy \in Registry /\ RequestTo(q, "act", request[q].copy)
    BY <1>1, <1>4, <1>6, RequestMoves DEF SyncMac, RequestsOK, RequestOK
  <1>7. ASSUME DispatchAsk(q) PROVE RequestTo(q, "asking", None)
    BY <1>1, <1>4, <1>7, RequestMoves DEF DispatchAsk
  <1>8. ASSUME RequestEnds(q) PROVE RequestTo(q, "done", None)
    BY <1>1, <1>4, <1>8, RequestMoves DEF RequestEnds
  <1> QED
    BY <1>2, <1>3, <1>5, <1>6, <1>7, <1>8
       DEF DispatchRevoked, DispatchDrive, DispatchUndrive, DispatchRelease, DispatchSubscribe,
           AskEnds

(* What a request does to the hold, the drives and the streams.            *)
LEMMA RequestTypes ==
  ASSUME TypeInv, NEW q \in Request, Step(q)
  PROVE  TypeInv'
  <1>1. HoldTypeOK /\ RegistryOK /\ SessionsOK /\ ShakingOK /\ RequestsOK /\ ChangesOK
    BY TypeParts
  <1> DEFINE p == request[q].phone
  <1>2. p \in Phone /\ request[q].pc # "idle"
    BY RequestSteps
  <1>g. ASSUME NEW pc, NEW copy, RequestTo(q, pc, copy),
               pc \in {"sync", "act"} => copy \in Registry
        PROVE  RequestsOK'
    BY <1>1, <1>2, <1>g, RequestsGoOn
  <1>3. CASE Find(q)
    <2>1. RequestsOK'
      BY <1>1, <1>3, <1>g, RequestSteps DEF RegistryOK
    <2> QED
      BY <1>3, <2>1, PartsStay, TypeTogether DEF Find
  <1>4. CASE SyncMac(q)
    <2>1. RequestsOK' /\ RegistryOK'
      BY <1>1, <1>4, <1>g, RequestSteps, WritesBackOK DEF SyncMac
    <2> QED
      BY <1>4, <2>1, PartsStay, TypeTogether DEF SyncMac
  <1>d. ASSUME RequestTo(q, "done", None) \/ RequestTo(q, "asking", None) PROVE RequestsOK'
    BY <1>d, <1>g
  <1>5. CASE DispatchRevoked(q)
    <2>1. RequestsOK' /\ Closes(p)
      BY <1>5, <1>d, RequestSteps DEF DispatchRevoked
    <2>2. HoldTypeOK'
      BY <1>2, <2>1, ClosesDoes DEF HoldDoes
    <2>3. SessionsOK'
      BY <1>1, <1>2, <1>5, <2>1, ClosesDoes DEF DispatchRevoked, SessionsOK
    <2> QED
      BY <1>5, <2>1, <2>2, <2>3, PartsStay, TypeTogether DEF DispatchRevoked
  <1>6. CASE DispatchDrive(q)
    <2>1. RequestsOK'
      BY <1>6, <1>d, RequestSteps
    <2>2. HoldTypeOK'
      BY <1>1, <1>2, <1>6, HoldEvents, PartsStay DEF DispatchDrive, HoldDoes
    <2>3. SessionsOK'
      BY <1>1, <1>2, <1>6 DEF DispatchDrive, SessionsOK, Span
    <2> QED
      BY <1>6, <2>1, <2>2, <2>3, PartsStay, TypeTogether DEF DispatchDrive
  <1>7. CASE DispatchUndrive(q)
    <2>1. RequestsOK'
      BY <1>7, <1>d, RequestSteps
    <2>2. DriveStops(p) \/ UNCHANGED <<drives, holdVars>>
      BY <1>7 DEF DispatchUndrive
    <2>3. HoldTypeOK'
      BY <1>1, <1>2, <2>2, HoldPassing, PartsStay DEF HoldDoes
    <2>4. drives' \in [Phone -> Span]
      BY <1>1, <1>2, <2>2 DEF DriveStops, SessionsOK, Span
    <2>5. SessionsOK'
      BY <1>1, <1>7, <2>4 DEF DispatchUndrive, SessionsOK
    <2> QED
      BY <1>7, <2>1, <2>3, <2>5, PartsStay, TypeTogether DEF DispatchUndrive
  <1>8. CASE DispatchRelease(q)
    <2>1. RequestsOK'
      BY <1>8, <1>d, RequestSteps
    <2>2. HoldTypeOK'
      BY <1>1, <1>2, <1>8, HoldEvents DEF DispatchRelease, HoldDoes
    <2> QED
      BY <1>8, <2>1, <2>2, PartsStay, TypeTogether DEF DispatchRelease
  <1>9. CASE DispatchSubscribe(q)
    <2>1. RequestsOK'
      BY <1>9, <1>d, RequestSteps
    <2>2. HoldRenewed(p) \/ HoldSubscribed(p)
      BY <1>9 DEF DispatchSubscribe
    <2>3. HoldTypeOK'
      BY <1>1, <1>2, <2>2, HoldEvents DEF HoldDoes
    <2>4. SessionsOK'
      <3>1. spoken' \in BOOLEAN
        BY <1>1, <1>9, Zenon DEF DispatchSubscribe
      <3> QED
        BY <1>1, <1>2, <1>9, <3>1 DEF DispatchSubscribe, SessionsOK
    <2> QED
      BY <1>9, <2>1, <2>3, <2>4, PartsStay, TypeTogether DEF DispatchSubscribe
  <1>10. CASE DispatchAsk(q)
    <2>1. RequestsOK'
      BY <1>10, <1>d, RequestSteps
    <2>2. HoldTypeOK'
      BY <1>1, <1>2, <1>10, HoldEvents DEF DispatchAsk, HoldDoes
    <2>3. SessionsOK'
      BY <1>1, <1>10 DEF DispatchAsk, SessionsOK
    <2> QED
      BY <1>10, <2>1, <2>2, <2>3, PartsStay, TypeTogether DEF DispatchAsk
  <1>11. CASE AskEnds(q)
    <2>1. RequestsOK'
      BY <1>11, <1>d, RequestSteps
    <2>2. HoldTypeOK'
      BY <1>1, <1>2, <1>11, HoldEvents DEF AskEnds, HoldDoes
    <2> QED
      BY <1>11, <2>1, <2>2, PartsStay, TypeTogether DEF AskEnds
  <1> QED
    BY <1>3, <1>4, <1>5, <1>6, <1>7, <1>8, <1>9, <1>10, <1>11 DEF Step

(* The steps of a change, each with where it goes on.                      *)
LEMMA ChangeSteps ==
  ASSUME TypeInv, NEW c \in Changing, ChangeStep(c)
  PROVE  /\ change[c].pc # "idle"
         /\ change[c].phone \in Phone
         /\ ChangeRead(c) => ChangeTo(c, IF keyChanged THEN "sync" ELSE "write", registry)
         /\ ChangeSync(c) => change[c].copy \in Registry /\ ChangeTo(c, "write", change[c].copy)
         /\ ChangeWrite(c) =>
               \/ ChangeTo(c, "done", None)
               \/ /\ ChangeTo(c, "after", None)
                  /\ ~crossed' /\ change[c].kind = "revoke" => registry'[change[c].phone].revoked
         /\ ChangeAfter(c) => ChangeTo(c, "done", None)
  <1>1. TypeOK /\ RegistryOK /\ ChangesOK
    BY TypeParts DEF TypeInv
  <1>2. change[c].pc # "idle"
    BY DEF ChangeStep, ChangeRead, ChangeSync, ChangeWrite, ChangeAfter
  <1>3. change[c].phone \in Phone
    BY <1>1, <1>2 DEF ChangesOK, ChangeOK
  <1>4. {"sync", "write", "after", "done"} \subseteq ChangePC
    BY DEF ChangePC
  <1>5. ASSUME ChangeRead(c) PROVE ChangeTo(c, IF keyChanged THEN "sync" ELSE "write", registry)
    <2>1. (IF keyChanged THEN "sync" ELSE "write") \in ChangePC /\ registry \in Registry \cup {None}
      BY <1>1, <1>4 DEF RegistryOK
    <2> QED
      BY <1>1, <1>5, <2>1, ChangeMoves DEF ChangeRead
  <1>6. ASSUME ChangeSync(c)
        PROVE  change[c].copy \in Registry /\ ChangeTo(c, "write", change[c].copy)
    BY <1>1, <1>4, <1>6, ChangeMoves DEF ChangeSync, ChangesOK, ChangeOK
  <1>7. ASSUME ChangeWrite(c)
        PROVE  \/ ChangeTo(c, "done", None)
               \/ /\ ChangeTo(c, "after", None)
                  /\ ~crossed' /\ change[c].kind = "revoke" => registry'[change[c].phone].revoked
    BY <1>1, <1>4, <1>7, ChangeMoves, ChangeWritesOK
  <1>8. ASSUME ChangeAfter(c) PROVE ChangeTo(c, "done", None)
    BY <1>1, <1>4, <1>8, ChangeMoves DEF ChangeAfter, ChangeEnds
  <1> QED
    BY <1>2, <1>3, <1>5, <1>6, <1>7, <1>8

(* What follows a change of the registry, by its kind.                     *)
LEMMA AfterDoes ==
  ASSUME TypeInv, NEW c \in Changing, ChangeAfter(c)
  PROVE  LET p == change[c].phone
         IN  /\ p \in Phone
             /\ \/ /\ change[c].kind = "revoke"
                   /\ gone' = gone \cup {p}
                   /\ HoldForget(p)
                   /\ open' = open \ {p}
                   /\ stream' = stream \/ stream' = stream \ {p}
                   /\ drives' = [drives EXCEPT ![p] = "none"]
                \/ /\ UNCHANGED <<open, stream, gone>>
                   /\ DriveStops(p)
                \/ UNCHANGED <<open, stream, drives, gone, holdVars>>
  <1> DEFINE p == change[c].phone
  <1>1. p \in Phone
    BY ChangeSteps DEF ChangeStep
  <1>2. CASE change[c].kind = "revoke"
    BY <1>1, <1>2 DEF ChangeAfter
  <1>3. CASE change[c].kind = "ungrant"
    BY <1>1, <1>3 DEF ChangeAfter
  <1>4. CASE change[c].kind \notin {"revoke", "ungrant"}
    BY <1>1, <1>4 DEF ChangeAfter
  <1> QED
    BY <1>2, <1>3, <1>4

(* The steps of a change keep TypeInv.                                     *)
LEMMA ChangeTypes ==
  ASSUME TypeInv, NEW c \in Changing, ChangeStep(c)
  PROVE  TypeInv'
  <1>1. HoldTypeOK /\ RegistryOK /\ SessionsOK /\ ShakingOK /\ RequestsOK /\ ChangesOK
    BY TypeParts
  <1>2. change[c].pc # "idle"
    BY ChangeSteps
  <1>g. ASSUME NEW pc, NEW copy, ChangeTo(c, pc, copy),
               pc \in {"sync", "write"} => copy \in Registry
        PROVE  ChangesOK'
    BY <1>1, <1>2, <1>g, ChangesGoOn
  <1>3. CASE ChangeRead(c)
    <2>1. ChangesOK'
      BY <1>1, <1>3, <1>g, ChangeSteps DEF RegistryOK
    <2> QED
      BY <1>3, <2>1, PartsStay, TypeTogether DEF ChangeRead
  <1>4. CASE ChangeSync(c)
    <2>1. ChangesOK' /\ RegistryOK'
      BY <1>1, <1>4, <1>g, ChangeSteps, WritesBackOK DEF ChangeSync
    <2> QED
      BY <1>4, <2>1, PartsStay, TypeTogether DEF ChangeSync
  <1>5. CASE ChangeWrite(c)
    <2>1. ChangesOK' /\ RegistryOK'
      BY <1>1, <1>5, <1>g, ChangeSteps, ChangeWritesOK
    <2> QED
      BY <1>5, <2>1, PartsStay, TypeTogether DEF ChangeWrite
  <1>6. CASE ChangeAfter(c)
    <2>1. ChangesOK'
      BY <1>6, <1>g, ChangeSteps
    <2> DEFINE p == change[c].phone
    <2>2. p \in Phone
      BY ChangeSteps
    <2>3. CASE /\ gone' = gone \cup {p}
               /\ HoldForget(p)
               /\ open' = open \ {p}
               /\ stream' = stream \/ stream' = stream \ {p}
               /\ drives' = [drives EXCEPT ![p] = "none"]
      <3>1. HoldTypeOK'
        BY <1>1, <2>2, <2>3, HoldForgets
      <3>2. SessionsOK'
        BY <1>1, <1>6, <2>2, <2>3 DEF ChangeAfter, SessionsOK, Span
      <3> QED
        BY <1>6, <2>1, <3>1, <3>2, PartsStay, TypeTogether DEF ChangeAfter
    <2>4. CASE UNCHANGED <<open, stream, gone>> /\ DriveStops(p)
      <3>1. HoldTypeOK'
        BY <1>1, <2>2, <2>4, HoldPassing DEF HoldDoes
      <3>2. drives' \in [Phone -> Span]
        BY <1>1, <2>2, <2>4 DEF DriveStops, SessionsOK, Span
      <3>3. SessionsOK'
        BY <1>1, <1>6, <2>4, <3>2 DEF ChangeAfter, SessionsOK
      <3> QED
        BY <1>6, <2>1, <3>1, <3>3, PartsStay, TypeTogether DEF ChangeAfter
    <2>5. CASE UNCHANGED <<open, stream, drives, gone, holdVars>>
      BY <1>6, <2>1, <2>5, PartsStay, TypeTogether DEF ChangeAfter
    <2> QED
      BY <1>6, <2>3, <2>4, <2>5, AfterDoes
  <1> QED
    BY <1>3, <1>4, <1>5, <1>6 DEF ChangeStep

(* Beginning a request or a change.                                        *)
LEMMA BeginsTypes ==
  ASSUME TypeInv, NEW p \in Phone
  PROVE  /\ \A q \in Request, m \in Method : Dispatch(q, p, m) => TypeInv'
         /\ \A c \in Changing, k \in Change : ChangeAsked(c, p, k) => TypeInv'
  <1>1. HoldTypeOK /\ RegistryOK /\ SessionsOK /\ ShakingOK /\ RequestsOK /\ ChangesOK
    BY TypeParts
  <1>2. ASSUME NEW q \in Request, NEW m \in Method, Dispatch(q, p, m) PROVE TypeInv'
    <2> DEFINE new == [phone |-> p, method |-> m, pc |-> "find", copy |-> None, late |-> p \in gone]
    <2>1. new \in RequestRecord /\ new.phone = p /\ new.pc = "find"
      BY DEF RequestRecord, RequestPC
    <2>2. request' = [request EXCEPT ![q] = new]
      BY <1>2 DEF Dispatch
    <2> HIDE DEF new
    <2>3. RequestsOK'
      BY <1>1, <2>1, <2>2 DEF RequestsOK, RequestOK
    <2> QED
      BY <1>2, <2>3, PartsStay, TypeTogether DEF Dispatch
  <1>3. ASSUME NEW c \in Changing, NEW k \in Change, ChangeAsked(c, p, k) PROVE TypeInv'
    <2> DEFINE new == [phone |-> p, kind |-> k, pc |-> "read", copy |-> None]
    <2>1. new \in ChangeRecord /\ new.phone = p /\ new.pc = "read"
      BY DEF ChangeRecord, ChangePC
    <2>2. change' = [change EXCEPT ![c] = new]
      BY <1>3 DEF ChangeAsked
    <2> HIDE DEF new
    <2>3. ChangesOK'
      BY <1>1, <2>1, <2>2 DEF ChangesOK, ChangeOK
    <2> QED
      BY <1>3, <2>3, PartsStay, TypeTogether DEF ChangeAsked
  <1> QED
    BY <1>2, <1>3

(* Every step keeps TypeInv.                                               *)
LEMMA TypeInvStep == TypeInv /\ [Next]_vars => TypeInv'
  <1> SUFFICES ASSUME TypeInv, [Next]_vars PROVE TypeInv'
    OBVIOUS
  <1>1. HoldTypeOK /\ SessionsOK
    BY TypeParts
  <1>2. CASE MacAsks
    <2>1. HoldTypeOK'
      BY <1>1, <1>2, HoldWhole DEF MacAsks
    <2>2. SessionsOK'
      BY <1>1, <1>2 DEF MacAsks, SessionsOK
    <2> QED
      BY <1>2, <2>1, <2>2, PartsStay, TypeTogether DEF MacAsks
  <1>3. CASE Settles
    <2>1. HoldTypeOK'
      BY <1>1, <1>3, HoldWhole DEF Settles
    <2> QED
      BY <1>3, <2>1, PartsStay, TypeTogether DEF Settles, endpointVars
  <1>4. CASE UNCHANGED vars
    BY <1>4, PartsStay, TypeTogether DEF vars, endpointVars
  <1> QED
    BY <1>2, <1>3, <1>4, SessionTypes, RequestTypes, ChangeTypes, BeginsTypes DEF Next

(* The daemon starts well typed.                                           *)
LEMMA TypeInvInit == Init => TypeInv
  <1> SUFFICES ASSUME Init PROVE TypeInv
    OBVIOUS
  <1>1. HoldTypeOK
    <2>1. phones \in [Phone -> Activity \cup {None}] /\ current \in Phone \cup {None}
      BY DEF Init, HoldInit
    <2>2. recent \in Seq(Phone) /\ due \in BOOLEAN
      BY EmptySeq DEF Init, HoldInit
    <2> QED
      BY <2>1, <2>2 DEF HoldTypeOK
  <1>2. registry \in Registry
    BY DEF Init, Registry, Entry
  <1>3. SessionsOK /\ RegistryOK
    <2>1. 0 \in 0 .. MaxDrops
      BY DropAssumption
    <2>2. drives \in [Phone -> Span]
      BY DEF Init, Span
    <2> QED
      BY <1>2, <2>1, <2>2 DEF Init, SessionsOK, RegistryOK
  <1>4. ShakingOK
    BY DEF Init, ShakingOK, ShakeOK, ShakeRecord
  <1>5. RequestsOK
    BY DEF Init, RequestsOK, RequestOK, RequestRecord, RequestPC
  <1>6. ChangesOK
    BY DEF Init, ChangesOK, ChangeOK, ChangeRecord, ChangePC
  <1> QED
    BY <1>1, <1>3, <1>4, <1>5, <1>6, TypeParts

(* The endpoint, the registry and the voice hold are well typed, and what  *)
(* holds the voice is a phone or nobody, for any phones, requests and      *)
(* changes (endpoint.ts, voice-hold.ts).                                   *)
THEOREM RemoteTypeCorrect == Spec => []TypeOK
  <1>1. TypeInv => TypeOK
    BY DEF TypeInv
  <1> QED
    BY <1>1, TypeInvInit, TypeInvStep, PTL DEF Spec

----------------------------------------------------------------------------
(* A revoked phone acts no more.                                           *)

(* The registry keeps its revokes while no writers cross.                  *)
LEMMA RevokesStay ==
  ASSUME TypeInv, [Next]_vars
  PROVE  /\ crossed => crossed'
         /\ ~crossed' => \A p \in Phone : registry[p].revoked => registry'[p].revoked
  <1>1. RegistryOK /\ ShakingOK /\ RequestsOK /\ ChangesOK
    BY TypeParts
  <1>2. CASE UNCHANGED <<registry, crossed>>
    BY <1>2
  <1>3. ASSUME NEW p \in Phone, HandshakeSync(p)
        PROVE  (crossed => crossed') /\ (~crossed' => registry' = registry)
    <2>1. shaking[p].copy \in Registry
      BY <1>1, <1>3 DEF HandshakeSync, ShakingOK, ShakeOK
    <2> QED
      BY <1>1, <1>3, <2>1, WritesBackOK DEF HandshakeSync
  <1>4. ASSUME NEW q \in Request, SyncMac(q)
        PROVE  (crossed => crossed') /\ (~crossed' => registry' = registry)
    BY <1>1, <1>4, RequestSteps, WritesBackOK DEF SyncMac, Step
  <1>5. ASSUME NEW c \in Changing, ChangeSync(c)
        PROVE  (crossed => crossed') /\ (~crossed' => registry' = registry)
    BY <1>1, <1>5, ChangeSteps, WritesBackOK DEF ChangeSync, ChangeStep
  <1>6. ASSUME NEW c \in Changing, ChangeWrite(c)
        PROVE  /\ crossed => crossed'
               /\ ~crossed' => \A p \in Phone : registry[p].revoked => registry'[p].revoked
    BY <1>1, <1>6, ChangeWritesOK
  <1>7. \/ UNCHANGED <<registry, crossed>>
        \/ \E p \in Phone : HandshakeSync(p)
        \/ \E q \in Request : SyncMac(q)
        \/ \E c \in Changing : ChangeSync(c) \/ ChangeWrite(c)
    BY DEF Next, vars, endpointVars, HandshakeReads, HandshakeOpens, SessionDrops, DrivePasses,
           DriveTimer, Time, Dispatch, ChangeAsked, Step, Find, DispatchRevoked, DispatchDrive,
           DispatchUndrive, DispatchRelease, DispatchSubscribe, DispatchAsk, AskEnds, ChangeStep,
           ChangeRead, ChangeAfter, MacAsks, Settles
  <1> QED
    BY <1>2, <1>3, <1>4, <1>5, <1>6, <1>7

(* What a request may have been, seen from the next state: as it was, new, *)
(* reading, going on, or done.                                             *)
LEMMA RequestKinds ==
  ASSUME TypeInv, [Next]_vars
  PROVE  \/ request' = request
         \/ \E q \in Request, p \in Phone, m \in Method : Dispatch(q, p, m)
         \/ \E q \in Request :
               \/ Find(q) \/ SyncMac(q) \/ DispatchAsk(q)
               \/ RequestTo(q, "done", None)
  <1>1. ASSUME NEW q \in Request, Step(q)
        PROVE  Find(q) \/ SyncMac(q) \/ DispatchAsk(q) \/ RequestTo(q, "done", None)
    BY <1>1, RequestSteps DEF Step
  <1> QED
    BY <1>1 DEF Next, vars, endpointVars, HandshakeReads, HandshakeSync, HandshakeOpens, SessionDrops,
           DrivePasses, DriveTimer, Time, ChangeAsked, ChangeStep, ChangeRead, ChangeSync,
           ChangeWrite, ChangeAfter, MacAsks, Settles

(* A step leaves the changes be, begins one or takes one further.          *)
LEMMA ChangeKinds ==
  ASSUME [Next]_vars
  PROVE  \/ change' = change
         \/ \E c \in Changing, p \in Phone, k \in Change : ChangeAsked(c, p, k)
         \/ \E c \in Changing : ChangeStep(c)
  BY DEF Next, vars, endpointVars, HandshakeReads, HandshakeSync, HandshakeOpens, SessionDrops,
         DrivePasses, DriveTimer, Time, Dispatch, Step, Find, SyncMac, DispatchRevoked, DispatchDrive,
         DispatchUndrive, DispatchRelease, DispatchSubscribe, DispatchAsk, AskEnds, MacAsks, Settles

(* Only the end of a revoke adds to the phones that are gone.              *)
LEMMA GoneKinds ==
  ASSUME TypeInv, [Next]_vars
  PROVE  \/ gone' = gone
         \/ \E c \in Changing : /\ ChangeAfter(c)
                                /\ change[c].kind = "revoke"
                                /\ gone' = gone \cup {change[c].phone}
  <1>1. ASSUME NEW c \in Changing, ChangeAfter(c)
        PROVE  \/ gone' = gone
               \/ change[c].kind = "revoke" /\ gone' = gone \cup {change[c].phone}
    BY <1>1, AfterDoes
  <1> QED
    BY <1>1 DEF Next, vars, endpointVars, HandshakeReads, HandshakeSync, HandshakeOpens,
         SessionDrops, DrivePasses, DriveTimer, Time, Dispatch, Step, Find, SyncMac,
         DispatchRevoked, DispatchDrive, DispatchUndrive, DispatchRelease, DispatchSubscribe,
         DispatchAsk, AskEnds, ChangeAsked, ChangeStep, ChangeRead, ChangeSync, ChangeWrite,
         MacAsks, Settles

(* Every step keeps a revoke where a late request reads it.                *)
LEMMA RevokedStep == TypeInv /\ RevokedInv /\ [Next]_vars => RevokedInv'
  <1> SUFFICES ASSUME TypeInv, RevokedInv, [Next]_vars, ~crossed'
               PROVE  /\ \A p \in gone' : registry'[p].revoked
                      /\ \A c \in Changing : WrittenOK(c)'
                      /\ \A q \in Request : LateOK(q)'
    BY DEF RevokedInv
  <1>0. RegistryOK /\ SessionsOK /\ RequestsOK /\ ChangesOK
    BY TypeParts
  <1>1. ~crossed /\ \A p \in Phone : registry[p].revoked => registry'[p].revoked
    BY RevokesStay
  <1>2. /\ \A p \in gone : registry[p].revoked
        /\ \A c \in Changing : WrittenOK(c)
        /\ \A q \in Request : LateOK(q)
    BY <1>1 DEF RevokedInv
  <1>3. gone \subseteq gone' /\ \A p \in gone' : registry'[p].revoked
    <2>1. \A p \in gone : registry'[p].revoked
      BY <1>0, <1>1, <1>2 DEF SessionsOK
    <2>2. ASSUME NEW c \in Changing, ChangeAfter(c), change[c].kind = "revoke"
          PROVE  registry'[change[c].phone].revoked
      BY <1>1, <1>2, <2>2, ChangeSteps DEF ChangeStep, ChangeAfter, WrittenOK
    <2> QED
      BY <2>1, <2>2, GoneKinds
  <1>4. ASSUME NEW c \in Changing PROVE WrittenOK(c)'
    <2>1. CASE change'[c] = change[c]
      <3> SUFFICES ASSUME change[c].pc = "after", change[c].kind = "revoke"
                   PROVE  registry'[change[c].phone].revoked
        BY <2>1 DEF WrittenOK
      <3>1. change[c].phone \in Phone
        BY <1>0 DEF ChangesOK, ChangeOK
      <3> QED
        BY <1>1, <1>2, <3>1 DEF WrittenOK
    <2>2. ASSUME NEW d \in Changing, NEW p \in Phone, NEW k \in Change, ChangeAsked(d, p, k)
          PROVE  change'[c] = change[c] \/ change'[c].pc = "read"
      BY <1>0, <2>2 DEF ChangeAsked, ChangesOK
    <2>3. ASSUME NEW d \in Changing, ChangeStep(d), d # c
          PROVE  change'[c] = change[c]
      BY <2>3, ChangeSteps DEF ChangeStep, ChangeTo
    <2>4. ASSUME ChangeStep(c) PROVE WrittenOK(c)'
      BY <2>4, ChangeSteps DEF ChangeStep, ChangeTo, WrittenOK
    <2>5. CASE change'[c].pc = "read"
      BY <2>5 DEF WrittenOK
    <2> QED
      BY <2>1, <2>2, <2>3, <2>4, <2>5, ChangeKinds
  <1>5. ASSUME NEW q \in Request PROVE LateOK(q)'
    <2>0. LateOK(q)
      BY <1>2
    <2>1. CASE request'[q] = request[q]
      BY <1>3, <2>0, <2>1 DEF LateOK, Read
    <2>2. ASSUME NEW r \in Request, NEW p \in Phone, NEW m \in Method, Dispatch(r, p, m)
          PROVE  LateOK(q)'
      <3>1. CASE r # q
        BY <1>0, <2>1, <2>2, <3>1 DEF Dispatch, RequestsOK
      <3>2. CASE r = q
        <4>1. request'[q] = [phone |-> p, method |-> m, pc |-> "find", copy |-> None,
                             late |-> p \in gone]
          BY <1>0, <2>2, <3>2 DEF Dispatch, RequestsOK
        <4>2. request'[q].phone = p /\ request'[q].pc = "find" /\ request'[q].late = (p \in gone)
          BY <4>1
        <4> QED
          BY <1>3, <4>2 DEF LateOK
      <3> QED
        BY <3>1, <3>2
    <2>3. ASSUME NEW r \in Request, r # q, NEW pc, NEW copy, RequestTo(r, pc, copy)
          PROVE  LateOK(q)'
      BY <2>1, <2>3 DEF RequestTo
    <2>4. ASSUME NEW r \in Request, r # q,
                 Find(r) \/ SyncMac(r) \/ DispatchAsk(r) \/ RequestTo(r, "done", None)
          PROVE  LateOK(q)'
      BY <2>3, <2>4, RequestSteps DEF Step
    <2>5. ASSUME Find(q) PROVE LateOK(q)'
      <3>1. RequestTo(q, IF keyChanged THEN "sync" ELSE "act", registry)
        BY <2>5, RequestSteps DEF Step
      <3>2. request[q].late => registry[request[q].phone].revoked
        BY <1>2, <2>0 DEF LateOK
      <3> QED
        BY <1>3, <2>0, <3>1, <3>2 DEF RequestTo, LateOK, Read
    <2>6. ASSUME SyncMac(q) PROVE LateOK(q)'
      <3>1. RequestTo(q, "act", request[q].copy) /\ request[q].pc = "sync"
        BY <2>6, RequestSteps DEF Step, SyncMac
      <3> QED
        BY <1>3, <2>0, <3>1 DEF RequestTo, LateOK, Read
    <2>7. ASSUME DispatchAsk(q) PROVE LateOK(q)'
      <3>1. RequestTo(q, "asking", None) /\ request[q].pc = "act" /\ ~Read(q).revoked
        BY <2>7, RequestSteps DEF Step, DispatchAsk, May
      <3>2. ~request[q].late
        BY <2>0, <3>1 DEF LateOK
      <3> QED
        BY <3>1, <3>2 DEF RequestTo, LateOK
    <2>8. ASSUME RequestTo(q, "done", None) PROVE LateOK(q)'
      BY <1>3, <2>0, <2>8 DEF RequestTo, LateOK
    <2> QED
      BY <2>1, <2>2, <2>4, <2>5, <2>6, <2>7, <2>8, RequestKinds
  <1> QED
    BY <1>3, <1>4, <1>5

(* For any phones, requests and changes of the registry, whatever          *)
(* handshake, request or renewal was under way at the revoke: a request    *)
(* that arrives after it was answered is let in to nothing, while no two   *)
(* writers of the registry crossed (Devices.all, RemoteEndpoint.dispatch). *)
THEOREM RevokedIsOut == Spec => []RevokedActsNoMore
  <1>1. Init => RevokedInv
    BY DEF Init, RevokedInv, WrittenOK, LateOK
  <1>2. RevokedInv => RevokedActsNoMore
    BY DEF RevokedInv, LateOK, RevokedActsNoMore, May
  <1> QED
    BY <1>1, <1>2, TypeInvInit, TypeInvStep, RevokedStep, PTL DEF Spec

----------------------------------------------------------------------------
(* What a step of the endpoint does to what the hold counts.               *)

Subs(p) == Touched(p).subscribed
Asks(p) == Touched(p).asking
SameAsking == \A r \in Phone : Asking(r)' = Asking(r)
SameFor(p) == \A r \in Phone \ {p} : Asking(r)' = Asking(r) /\ (r \in stream' <=> r \in stream)

(* Nothing of the hold changes.                                            *)
Nothing == UNCHANGED <<phones, current, stream, gone, spoken>> /\ SameAsking

(* The hold is told of p, and counts as before.                            *)
Told(p) ==
    /\ HoldDoes(p, Subs(p), Asks(p), TRUE)
    /\ UNCHANGED <<stream, gone>> /\ SameAsking
    /\ spoken' => spoken

(* p drives.                                                               *)
Drives(p) ==
    /\ HoldDoes(p, Subs(p), Asks(p), FALSE)
    /\ UNCHANGED <<stream, gone>> /\ SameAsking
    /\ ~spoken'

(* A question of p is in flight.                                           *)
Begins(p, q) ==
    /\ HoldDoes(p, Subs(p), Asks(p) + 1, FALSE)
    /\ UNCHANGED <<stream, gone>> /\ SameFor(p)
    /\ q \notin Asking(p) /\ Asking(p)' = Asking(p) \cup {q}
    /\ ~spoken'

(* It was answered.                                                        *)
Answered(p, q) ==
    /\ HoldDoes(p, Subs(p), IF Asks(p) = 0 THEN 0 ELSE Asks(p) - 1, TRUE)
    /\ UNCHANGED <<stream, gone, spoken>> /\ SameFor(p)
    /\ q \in Asking(p) /\ Asking(p)' = Asking(p) \ {q}

(* A stream to p opens.                                                    *)
Streams(p) ==
    /\ HoldDoes(p, Subs(p) + 1, Asks(p), ~Fresh(p))
    /\ p \notin stream /\ stream' = stream \cup {p}
    /\ gone' = gone /\ SameAsking
    /\ spoken' => spoken /\ ~Fresh(p)

(* p's session ends.                                                       *)
Ends(p) ==
    /\ \/ p \notin stream' /\ HoldDoes(p, IF p \in stream /\ Subs(p) > 0 THEN Subs(p) - 1
                                          ELSE Subs(p), Asks(p), TRUE)
       \/ stream' = stream /\ HoldDoes(p, Subs(p), Asks(p), TRUE)
    /\ SameFor(p) /\ SameAsking
    /\ UNCHANGED <<gone, spoken>>

(* p is revoked and forgotten.                                             *)
Forgotten(p) ==
    /\ \A r \in Phone \ {p} : phones'[r] = phones[r]
    /\ Yielded => Yielded'
    /\ current' = current \/ (Yielded' => current' = None)
    /\ gone' = gone \cup {p} /\ SameFor(p)
    /\ spoken' = spoken

(* The rule is read again, the Mac having been spoken to or not.           *)
Reads ==
    /\ \A p \in Phone : Subs(p)' = Subs(p) /\ Asks(p)' = Asks(p)
    /\ UNCHANGED <<stream, gone>> /\ SameAsking
    /\ \/ Yielded' /\ current' = None
       \/ /\ spoken' = spoken
          /\ Yielded => Yielded' /\ current' = None

HoldKind ==
    \/ Nothing \/ Reads
    \/ \E p \in Phone : \/ Told(p) \/ Drives(p) \/ Streams(p) \/ Ends(p) \/ Forgotten(p)
                        \/ \E q \in Request : Begins(p, q) \/ Answered(p, q)

(* Only a question that begins or ends changes which are in flight.        *)
LEMMA AskingMoves ==
  ASSUME RequestsOK, NEW q \in Request, NEW p \in Phone
  PROVE  /\ request' = request => SameAsking
         /\ \A m \in Method : Dispatch(q, p, m) => SameAsking
         /\ \A pc, copy :
               request[q].pc # "asking" /\ pc # "asking" /\ RequestTo(q, pc, copy) => SameAsking
         /\ \A copy :
               request[q].phone = p /\ request[q].pc # "asking" /\ RequestTo(q, "asking", copy) =>
                  /\ \A r \in Phone \ {p} : Asking(r)' = Asking(r)
                  /\ q \notin Asking(p) /\ Asking(p)' = Asking(p) \cup {q}
         /\ \A copy :
               request[q].phone = p /\ request[q].pc = "asking" /\ RequestTo(q, "done", copy) =>
                  /\ \A r \in Phone \ {p} : Asking(r)' = Asking(r)
                  /\ q \in Asking(p) /\ Asking(p)' = Asking(p) \ {q}
  <1>1. request' = request => SameAsking
    BY DEF SameAsking, Asking
  <1>2. ASSUME NEW m \in Method, Dispatch(q, p, m)
        PROVE  SameAsking
    <2>1. /\ request'[q].pc = "find" /\ request[q].pc = "idle"
          /\ \A x \in Request \ {q} : request'[x] = request[x]
      BY <1>2 DEF Dispatch, RequestsOK
    <2> QED
      BY <2>1 DEF SameAsking, Asking
  <1>3. ASSUME NEW pc, NEW copy,
               request[q].pc # "asking", pc # "asking", RequestTo(q, pc, copy)
        PROVE  SameAsking
    BY <1>3 DEF RequestTo, SameAsking, Asking
  <1>4. ASSUME NEW copy, request[q].phone = p, request[q].pc # "asking",
               RequestTo(q, "asking", copy)
        PROVE  /\ \A r \in Phone \ {p} : Asking(r)' = Asking(r)
               /\ q \notin Asking(p) /\ Asking(p)' = Asking(p) \cup {q}
    BY <1>4 DEF RequestTo, Asking
  <1>5. ASSUME NEW copy, request[q].phone = p, request[q].pc = "asking",
               RequestTo(q, "done", copy)
        PROVE  /\ \A r \in Phone \ {p} : Asking(r)' = Asking(r)
               /\ q \in Asking(p) /\ Asking(p)' = Asking(p) \ {q}
    BY <1>5 DEF RequestTo, Asking
  <1> QED
    BY <1>1, <1>2, <1>3, <1>4, <1>5

(* A request's step, as the hold sees it.                                  *)
LEMMA RequestCounts ==
  ASSUME TypeInv, NEW q \in Request, NEW p \in Phone, p = request[q].phone, Step(q)
  PROVE  \/ Nothing \/ Told(p) \/ Drives(p) \/ Streams(p) \/ Ends(p)
         \/ Begins(p, q) \/ Answered(p, q)
  <1>1. HoldTypeOK /\ RegistryOK /\ SessionsOK /\ RequestsOK
    BY TypeParts
  <1>2. ASSUME NEW pc, NEW copy, request[q].pc # "asking", pc # "asking", RequestTo(q, pc, copy)
        PROVE  SameAsking
    BY <1>1, <1>2, AskingMoves
  <1>3. UNCHANGED holdVars => HoldDoes(p, Subs(p), Asks(p), TRUE)
    BY <1>1, HoldStays DEF Subs, Asks
  <1>4. CASE Find(q)
    <2>1. SameAsking
      BY <1>2, <1>4, RequestSteps DEF Find
    <2> QED
      BY <1>4, <2>1 DEF Find, Nothing, holdVars
  <1>5. CASE SyncMac(q)
    <2>1. SameAsking
      BY <1>2, <1>5, RequestSteps DEF SyncMac
    <2> QED
      BY <1>5, <2>1 DEF SyncMac, Nothing, holdVars
  <1>6. CASE DispatchRevoked(q)
    <2>1. SameAsking
      BY <1>2, <1>6, RequestSteps DEF DispatchRevoked
    <2>2. Closes(p)
      BY <1>6 DEF DispatchRevoked
    <2> QED
      BY <1>6, <2>1, <2>2, ClosesDoes DEF DispatchRevoked, Ends, SameAsking, SameFor, Subs, Asks
  <1>7. CASE DispatchDrive(q)
    <2>1. SameAsking
      BY <1>2, <1>7, RequestSteps DEF DispatchDrive, May
    <2>2. UNCHANGED <<stream, gone>>
      BY <1>7 DEF DispatchDrive
    <2>3. (HoldDriven(p) /\ ~spoken') \/ UNCHANGED <<holdVars, spoken>>
      BY <1>7 DEF DispatchDrive
    <2> QED
      BY <1>1, <1>3, <2>1, <2>2, <2>3, HoldEvents DEF Drives, Told, Subs, Asks
  <1>8. CASE DispatchUndrive(q)
    <2>1. SameAsking
      BY <1>2, <1>8, RequestSteps DEF DispatchUndrive, May
    <2>2. UNCHANGED <<stream, gone, spoken>>
      BY <1>8 DEF DispatchUndrive
    <2>3. DriveStops(p) \/ UNCHANGED <<drives, holdVars>>
      BY <1>8 DEF DispatchUndrive
    <2> QED
      BY <1>1, <1>3, <2>1, <2>2, <2>3, HoldPassing DEF Told, Subs, Asks
  <1>9. CASE DispatchRelease(q)
    <2>1. SameAsking
      BY <1>2, <1>9, RequestSteps DEF DispatchRelease, May
    <2>2. HoldReleased(p) /\ UNCHANGED <<stream, gone, spoken>>
      BY <1>9 DEF DispatchRelease
    <2> QED
      BY <1>1, <2>1, <2>2, HoldEvents DEF Told, Subs, Asks
  <1>10. CASE DispatchSubscribe(q)
    <2>1. SameAsking
      BY <1>2, <1>10, RequestSteps DEF DispatchSubscribe, May
    <2>2. /\ stream' = stream \cup {p} /\ gone' = gone
          /\ spoken' = (spoken /\ ~OpenedAfresh(p))
          /\ IF p \in stream THEN HoldRenewed(p) ELSE HoldSubscribed(p)
      BY <1>10 DEF DispatchSubscribe
    <2>3. spoken' => spoken /\ ~OpenedAfresh(p)
      BY <2>2
    <2>4. CASE p \in stream
      <3>1. stream' = stream
        BY <2>2, <2>4
      <3> QED
        BY <1>1, <2>1, <2>2, <2>3, <2>4, <3>1, HoldEvents DEF Told, Subs, Asks
    <2>5. CASE p \notin stream
      <3>1. ~OpenedAfresh(p) => ~Fresh(p)
        BY <2>5 DEF OpenedAfresh, Fresh
      <3> QED
        BY <1>1, <2>1, <2>2, <2>3, <2>5, <3>1, HoldEvents DEF Streams, Subs, Asks
    <2> QED
      BY <2>4, <2>5
  <1>11. CASE DispatchAsk(q)
    <2>1. RequestTo(q, "asking", None) /\ request[q].pc # "asking"
      BY <1>11, RequestSteps DEF DispatchAsk, May
    <2>2. /\ \A r \in Phone \ {p} : Asking(r)' = Asking(r)
          /\ q \notin Asking(p) /\ Asking(p)' = Asking(p) \cup {q}
      BY <1>1, <2>1, AskingMoves
    <2>3. HoldBegan(p) /\ ~spoken' /\ UNCHANGED <<stream, gone>>
      BY <1>11 DEF DispatchAsk
    <2> QED
      BY <1>1, <2>2, <2>3, HoldEvents DEF Begins, SameFor, Subs, Asks
  <1>12. CASE AskEnds(q)
    <2>1. RequestTo(q, "done", None) /\ request[q].pc = "asking"
      BY <1>12, RequestSteps DEF AskEnds
    <2>2. /\ \A r \in Phone \ {p} : Asking(r)' = Asking(r)
          /\ q \in Asking(p) /\ Asking(p)' = Asking(p) \ {q}
      BY <1>1, <2>1, AskingMoves
    <2>3. HoldEnded(p) /\ UNCHANGED <<stream, gone, spoken>>
      BY <1>12 DEF AskEnds
    <2> QED
      BY <1>1, <2>2, <2>3, HoldEvents DEF Answered, SameFor, Subs, Asks
  <1> QED
    BY <1>4, <1>5, <1>6, <1>7, <1>8, <1>9, <1>10, <1>11, <1>12 DEF Step

(* Every step, as the hold sees it.                                        *)
LEMMA HoldKinds == TypeInv /\ [Next]_vars => HoldKind
  <1> SUFFICES ASSUME TypeInv, [Next]_vars PROVE HoldKind
    OBVIOUS
  <1>1. HoldTypeOK /\ RegistryOK /\ SessionsOK /\ RequestsOK
    BY TypeParts
  <1>2. request' = request => SameAsking
    BY DEF SameAsking, Asking
  <1>3. ASSUME UNCHANGED <<holdVars, stream, gone, spoken, request>> PROVE HoldKind
    BY <1>2, <1>3 DEF HoldKind, Nothing, holdVars
  <1>4. ASSUME NEW p \in Phone,
               HandshakeReads(p) \/ HandshakeSync(p) \/ HandshakeOpens(p)
        PROVE  HoldKind
    BY <1>3, <1>4 DEF HandshakeReads, HandshakeSync, HandshakeOpens
  <1>5. ASSUME NEW p \in Phone, SessionDrops(p) PROVE HoldKind
    <2>1. Closes(p) /\ SameAsking /\ UNCHANGED <<gone, spoken>>
      BY <1>2, <1>5 DEF SessionDrops
    <2>2. Ends(p)
      BY <2>1, ClosesDoes DEF Ends, SameAsking, SameFor, Subs, Asks
    <2> QED
      BY <2>2 DEF HoldKind
  <1>6. ASSUME NEW p \in Phone, DrivePasses(p) \/ DriveTimer(p) \/ Time(p) PROVE HoldKind
    <2>1. /\ GracePasses(p) \/ HoldDrivePasses(p) \/ DriveStops(p)
          /\ SameAsking /\ UNCHANGED <<stream, gone, spoken>>
      BY <1>2, <1>6 DEF DrivePasses, DriveTimer, Time, endpointVars
    <2>2. Told(p)
      BY <1>1, <2>1, HoldPassing DEF Told, Subs, Asks
    <2> QED
      BY <2>2 DEF HoldKind
  <1>7. ASSUME NEW p \in Phone, NEW q \in Request, NEW m \in Method, Dispatch(q, p, m)
        PROVE  HoldKind
    <2>1. SameAsking
      BY <1>1, <1>7, AskingMoves
    <2> QED
      BY <1>7, <2>1 DEF Dispatch, HoldKind, Nothing, holdVars
  <1>8. ASSUME NEW p \in Phone, NEW c \in Changing, NEW k \in Change, ChangeAsked(c, p, k)
        PROVE  HoldKind
    BY <1>3, <1>8 DEF ChangeAsked
  <1>9. ASSUME NEW q \in Request, Step(q) PROVE HoldKind
    <2>1. PICK p \in Phone : p = request[q].phone
      BY <1>9, RequestSteps
    <2>2. \/ Nothing \/ Told(p) \/ Drives(p) \/ Streams(p) \/ Ends(p)
          \/ Begins(p, q) \/ Answered(p, q)
      BY <1>9, <2>1, RequestCounts
    <2> QED
      BY <2>2 DEF HoldKind
  <1>10. ASSUME NEW c \in Changing, ChangeRead(c) \/ ChangeSync(c) \/ ChangeWrite(c)
         PROVE  HoldKind
    BY <1>3, <1>10 DEF ChangeRead, ChangeSync, ChangeWrite
  <1>11. ASSUME NEW c \in Changing, ChangeAfter(c) PROVE HoldKind
    <2>1. PICK p \in Phone : p = change[c].phone
      BY <1>11, AfterDoes
    <2>2. SameAsking /\ spoken' = spoken
      BY <1>2, <1>11 DEF ChangeAfter
    <2>3. CASE HoldForget(p) /\ gone' = gone \cup {p} /\ (stream' = stream \/ stream' = stream \ {p})
      <3>1. Forgotten(p)
        BY <1>1, <2>2, <2>3, HoldForgets DEF Forgotten, SameFor, SameAsking
      <3> QED
        BY <3>1 DEF HoldKind
    <2>4. CASE UNCHANGED <<stream, gone>> /\ DriveStops(p)
      <3>1. Told(p)
        BY <1>1, <2>2, <2>4, HoldPassing DEF Told, Subs, Asks
      <3> QED
        BY <3>1 DEF HoldKind
    <2>5. CASE UNCHANGED <<stream, gone, holdVars>>
      BY <2>2, <2>5 DEF HoldKind, Nothing, holdVars
    <2> QED
      BY <1>11, <2>1, <2>3, <2>4, <2>5, AfterDoes
  <1>12. CASE MacAsks \/ Settles
    <2>1. /\ HoldMacTookBack \/ (HoldTimer /\ spoken' = spoken)
          /\ UNCHANGED <<stream, gone>> /\ SameAsking
      BY <1>2, <1>12 DEF MacAsks, Settles, endpointVars
    <2> QED
      BY <1>1, <2>1, HoldWhole DEF HoldKind, Reads, Subs, Asks
  <1>13. CASE UNCHANGED vars
    BY <1>3, <1>13 DEF vars, endpointVars
  <1> QED
    BY <1>4, <1>5, <1>6, <1>7, <1>8, <1>9, <1>10, <1>11, <1>12, <1>13 DEF Next, ChangeStep

----------------------------------------------------------------------------
(* What the hold counts, and who holds the voice.                          *)

(* The counts are right of every phone when they are of the one phone the  *)
(* step was about.                                                         *)
LEMMA CountsGoOn ==
  ASSUME CountInv, NEW p \in Phone, SameFor(p),
         \A r \in Phone \ {p} : phones'[r] = phones[r],
         gone \subseteq gone',
         p \notin gone' => CountOK(p)'
  PROVE  CountInv'
  <1> SUFFICES ASSUME NEW r \in Phone, r \notin gone', r # p PROVE CountOK(r)'
    BY DEF CountInv
  <1>1. CountOK(r)
    BY DEF CountInv
  <1>2. Touched(r)' = Touched(r)
    BY DEF Touched, Known
  <1>3. Asking(r)' = Asking(r) /\ (r \in stream' <=> r \in stream)
    BY DEF SameFor
  <1> QED
    BY <1>1, <1>2, <1>3 DEF CountOK

(* Every step keeps the counts true.                                       *)
LEMMA CountStep ==
  ASSUME IsFiniteSet(Request), TypeInv, CountInv, [Next]_vars
  PROVE  CountInv'
  <1>1. HoldTypeOK /\ SessionsOK
    BY TypeParts
  <1>2. ASSUME NEW p \in Phone, p \notin gone PROVE CountOK(p)
    BY <1>2 DEF CountInv
  <1>3. ASSUME NEW p \in Phone, NEW s, NEW a, NEW b, HoldDoes(p, s, a, b), gone' = gone, SameFor(p),
               p \notin gone => /\ s = IF p \in stream' THEN 1 ELSE 0
                                /\ a = Cardinality(Asking(p)')
        PROVE  CountInv'
    <2>1. p \notin gone' => CountOK(p)'
      BY <1>3 DEF HoldDoes, CountOK
    <2> QED
      BY <1>3, <2>1, CountsGoOn DEF HoldDoes
  <1>4. ASSUME NEW p \in Phone
        PROVE  Subs(p) \in Nat /\ Asks(p) \in Nat
    <2>1. Touched(p) \in Activity
      BY <1>1, TouchedIs
    <2> QED
      BY <2>1 DEF Activity, Subs, Asks
  <1>5. ASSUME NEW p \in Phone, p \notin gone
        PROVE  Subs(p) = (IF p \in stream THEN 1 ELSE 0) /\ Asks(p) = Cardinality(Asking(p))
    BY <1>2, <1>5 DEF CountOK, Subs, Asks
  <1>6. \A p \in Phone : IsFiniteSet(Asking(p))
    BY FS_Subset DEF Asking
  <1>7. CASE Nothing
    <2> SUFFICES ASSUME NEW p \in Phone, p \notin gone' PROVE CountOK(p)'
      BY DEF CountInv
    <2>1. CountOK(p) /\ Asking(p)' = Asking(p) /\ stream' = stream /\ phones' = phones
      BY <1>2, <1>7 DEF Nothing, SameAsking
    <2> QED
      BY <2>1 DEF CountOK, Touched, Known
  <1>8. CASE Reads
    <2> SUFFICES ASSUME NEW p \in Phone, p \notin gone' PROVE CountOK(p)'
      BY DEF CountInv
    <2>1. /\ CountOK(p) /\ Asking(p)' = Asking(p) /\ stream' = stream
          /\ Subs(p)' = Subs(p) /\ Asks(p)' = Asks(p)
      BY <1>2, <1>8 DEF Reads, SameAsking
    <2> QED
      BY <2>1 DEF CountOK, Subs, Asks
  <1>9. ASSUME NEW p \in Phone, Told(p) \/ Drives(p) PROVE CountInv'
    <2>1. SameFor(p) /\ Asking(p)' = Asking(p) /\ stream' = stream /\ gone' = gone
      BY <1>9 DEF Told, Drives, SameFor, SameAsking
    <2> QED
      BY <1>3, <1>5, <1>9, <2>1 DEF Told, Drives
  <1>10. ASSUME NEW p \in Phone, Streams(p) PROVE CountInv'
    <2>1. SameFor(p) /\ Asking(p)' = Asking(p) /\ gone' = gone
      BY <1>10 DEF Streams, SameFor, SameAsking
    <2>2. p \notin gone => Subs(p) + 1 = IF p \in stream' THEN 1 ELSE 0
      BY <1>5, <1>10 DEF Streams
    <2> QED
      BY <1>3, <1>5, <1>10, <2>1, <2>2 DEF Streams
  <1>11. ASSUME NEW p \in Phone, Ends(p) PROVE CountInv'
    <2>1. SameFor(p) /\ Asking(p)' = Asking(p) /\ gone' = gone
      BY <1>11 DEF Ends, SameFor, SameAsking
    <2>2. CASE /\ p \notin stream'
               /\ HoldDoes(p, IF p \in stream /\ Subs(p) > 0 THEN Subs(p) - 1 ELSE Subs(p), Asks(p), TRUE)
      <3>1. p \notin gone => (IF p \in stream /\ Subs(p) > 0 THEN Subs(p) - 1 ELSE Subs(p)) =
                              IF p \in stream' THEN 1 ELSE 0
        BY <1>5, <2>2
      <3> QED
        BY <1>3, <1>5, <2>1, <2>2, <3>1
    <2>3. CASE stream' = stream /\ HoldDoes(p, Subs(p), Asks(p), TRUE)
      BY <1>3, <1>5, <2>1, <2>3
    <2> QED
      BY <1>11, <2>2, <2>3 DEF Ends
  <1>12. ASSUME NEW p \in Phone, Forgotten(p) PROVE CountInv'
    BY <1>12, CountsGoOn DEF Forgotten
  <1>13. ASSUME NEW p \in Phone, NEW q \in Request, Begins(p, q) PROVE CountInv'
    <2>1. Cardinality(Asking(p)') = Cardinality(Asking(p)) + 1
      BY <1>6, <1>13, FS_AddElement DEF Begins
    <2> QED
      BY <1>3, <1>5, <1>13, <2>1 DEF Begins
  <1>14. ASSUME NEW p \in Phone, NEW q \in Request, Answered(p, q) PROVE CountInv'
    <2> DEFINE a == IF Asks(p) = 0 THEN 0 ELSE Asks(p) - 1
    <2>1. Cardinality(Asking(p)') = Cardinality(Asking(p)) - 1 /\ Cardinality(Asking(p)') \in Nat
      BY <1>6, <1>14, FS_RemoveElement, FS_CardinalityType DEF Answered
    <2>2. p \notin gone => a = Cardinality(Asking(p)')
      BY <1>4, <1>5, <2>1
    <2>3. /\ HoldDoes(p, Subs(p), a, TRUE)
          /\ stream' = stream /\ gone' = gone /\ SameFor(p)
      BY <1>14 DEF Answered
    <2> HIDE DEF a
    <2> QED
      BY <1>3, <1>5, <2>2, <2>3
  <1> QED
    BY <1>7, <1>8, <1>9, <1>10, <1>11, <1>12, <1>13, <1>14, HoldKinds DEF HoldKind

(* For any phones, any finite number of requests and any changes of the    *)
(* registry: the streams and the questions the voice hold counts of a      *)
(* phone are the ones there, however sessions end, streams are renewed and *)
(* answers come late (VoiceSurface, VoiceHold).                            *)
THEOREM CountsAreTrue ==
  ASSUME IsFiniteSet(Request)
  PROVE  Spec => []HoldCountsAreTrue
  <1>1. Init => CountInv
    <2> SUFFICES ASSUME Init, NEW p \in Phone PROVE CountOK(p)
      BY DEF CountInv
    <2>1. Touched(p) = NoActivity /\ stream = {}
      BY DEF Init, HoldInit, Touched, Known
    <2>2. Asking(p) = {}
      BY DEF Init, Asking
    <2> QED
      BY <2>1, <2>2, FS_EmptySet DEF CountOK, NoActivity
  <1>2. CountInv => HoldCountsAreTrue
    BY DEF CountInv, CountOK, HoldCountsAreTrue, Touched, Asking
  <1>3. TypeInv /\ CountInv /\ [Next]_vars => CountInv'
    BY CountStep
  <1> QED
    BY <1>1, <1>2, <1>3, TypeInvInit, TypeInvStep, PTL DEF Spec

(* Every step keeps the voice with the Mac, if the person spoke to it.     *)
LEMMA VoiceStep == TypeInv /\ VoiceInv /\ [Next]_vars => VoiceInv'
  <1> SUFFICES ASSUME TypeInv, VoiceInv, [Next]_vars, spoken' PROVE current' = None /\ Yielded'
    BY DEF VoiceInv
  <1>1. ASSUME spoken, Yielded => Yielded', current' = current \/ (Yielded' => current' = None)
        PROVE  current' = None /\ Yielded'
    BY <1>1 DEF VoiceInv
  <1>2. CASE Nothing
    BY <1>2 DEF Nothing, VoiceInv, Yielded, Known
  <1>3. CASE Reads
    BY <1>3 DEF Reads, VoiceInv
  <1>4. ASSUME NEW p \in Phone,
               Told(p) \/ Drives(p) \/ Streams(p) \/ Ends(p) \/ Forgotten(p)
        PROVE  current' = None /\ Yielded'
    BY <1>1, <1>4 DEF Told, Drives, Streams, Ends, Forgotten, HoldDoes
  <1>5. ASSUME NEW p \in Phone, NEW q \in Request, Begins(p, q) \/ Answered(p, q)
        PROVE  current' = None /\ Yielded'
    BY <1>1, <1>5 DEF Begins, Answered, HoldDoes
  <1> QED
    BY <1>2, <1>3, <1>4, <1>5, HoldKinds DEF HoldKind

(* For any phones, requests and changes: once the person spoke to the Mac, *)
(* no renewal of a stream, late answer, passing grace, drive that ends or  *)
(* timer takes the voice from it, until a phone is used (voiceHolder).     *)
THEOREM MacKeepsIt == Spec => []MacKeepsTheVoice
  <1>1. Init => VoiceInv
    BY DEF Init, VoiceInv
  <1>2. VoiceInv => MacKeepsTheVoice
    BY DEF VoiceInv, MacKeepsTheVoice
  <1> QED
    BY <1>1, <1>2, TypeInvInit, TypeInvStep, VoiceStep, PTL DEF Spec
=============================================================================
