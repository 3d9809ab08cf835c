----------------------------- MODULE SyncProofs -----------------------------
(***************************************************************************)
(* For any number of passes, enrolments, events and histories: no event is *)
(* skipped, none goes twice without a cause, none from before an enrolment *)
(* arrives, and a bundle is applied whole.                                 *)
(*                                                                         *)
(* Every step is first shown to be of one of the kinds below, which say    *)
(* all the invariants need of it, and CoreInv (types, whose account a copy *)
(* is, times, ids, what a batch and a copy of the cursor hold) is shown to *)
(* be kept.  Each property then has an invariant of its own over CoreInv:  *)
(* WholeInv (the files are as far as the pull that is alone in them),      *)
(* GotInv (what arrived is of an event after the enrolment), SkipInv (no   *)
(* copy of the cursor, and no merge under way, is past an unsent event)    *)
(* and OnceInv (what arrived is behind the cursor or with the one pass     *)
(* under way).                                                             *)
(***************************************************************************)
EXTENDS Sync, FiniteSetTheorems, SequenceTheorems, WellFoundedInduction, TLAPS

EventRecord == [id : Nat, at : Nat, owner : Nat]
CursorRecord == [through : Nat, sent : SUBSET EventRecord, report : Nat]
Place == {"idle", "hash", "ask", "touch", "touched", "truncate", "stage", "load", "move", "list",
          "keep", "cursor", "query", "post", "merge", "merged", "report", "chunk", "remerge",
          "remerged", "beat", "beating", "account", "config", "mark", "marked"}
PassRecord == [at : Place, acct : AccountFile \cup {None}, started : CursorRecord,
               batch : SUBSET EventRecord, version : Nat, chunk : Nat, merged : CursorRecord,
               heard : BundleRecord \cup {None}, mode : Mode \cup {None},
               running : Mode \cup {None}]
FilesRecord == [staging : BundleRecord \cup {None}, rules : BundleRecord \cup {None},
                listed : BOOLEAN, conditions : BundleRecord \cup {None}]

(* The types of what is kept, in parts. *)
PassType == pass \in [Pass -> PassRecord]
FilesType == files \in FilesRecord
AccountType ==
    account \in AccountFile \cup {None} /\ config \in Mode \cup {None} /\ told \in Mode
CursorType == cursor \in CursorRecord /\ report \in Nat
EventType ==
    /\ now \in Nat \ {0}
    /\ stamped \subseteq EventRecord /\ ledger \subseteq EventRecord
    /\ IsFiniteSet(stamped \cup ledger)
EnrolType ==
    /\ enrolled \in Seq(Nat) /\ published \in Seq(Nat)
    /\ Len(enrolled) = Len(published) /\ Len(enrolled) > 0

(* Whose account a copy is: one of the enrolments, with its own time. *)
Ours(a) == a.n \in 1 .. Len(enrolled) /\ a.enrolledAt = enrolled[a.n]

AccountInv ==
    /\ account # None => Ours(account)
    /\ \A p \in Pass : pass[p].at # "idle" => pass[p].acct # None /\ Ours(pass[p].acct)

BaseInv ==
    /\ PassType /\ FilesType /\ AccountType /\ CursorType /\ EventType /\ EnrolType
    /\ AccountInv

----------------------------------------------------------------------------
(* What a step does to its pass.                                           *)

(* Pass p is now r, and the others are as they were. *)
Becomes(p, r) ==
    /\ pass' \in [Pass -> PassRecord]
    /\ pass'[p] = r
    /\ \A q \in Pass \ {p} : pass'[q] = pass[q]

(* Writing one pass.                                                       *)
LEMMA PassWritten ==
  ASSUME PassType, NEW p \in Pass, NEW r \in PassRecord, pass' = [pass EXCEPT ![p] = r]
  PROVE  Becomes(p, r)
  BY DEF PassType, Becomes

(* A pass that goes on elsewhere, with all it holds.                       *)
GoesOn(p, to, heard) ==
    /\ pass' \in [Pass -> PassRecord]
    /\ \A q \in Pass \ {p} : pass'[q] = pass[q]
    /\ pass'[p].at = to /\ pass'[p].heard = heard
    /\ pass'[p].acct = pass[p].acct /\ pass'[p].started = pass[p].started
    /\ pass'[p].batch = pass[p].batch /\ pass'[p].version = pass[p].version
    /\ pass'[p].chunk = pass[p].chunk /\ pass'[p].merged = pass[p].merged

(* The ways a pass is written that leave what it holds.                    *)
LEMMA PassGoes ==
  ASSUME PassType, NEW p \in Pass, NEW to \in Place, NEW heard \in BundleRecord \cup {None},
         NEW m \in Mode \cup {None}
  PROVE  /\ pass' = [pass EXCEPT ![p].at = to] => GoesOn(p, to, pass[p].heard)
         /\ pass' = [pass EXCEPT ![p].at = to, ![p].heard = heard] => GoesOn(p, to, heard)
         /\ pass' = [pass EXCEPT ![p].at = to, ![p].mode = m] => GoesOn(p, to, pass[p].heard)
         /\ pass' = [pass EXCEPT ![p].at = to, ![p].running = m] => GoesOn(p, to, pass[p].heard)
  <1>1. pass[p] \in PassRecord
    BY DEF PassType
  <1>2. ASSUME NEW r \in PassRecord, pass' = [pass EXCEPT ![p] = r],
               r.at = to, r.acct = pass[p].acct, r.started = pass[p].started,
               r.batch = pass[p].batch, r.version = pass[p].version, r.chunk = pass[p].chunk,
               r.merged = pass[p].merged
        PROVE  GoesOn(p, to, r.heard)
    BY <1>2, PassWritten DEF Becomes, GoesOn
  <1>3. ASSUME pass' = [pass EXCEPT ![p].at = to] PROVE GoesOn(p, to, pass[p].heard)
    <2> DEFINE r == [pass[p] EXCEPT !.at = to]
    <2>1. pass' = [pass EXCEPT ![p] = r]
      BY <1>3
    <2>2. /\ r \in PassRecord
          /\ r.at = to /\ r.acct = pass[p].acct /\ r.started = pass[p].started
          /\ r.batch = pass[p].batch /\ r.version = pass[p].version /\ r.chunk = pass[p].chunk
          /\ r.merged = pass[p].merged /\ r.heard = pass[p].heard
      BY <1>1 DEF PassRecord
    <2> HIDE DEF r
    <2> QED
      BY <1>2, <2>1, <2>2
  <1>4. ASSUME pass' = [pass EXCEPT ![p].at = to, ![p].heard = heard]
        PROVE  GoesOn(p, to, heard)
    <2> DEFINE r == [pass[p] EXCEPT !.at = to, !.heard = heard]
    <2>1. pass' = [pass EXCEPT ![p] = r]
      BY <1>4
    <2>2. /\ r \in PassRecord
          /\ r.at = to /\ r.acct = pass[p].acct /\ r.started = pass[p].started
          /\ r.batch = pass[p].batch /\ r.version = pass[p].version /\ r.chunk = pass[p].chunk
          /\ r.merged = pass[p].merged /\ r.heard = heard
      BY <1>1 DEF PassRecord
    <2> HIDE DEF r
    <2> QED
      BY <1>2, <2>1, <2>2
  <1>5. ASSUME pass' = [pass EXCEPT ![p].at = to, ![p].mode = m]
        PROVE  GoesOn(p, to, pass[p].heard)
    <2> DEFINE r == [pass[p] EXCEPT !.at = to, !.mode = m]
    <2>1. pass' = [pass EXCEPT ![p] = r]
      BY <1>5
    <2>2. /\ r \in PassRecord
          /\ r.at = to /\ r.acct = pass[p].acct /\ r.started = pass[p].started
          /\ r.batch = pass[p].batch /\ r.version = pass[p].version /\ r.chunk = pass[p].chunk
          /\ r.merged = pass[p].merged /\ r.heard = pass[p].heard
      BY <1>1 DEF PassRecord
    <2> HIDE DEF r
    <2> QED
      BY <1>2, <2>1, <2>2
  <1>6. ASSUME pass' = [pass EXCEPT ![p].at = to, ![p].running = m]
        PROVE  GoesOn(p, to, pass[p].heard)
    <2> DEFINE r == [pass[p] EXCEPT !.at = to, !.running = m]
    <2>1. pass' = [pass EXCEPT ![p] = r]
      BY <1>6
    <2>2. /\ r \in PassRecord
          /\ r.at = to /\ r.acct = pass[p].acct /\ r.started = pass[p].started
          /\ r.batch = pass[p].batch /\ r.version = pass[p].version /\ r.chunk = pass[p].chunk
          /\ r.merged = pass[p].merged /\ r.heard = pass[p].heard
      BY <1>1 DEF PassRecord
    <2> HIDE DEF r
    <2> QED
      BY <1>2, <2>1, <2>2
  <1> QED
    BY <1>3, <1>4, <1>5, <1>6

(* An idle pass holds nothing.                                             *)
LEMMA IdleIs ==
  /\ Idle \in PassRecord /\ NoCursor \in CursorRecord
  /\ Idle.at = "idle" /\ Idle.acct = None /\ Idle.started = NoCursor /\ Idle.batch = {}
  /\ Idle.version = 0 /\ Idle.chunk = 0 /\ Idle.merged = NoCursor /\ Idle.heard = None
  /\ Idle.mode = None /\ Idle.running = None
  /\ NoCursor.through = 0 /\ NoCursor.sent = {} /\ NoCursor.report = 0
  BY DEF Idle, NoCursor, PassRecord, CursorRecord, Place

----------------------------------------------------------------------------
(* The kinds of step a pass takes, as the cursor and the ledger see them.  *)

Sending == {"query", "post", "merge", "merged", "chunk", "remerge", "remerged"}
Merging == {"merge", "merged", "remerge", "remerged"}
Busy == {"touch", "touched", "truncate", "stage", "load", "move", "list", "keep"}

EventRows(p) == {EventRow(pass[p].acct.n, e.id) : e \in pass[p].batch}
ReportRows(p) == {ReportRow(pass[p].acct.n, pass[p].version, pass[p].chunk)}

(* What no step of a pass changes; what is only added to.                  *)
Still == /\ UNCHANGED <<now, stamped, ledger, report, published, enrolled, refused, told>>
         /\ marred \subseteq marred'

SameButFor(p) == pass' \in [Pass -> PassRecord] /\ \A q \in Pass \ {p} : pass'[q] = pass[q]

(* The account stays, or is written from the pass's own copy.              *)
AccountGoes(p) ==
    \/ account' = account
    \/ /\ pass[p].at # "idle"
       /\ account' \in AccountFile
       /\ account'.n = pass[p].acct.n /\ account'.enrolledAt = pass[p].acct.enrolledAt
       /\ Revives(pass[p].acct) => "revived" \in marred'

(* It goes on to a place where nothing of the ledger is in its hands.      *)
Walks(p) ==
    /\ \E to \in Place : \E heard :
          /\ GoesOn(p, to, heard) /\ to \notin Sending \cup {"idle"}
          /\ to \in Busy => pass[p].at \in Busy \cup {"ask"}
    /\ pass[p].at \notin Merging \cup {"idle"}
    /\ pass[p].at = "chunk" => pass[p].acct.n \in refused
    /\ UNCHANGED <<cursor, got, again>> /\ AccountGoes(p)

(* It ends, perhaps with a post lost on its way.                           *)
Stops(p) ==
    /\ Becomes(p, Idle)
    /\ pass[p].at \in (Sending \ {"query"}) \cup {"idle"} => "fault" \in marred'
    /\ UNCHANGED <<cursor, again>> /\ AccountGoes(p)
    /\ \/ got' = got
       \/ pass[p].at = "post" /\ got' = got \cup EventRows(p)
       \/ pass[p].at = "chunk" /\ got' = got \cup ReportRows(p)

Begins(p) ==
    /\ SameButFor(p)
    /\ pass[p].at = "idle" /\ account # None
    /\ pass'[p].at \in {"hash", "cursor"} /\ pass'[p].acct = account
    /\ pass'[p].started = pass[p].started /\ pass'[p].batch = pass[p].batch
    /\ pass'[p].version = pass[p].version /\ pass'[p].chunk = pass[p].chunk
    /\ pass'[p].merged = pass[p].merged
    /\ (\E q \in Pass \ {p} : pass[q].at # "idle") => "overlap" \in marred'
    /\ UNCHANGED <<cursor, got, again, account>>

(* readCursor.                                                             *)
TakesCursor(p) ==
    /\ SameButFor(p)
    /\ pass[p].at = "cursor" /\ pass'[p].at = "query"
    /\ pass'[p].started = cursor
    /\ pass'[p].acct = pass[p].acct /\ pass'[p].batch = pass[p].batch
    /\ pass'[p].version = pass[p].version /\ pass'[p].chunk = pass[p].chunk
    /\ pass'[p].merged = pass[p].merged
    /\ UNCHANGED <<cursor, got, again, account>>

(* Nothing to send, or a post refused.                                     *)
Clears(p) ==
    /\ SameButFor(p)
    /\ pass[p].at \in {"query", "post"} /\ pass'[p].at = "report"
    /\ pass'[p].started = NoCursor /\ pass'[p].batch \in {pass[p].batch, {}}
    /\ pass'[p].acct = pass[p].acct
    /\ pass'[p].version = pass[p].version /\ pass'[p].chunk = pass[p].chunk
    /\ pass'[p].merged = pass[p].merged
    /\ UNCHANGED <<cursor, got, again, account>>

FromOf(p) == pushFrom(pass[p].started.through, pass[p].acct.enrolledAt)
FreshOf(p) == query(ledger, FromOf(p)) \ pass[p].started.sent

Chooses(p) ==
    /\ SameButFor(p)
    /\ pass[p].at = "query" /\ pass'[p].at = "post"
    /\ pass'[p].batch = fitting(FreshOf(p))
    /\ pass'[p].started = pass[p].started /\ pass'[p].acct = pass[p].acct
    /\ pass'[p].version = pass[p].version /\ pass'[p].chunk = pass[p].chunk
    /\ pass'[p].merged = pass[p].merged
    /\ Cardinality(Since(ledger, FromOf(p))) > MAX_POST => "overfull" \in marred'
    /\ (\E e \in fitting(FreshOf(p)) : e.owner > pass[p].acct.n) => "strayed" \in marred'
    /\ UNCHANGED <<cursor, got, again, account>>

Lands(p) ==
    /\ GoesOn(p, "merge", pass[p].heard)
    /\ pass[p].at = "post"
    /\ got' = got \cup EventRows(p)
    /\ again' = (again \/ EventRows(p) \cap got # {})
    /\ UNCHANGED <<cursor, account>>

(* mergeCursor's read.                                                     *)
Rereads(p) ==
    /\ SameButFor(p)
    /\ \/ pass[p].at = "merge" /\ pass'[p].at = "merged"
       \/ pass[p].at = "remerge" /\ pass'[p].at = "remerged"
    /\ pass'[p].merged = cursor
    /\ pass'[p].acct = pass[p].acct /\ pass'[p].started = pass[p].started
    /\ pass'[p].batch = pass[p].batch /\ pass'[p].version = pass[p].version
    /\ pass'[p].chunk = pass[p].chunk
    /\ UNCHANGED <<cursor, got, again, account>>

(* Nothing in hand but the account.                                        *)
Bare(p, to) ==
    /\ SameButFor(p)
    /\ pass'[p].at = to
    /\ pass'[p].started = NoCursor /\ pass'[p].batch = {} /\ pass'[p].version = 0
    /\ pass'[p].chunk = 0 /\ pass'[p].merged = NoCursor

(* mergeCursor's write, of a post's patch.                                 *)
Merges(p) ==
    /\ Bare(p, "report") /\ pass'[p].acct = pass[p].acct
    /\ pass[p].at = "merged"
    /\ cursor' \in CursorRecord
    /\ cursor'.through = sentThrough(pass[p].started, pass[p].batch)
    /\ cursor'.sent = stillOverlapping(pass[p].started.sent \cup pass[p].batch, cursor'.through)
    /\ cursor'.report = pass[p].merged.report
    /\ cursor'.through < cursor.through => "rewound" \in marred'
    /\ UNCHANGED <<got, again, account>>

Reports(p) ==
    /\ SameButFor(p)
    /\ pass[p].at = "report" /\ pass'[p].at = "chunk"
    /\ pass'[p].version = report /\ pass'[p].chunk = 1
    /\ cursor.report # report
    /\ pass'[p].acct = pass[p].acct /\ pass'[p].started = pass[p].started
    /\ pass'[p].batch = pass[p].batch /\ pass'[p].merged = pass[p].merged
    /\ UNCHANGED <<cursor, got, again, account>>

(* A part of a report lands; the last one is then merged.                  *)
PartLands(p) ==
    /\ SameButFor(p)
    /\ pass[p].at = "chunk" /\ pass[p].acct.n \notin refused
    /\ \/ pass'[p].at = "chunk" /\ pass[p].chunk < Chunks /\ pass'[p].chunk = pass[p].chunk + 1
       \/ pass'[p].at = "remerge" /\ pass'[p].chunk = pass[p].chunk
    /\ pass'[p].acct = pass[p].acct /\ pass'[p].started = pass[p].started
    /\ pass'[p].batch = pass[p].batch /\ pass'[p].merged = pass[p].merged
    /\ pass'[p].version = pass[p].version
    /\ got' = got \cup ReportRows(p)
    /\ again' = (again \/ ReportRows(p) \cap got # {})
    /\ UNCHANGED <<cursor, account>>

GivesUp(p) ==
    /\ SameButFor(p)
    /\ pass[p].at = "chunk" /\ pass'[p].at = "beat" /\ "fault" \in marred'
    /\ pass'[p].acct = pass[p].acct /\ pass'[p].started = pass[p].started
    /\ pass'[p].batch = pass[p].batch /\ pass'[p].merged = pass[p].merged
    /\ UNCHANGED <<cursor, got, again, account>>

(* mergeCursor's write, of a report's.                                     *)
Reported(p) ==
    /\ Bare(p, "beat") /\ pass'[p].acct = pass[p].acct
    /\ pass[p].at = "remerged"
    /\ cursor' \in CursorRecord
    /\ cursor'.through = pass[p].merged.through /\ cursor'.sent = pass[p].merged.sent
    /\ cursor'.report = pass[p].version
    /\ UNCHANGED <<got, again, account>>

(* markRevoked's read.                                                     *)
Marking(p) ==
    /\ Bare(p, "marked") /\ pass'[p].acct = account
    /\ pass[p].at = "mark" /\ account # None
    /\ UNCHANGED <<cursor, got, again, account>>

PassKind(p) ==
    \/ Walks(p) \/ Stops(p) \/ Begins(p) \/ TakesCursor(p) \/ Clears(p) \/ Chooses(p)
    \/ Lands(p) \/ Rereads(p) \/ Merges(p) \/ Reports(p) \/ PartLands(p) \/ GivesUp(p)
    \/ Reported(p) \/ Marking(p)

(* A step of the pull.                                                     *)
LEMMA PullKinds ==
  ASSUME BaseInv, NEW p \in Pass, PullStep(p)
  PROVE  (Walks(p) \/ Stops(p)) /\ Still /\ FilesType'
  <1>1. PassType /\ FilesType /\ pass[p] \in PassRecord
    BY DEF BaseInv, PassType
  <1>2. /\ pass[p].heard \in BundleRecord \cup {None}
        /\ files.staging \in BundleRecord \cup {None} /\ files.rules \in BundleRecord \cup {None}
        /\ files.listed \in BOOLEAN /\ files.conditions \in BundleRecord \cup {None}
    BY <1>1 DEF PassRecord, FilesType, FilesRecord
  <1>3. {"ask", "touch", "touched", "truncate", "stage", "load", "move", "list", "keep", "cursor",
         "mark"} \subseteq Place
    BY DEF Place
  <1>g. ASSUME NEW to \in {"ask", "touch", "touched", "truncate", "stage", "load", "move", "list",
                           "keep", "cursor", "mark"}, NEW heard, GoesOn(p, to, heard),
               pass[p].at \in {"hash", "ask", "touch", "touched", "truncate", "stage", "load",
                               "move", "list", "keep"},
               pass[p].at = "hash" => to = "ask",
               UNCHANGED <<cursor, got, again, account>>
        PROVE  Walks(p)
    BY <1>3, <1>g DEF Walks, Busy, Sending, Merging, AccountGoes
  <1>e. ASSUME pass' = [pass EXCEPT ![p] = Idle],
               pass[p].at \in {"ask", "move"}, UNCHANGED <<cursor, got, again, account>>
        PROVE  Stops(p)
    BY <1>1, <1>e, IdleIs, PassWritten DEF Stops, AccountGoes, Sending
  <1>f. ASSUME NEW from, NEW to, NEW written, FileStep(p, from, to, written),
               from \in {"touched", "truncate", "stage", "load", "move", "list", "keep"},
               to \in {"stage", "load", "move", "list", "keep", "cursor"},
               written \in FilesRecord
        PROVE  Walks(p) /\ Still /\ FilesType'
    <2>1. pass[p].at = from /\ pass' = [pass EXCEPT ![p].at = to] /\ files' = written
      BY <1>f DEF FileStep, At, Goes
    <2>2. GoesOn(p, to, pass[p].heard)
      BY <1>1, <1>2, <1>3, <1>f, <2>1, PassGoes
    <2>3. UNCHANGED <<now, stamped, ledger, report, cursor, account, cloud, history>>
      BY <1>f DEF FileStep
    <2> QED
      BY <1>f, <1>g, <2>1, <2>2, <2>3 DEF Still, FilesType, cloud, history
  <1>4. CASE ReadsHash(p)
    <2> DEFINE heard == IF files.rules = Half THEN None ELSE files.rules
    <2>1. heard \in BundleRecord \cup {None}
      BY <1>2
    <2>2. pass' = [pass EXCEPT ![p].at = "ask", ![p].heard = heard] /\ pass[p].at = "hash"
      BY <1>4 DEF ReadsHash, At
    <2>3. UNCHANGED <<local, cloud, history, now>>
      BY <1>4 DEF ReadsHash
    <2> HIDE DEF heard
    <2>4. GoesOn(p, "ask", heard)
      BY <1>1, <1>3, <2>1, <2>2, PassGoes
    <2> QED
      BY <1>1, <1>g, <2>2, <2>3, <2>4 DEF Still, local, cloud, history, FilesType
  <1>5. CASE pullBundle(p)
    <2> DEFINE bundle == Bundle(pass[p].acct.n, published[pass[p].acct.n])
    <2>1. pass[p].at = "ask" /\ UNCHANGED <<now, local, cloud, enrolled, again>> /\ marred \subseteq marred'
      BY <1>5 DEF pullBundle, At, Mar, Unreachable
    <2>2. bundle \in BundleRecord
      <3>1. pass[p].acct.n \in 1 .. Len(published) /\ published \in Seq(Nat)
        BY <2>1 DEF BaseInv, AccountInv, Ours, EnrolType
      <3>2. pass[p].acct.n \in Nat /\ published[pass[p].acct.n] \in Nat
        BY <3>1
      <3> QED
        BY <3>2 DEF Bundle, BundleRecord
    <2>3. \/ pass' = [pass EXCEPT ![p].at = "mark"]
          \/ pass' = [pass EXCEPT ![p].at = "touch"]
          \/ pass' = [pass EXCEPT ![p].at = "truncate", ![p].heard = bundle]
          \/ pass' = [pass EXCEPT ![p] = Idle]
          \/ pass' = [pass EXCEPT ![p].at = "cursor"]
      BY <1>5 DEF pullBundle, Goes, Ends, Unreachable
    <2> HIDE DEF bundle
    <2>4. Walks(p) \/ Stops(p)
      <3>1. \/ GoesOn(p, "mark", pass[p].heard) \/ GoesOn(p, "touch", pass[p].heard)
            \/ GoesOn(p, "truncate", bundle) \/ pass' = [pass EXCEPT ![p] = Idle]
            \/ GoesOn(p, "cursor", pass[p].heard)
        BY <1>1, <1>2, <1>3, <2>2, <2>3, PassGoes
      <3> QED
        BY <1>g, <1>e, <2>1, <3>1 DEF local, cloud
    <2> QED
      BY <1>1, <2>1, <2>4 DEF Still, local, cloud, FilesType
  <1>6. CASE TouchReads(p)
    <2>1. pass[p].at = "touch" /\ UNCHANGED <<local, cloud, history, now>>
      BY <1>6 DEF TouchReads, At
    <2>2. \/ pass' = [pass EXCEPT ![p].at = "cursor"]
          \/ pass' = [pass EXCEPT ![p].at = "touched", ![p].heard = files.conditions]
      BY <1>6 DEF TouchReads, Goes
    <2>3. GoesOn(p, "cursor", pass[p].heard) \/ GoesOn(p, "touched", files.conditions)
      BY <1>1, <1>2, <1>3, <2>2, PassGoes
    <2> QED
      BY <1>1, <1>g, <2>1, <2>3 DEF Still, local, cloud, history, FilesType
  <1>h. Half \in BundleRecord
    BY DEF Half, BundleRecord
  <1>7. CASE TouchWrites(p)
    <2>1. [files EXCEPT !.conditions = pass[p].heard] \in FilesRecord
      BY <1>1, <1>2 DEF FilesType, FilesRecord
    <2> QED
      BY <1>7, <1>f, <2>1 DEF TouchWrites
  <1>8. CASE Truncates(p)
    <2>1. [files EXCEPT !.staging = Half] \in FilesRecord
      BY <1>1, <1>2, <1>h DEF FilesType, FilesRecord
    <2> QED
      BY <1>8, <1>f, <2>1 DEF Truncates
  <1>9. CASE Stages(p)
    <2>1. [files EXCEPT !.staging = pass[p].heard] \in FilesRecord
      BY <1>1, <1>2 DEF FilesType, FilesRecord
    <2> QED
      BY <1>9, <1>f, <2>1 DEF Stages
  <1>10. CASE LoadsStaged(p)
    <2>1. [files EXCEPT !.staging = None] \in FilesRecord /\ files \in FilesRecord
      BY <1>1, <1>2 DEF FilesType, FilesRecord
    <2> QED
      BY <1>10, <1>f, <2>1 DEF LoadsStaged
  <1>11. CASE Moves(p)
    <2>1. [files EXCEPT !.rules = files.staging, !.staging = None] \in FilesRecord
      BY <1>1, <1>2 DEF FilesType, FilesRecord
    <2>2. CASE files.staging = None
      <3>1. pass[p].at = "move" /\ pass' = [pass EXCEPT ![p] = Idle]
            /\ UNCHANGED <<now, local, cloud, history>>
        BY <1>11, <2>2 DEF Moves, At, Ends
      <3> QED
        BY <1>1, <1>e, <3>1 DEF Still, local, cloud, history, FilesType
    <2>3. CASE files.staging # None
      BY <1>11, <1>f, <2>1, <2>3 DEF Moves
    <2> QED
      BY <2>2, <2>3
  <1>12. CASE Lists(p)
    <2>1. [files EXCEPT !.listed = TRUE] \in FilesRecord
      BY <1>1, <1>2 DEF FilesType, FilesRecord
    <2> QED
      BY <1>12, <1>f, <2>1 DEF Lists
  <1>13. CASE KeepsConditions(p)
    <2>1. [files EXCEPT !.conditions = pass[p].heard] \in FilesRecord
      BY <1>1, <1>2 DEF FilesType, FilesRecord
    <2> QED
      BY <1>13, <1>f, <2>1 DEF KeepsConditions
  <1> QED
    BY <1>4, <1>5, <1>6, <1>7, <1>8, <1>9, <1>10, <1>11, <1>12, <1>13 DEF PullStep

(* Where a copy of the cursor goes, it is one.                             *)
LEMMA PatchIs ==
  ASSUME NEW started \in CursorRecord, NEW batch \in SUBSET EventRecord,
         NEW bound \in Nat, \A e \in batch : e.at <= bound
  PROVE  /\ sentThrough(started, batch) \in Nat
         /\ batch # {} => /\ \E e \in batch : e.at = sentThrough(started, batch)
                          /\ \A e \in batch : e.at <= sentThrough(started, batch)
                          /\ sentThrough(started, batch) <= bound
         /\ batch = {} => sentThrough(started, batch) = started.through
  <1>1. started.through \in Nat
    BY DEF CursorRecord
  <1>2. CASE batch = {}
    BY <1>1, <1>2 DEF sentThrough
  <1>3. CASE batch # {}
    <2> DEFINE times == {e.at : e \in batch}
               T == {bound - t : t \in times}
    <2>1. times \subseteq Nat /\ times # {} /\ \A t \in times : t <= bound
      BY <1>3 DEF EventRecord
    <2> HIDE DEF times
    <2>2. T \subseteq Nat /\ T # {}
      <3>1. ASSUME NEW t \in times PROVE bound - t \in Nat
        BY <2>1
      <3> QED
        BY <2>1, <3>1
    <2>3. PICK x \in T : \A y \in T : ~(<<y, x>> \in OpToRel(<, Nat))
      BY <2>2, NatLessThanWellFounded, WFMin
    <2>4. PICK last \in times : x = bound - last
      OBVIOUS
    <2>5. ASSUME NEW t \in times PROVE last >= t
      <3>1. bound - t \in T /\ bound - t \in Nat /\ x \in Nat
        BY <2>2
      <3>2. ~(bound - t < x)
        BY <2>3, <3>1 DEF OpToRel
      <3>3. t \in Nat /\ last \in Nat
        BY <2>1
      <3> QED
        BY <2>4, <3>2, <3>3
    <2>6. Max(times) \in times /\ \A t \in times : Max(times) >= t
      BY <2>5 DEF Max
    <2>7. sentThrough(started, batch) = Max(times)
      BY <1>3 DEF sentThrough, times
    <2>8. \A e \in batch : e.at \in times
      BY DEF times
    <2>9. \E e \in batch : e.at = Max(times)
      BY <2>6 DEF times
    <2>10. Max(times) \in Nat /\ Max(times) <= bound
      BY <2>1, <2>6
    <2>11. ASSUME NEW e \in batch PROVE e.at <= Max(times)
      <3>1. e.at \in times /\ Max(times) >= e.at
        BY <2>6, <2>8
      <3>2. e.at \in Nat
        BY <2>1, <3>1
      <3> QED
        BY <2>10, <3>1, <3>2
    <2> QED
      BY <1>3, <2>7, <2>9, <2>10, <2>11
  <1> QED
    BY <1>2, <1>3

All == stamped \cup ledger

(* Times run up to now. *)
TimeInv ==
    /\ \A e \in All : e.at \in 1 .. now
    /\ \A i \in 1 .. Len(enrolled) : enrolled[i] <= now

(* A batch is events of the ledger from the enrolment on. *)
BatchInv ==
    \A p \in Pass :
        /\ pass[p].batch \subseteq ledger
        /\ \A e \in pass[p].batch : e.at >= pass[p].acct.enrolledAt
        /\ pass[p].at = "idle" => pass[p].batch = {}

(* A copy of the cursor is not ahead of the clock or of the ledger. *)
Behind(c) == c.through <= now /\ c.sent \subseteq ledger
CopiesInv ==
    /\ Behind(cursor)
    /\ \A p \in Pass : Behind(pass[p].started) /\ Behind(pass[p].merged)

(* Events have ids of their own, and are of an enrolment that was in force. *)
IdInv ==
    /\ \A e, f \in All : e.id = f.id => e = f
    /\ \A e \in All : e.id <= Cardinality(All)
    /\ \A e \in All : e.owner > 0 => e.owner <= Len(enrolled) /\ e.at >= enrolled[e.owner]
    /\ \A e \in stamped : e.at + OVERLAP >= now

CoreInv == BaseInv /\ TimeInv /\ BatchInv /\ CopiesInv /\ IdInv

(* A step of the sends.                                                    *)
LEMMA SendKinds ==
  ASSUME BaseInv, BatchInv, TimeInv, NEW p \in Pass, SendStep(p)
  PROVE  PassKind(p) /\ Still /\ UNCHANGED <<files, account>>
  <1>1. PassType /\ CursorType /\ EventType /\ pass[p] \in PassRecord
    BY DEF BaseInv, PassType
  <1>2. /\ pass[p].heard \in BundleRecord \cup {None} /\ pass[p].started \in CursorRecord
        /\ pass[p].merged \in CursorRecord /\ pass[p].batch \in SUBSET EventRecord
        /\ pass[p].version \in Nat /\ pass[p].chunk \in Nat
        /\ pass[p].acct \in AccountFile \cup {None}
    BY <1>1 DEF PassRecord
  <1>3. {"query", "post", "merge", "merged", "report", "chunk", "remerge", "remerged", "beat",
         "mark"} \subseteq Place
    BY DEF Place
  <1>w. ASSUME NEW r \in PassRecord, pass' = [pass EXCEPT ![p] = r]
        PROVE  Becomes(p, r) /\ SameButFor(p) /\ pass'[p] = r
    BY <1>1, <1>w, PassWritten DEF Becomes, SameButFor
  <1>4. CASE ReadsCursor(p)
    <2> DEFINE r == [pass[p] EXCEPT !.at = "query", !.started = cursor, !.heard = None]
    <2>1. /\ pass[p].at = "cursor" /\ UNCHANGED <<now, local, cloud, history>>
          /\ pass' = [pass EXCEPT ![p] = r]
      BY <1>4 DEF ReadsCursor, At
    <2>2. /\ r \in PassRecord /\ r.at = "query" /\ r.started = cursor
          /\ r.acct = pass[p].acct /\ r.batch = pass[p].batch /\ r.version = pass[p].version
          /\ r.chunk = pass[p].chunk /\ r.merged = pass[p].merged
      BY <1>1, <1>3 DEF PassRecord, CursorType
    <2> HIDE DEF r
    <2>3. TakesCursor(p)
      BY <1>w, <2>1, <2>2 DEF TakesCursor, local, cloud, history
    <2> QED
      BY <2>1, <2>3 DEF PassKind, Still, local, cloud, history
  <1>5. CASE ReadsLedger(p)
    <2>1. /\ pass[p].at = "query" /\ UNCHANGED <<now, local, cloud, enrolled, again>>
          /\ marred \subseteq marred'
      BY <1>5 DEF ReadsLedger, At, Mar
    <2>2. CASE pass' = [pass EXCEPT ![p].at = "report", ![p].started = NoCursor]
      <3> DEFINE r == [pass[p] EXCEPT !.at = "report", !.started = NoCursor]
      <3>1. pass' = [pass EXCEPT ![p] = r]
        BY <2>2
      <3>2. /\ r \in PassRecord /\ r.at = "report" /\ r.started = NoCursor
            /\ r.acct = pass[p].acct /\ r.batch = pass[p].batch /\ r.version = pass[p].version
            /\ r.chunk = pass[p].chunk /\ r.merged = pass[p].merged
        BY <1>1, <1>3, IdleIs DEF PassRecord
      <3> HIDE DEF r
      <3>3. Clears(p)
        BY <1>w, <2>1, <3>1, <3>2 DEF Clears, local, cloud
      <3> QED
        BY <2>1, <3>3 DEF PassKind, Still, local, cloud
    <2>3. CASE pass' = [pass EXCEPT ![p].at = "post", ![p].batch = fitting(FreshOf(p))]
      <3> DEFINE batch == fitting(FreshOf(p))
                 r == [pass[p] EXCEPT !.at = "post", !.batch = batch]
      <3>1. pass' = [pass EXCEPT ![p] = r]
        BY <2>3
      <3>2. batch \in SUBSET EventRecord
        BY <1>1 DEF fitting, FreshOf, query, Since, EventType
      <3>3. /\ Cardinality(Since(ledger, FromOf(p))) > MAX_POST => "overfull" \in marred'
            /\ (\E e \in batch : e.owner > pass[p].acct.n) => "strayed" \in marred'
        BY <1>5 DEF ReadsLedger, Mar, FreshOf, FromOf
      <3> HIDE DEF batch
      <3>4. /\ r \in PassRecord /\ r.at = "post" /\ r.batch = batch
            /\ r.acct = pass[p].acct /\ r.started = pass[p].started /\ r.version = pass[p].version
            /\ r.chunk = pass[p].chunk /\ r.merged = pass[p].merged
        BY <1>1, <1>3, <3>2 DEF PassRecord
      <3> HIDE DEF r
      <3> USE DEF batch
      <3>5. Chooses(p)
        BY <1>w, <2>1, <3>1, <3>3, <3>4 DEF Chooses, local, cloud
      <3> QED
        BY <2>1, <3>5 DEF PassKind, Still, local, cloud
    <2> QED
      BY <1>5, <2>2, <2>3 DEF ReadsLedger, FreshOf, FromOf
  <1>i. ASSUME pass' = [pass EXCEPT ![p] = Idle], "fault" \in marred', UNCHANGED <<cursor, again, account>>,
               \/ got' = got
               \/ pass[p].at = "post" /\ got' = got \cup EventRows(p)
               \/ pass[p].at = "chunk" /\ got' = got \cup ReportRows(p)
        PROVE  Stops(p)
    BY <1>1, <1>i, IdleIs, PassWritten DEF Stops, AccountGoes
  <1>m. ASSUME pass' = [pass EXCEPT ![p].at = "mark"], pass[p].at \in {"post", "chunk"},
               pass[p].acct.n \in refused, UNCHANGED <<cursor, got, again, account>>
        PROVE  Walks(p)
    <2>1. GoesOn(p, "mark", pass[p].heard)
      BY <1>1, <1>2, <1>3, <1>m, PassGoes
    <2> QED
      BY <1>3, <1>m, <2>1 DEF Walks, Busy, Sending, Merging, AccountGoes
  <1>6. CASE Posts(p)
    <2>1. pass[p].at = "post" /\ UNCHANGED <<now, local, published, told, refused, enrolled>>
      BY <1>6 DEF Posts, At
    <2>2. marred \subseteq marred'
      BY <1>6 DEF Posts, postBatch, Mar, Unreachable
    <2>3. \/ /\ pass' = [pass EXCEPT ![p].at = "mark"] /\ UNCHANGED <<got, again>>
             /\ pass[p].acct.n \in refused
          \/ /\ pass' = [pass EXCEPT ![p].at = "merge"]
             /\ got' = got \cup EventRows(p) /\ again' = (again \/ EventRows(p) \cap got # {})
          \/ /\ pass' = [pass EXCEPT ![p] = Idle] /\ again' = again
             /\ got' \in {got, got \cup EventRows(p)}
             /\ "fault" \in marred'
          \/ /\ pass' = [pass EXCEPT ![p].at = "report", ![p].started = NoCursor, ![p].batch = {}]
             /\ UNCHANGED <<got, again>>
      BY <1>6 DEF Posts, postBatch, Goes, Ends, EventRows, Unreachable, Mar
    <2>4. CASE /\ pass' = [pass EXCEPT ![p].at = "mark"] /\ UNCHANGED <<got, again>>
               /\ pass[p].acct.n \in refused
      BY <1>m, <2>1, <2>2, <2>4 DEF PassKind, Still, local
    <2>5. CASE /\ pass' = [pass EXCEPT ![p].at = "merge"]
               /\ got' = got \cup EventRows(p) /\ again' = (again \/ EventRows(p) \cap got # {})
      <3>1. GoesOn(p, "merge", pass[p].heard)
        BY <1>1, <1>2, <1>3, <2>5, PassGoes
      <3>2. Lands(p)
        BY <2>1, <2>5, <3>1 DEF Lands, local
      <3> QED
        BY <2>1, <2>2, <3>2 DEF PassKind, Still, local
    <2>6. CASE /\ pass' = [pass EXCEPT ![p] = Idle] /\ again' = again
               /\ got' \in {got, got \cup EventRows(p)}
               /\ "fault" \in marred'
      <3>1. Stops(p)
        BY <1>i, <2>1, <2>6 DEF local
      <3> QED
        BY <2>1, <2>2, <3>1 DEF PassKind, Still, local
    <2>7. CASE /\ pass' = [pass EXCEPT ![p].at = "report", ![p].started = NoCursor, ![p].batch = {}]
               /\ UNCHANGED <<got, again>>
      <3> DEFINE r == [pass[p] EXCEPT !.at = "report", !.started = NoCursor, !.batch = {}]
      <3>1. pass' = [pass EXCEPT ![p] = r]
        BY <2>7
      <3>2. /\ r \in PassRecord /\ r.at = "report" /\ r.started = NoCursor
            /\ r.acct = pass[p].acct /\ r.batch = {} /\ r.version = pass[p].version
            /\ r.chunk = pass[p].chunk /\ r.merged = pass[p].merged
        BY <1>1, <1>3, IdleIs DEF PassRecord
      <3> HIDE DEF r
      <3>3. Clears(p)
        BY <1>w, <2>1, <2>7, <3>1, <3>2 DEF Clears, local
      <3> QED
        BY <2>1, <2>2, <3>3 DEF PassKind, Still, local
    <2>8. UNCHANGED <<files, account>>
      BY <2>1 DEF local
    <2> QED
      BY <2>3, <2>4, <2>5, <2>6, <2>7, <2>8
  <1>7. CASE MergeReads(p)
    <2> DEFINE to == IF pass[p].at = "merge" THEN "merged" ELSE "remerged"
               r == [pass[p] EXCEPT !.at = to, !.merged = cursor]
    <2>1. /\ pass[p].at \in {"merge", "remerge"} /\ UNCHANGED <<now, local, cloud, history>>
          /\ pass' = [pass EXCEPT ![p] = r]
      BY <1>7 DEF MergeReads
    <2>2. /\ to \in Place
          /\ (pass[p].at = "merge" /\ to = "merged") \/ (pass[p].at = "remerge" /\ to = "remerged")
      BY <1>3, <2>1
    <2> HIDE DEF to
    <2>3. /\ r \in PassRecord /\ r.at = to /\ r.started = pass[p].started
          /\ r.acct = pass[p].acct /\ r.batch = pass[p].batch /\ r.version = pass[p].version
          /\ r.chunk = pass[p].chunk /\ r.merged = cursor
      BY <1>1, <2>2 DEF PassRecord, CursorType
    <2> HIDE DEF r
    <2>4. Rereads(p)
      BY <1>w, <2>1, <2>2, <2>3 DEF Rereads, local, cloud, history
    <2> QED
      BY <2>1, <2>4 DEF PassKind, Still, local, cloud, history
  <1>b. ASSUME NEW to \in {"report", "beat"},
               pass' = [pass EXCEPT ![p] = [Idle EXCEPT !.at = to, !.acct = pass[p].acct]]
        PROVE  Bare(p, to) /\ pass'[p].acct = pass[p].acct
    <2> DEFINE r == [Idle EXCEPT !.at = to, !.acct = pass[p].acct]
    <2>1. /\ r \in PassRecord /\ r.at = to /\ r.acct = pass[p].acct /\ r.started = NoCursor
          /\ r.batch = {} /\ r.version = 0 /\ r.chunk = 0 /\ r.merged = NoCursor
      BY <1>2, <1>3, IdleIs DEF PassRecord
    <2> HIDE DEF r
    <2> QED
      BY <1>w, <1>b, <2>1 DEF Bare, r
  <1>8. CASE MergeWrites(p)
    <2> DEFINE t == sentThrough(pass[p].started, pass[p].batch)
               S == stillOverlapping(pass[p].started.sent \cup pass[p].batch, t)
    <2>1. /\ pass[p].at = "merged"
          /\ cursor' = [pass[p].merged EXCEPT !.through = t, !.sent = S]
          /\ pass' = [pass EXCEPT ![p] = [Idle EXCEPT !.at = "report", !.acct = pass[p].acct]]
          /\ UNCHANGED <<now, stamped, ledger, report, account, files, cloud, enrolled, again>>
          /\ marred \subseteq marred'
          /\ t < cursor.through => "rewound" \in marred'
      BY <1>8 DEF MergeWrites, pushPatch, At, Mar
    <2>2. \A e \in pass[p].batch : e.at <= now
      BY <1>1 DEF BatchInv, TimeInv, EventType, All
    <2>3. t \in Nat
      BY <1>1, <1>2, <2>2, PatchIs DEF EventType
    <2>4. S \in SUBSET EventRecord
      BY <1>2 DEF stillOverlapping, CursorRecord
    <2> HIDE DEF t, S
    <2>5. cursor' \in CursorRecord /\ cursor'.through = t /\ cursor'.sent = S
          /\ cursor'.report = pass[p].merged.report
      BY <1>2, <2>1, <2>3, <2>4 DEF CursorRecord
    <2>6. Bare(p, "report") /\ pass'[p].acct = pass[p].acct
      BY <1>b, <2>1
    <2>7. Merges(p)
      BY <2>1, <2>5, <2>6 DEF Merges, t, S, cloud
    <2> QED
      BY <2>1, <2>7 DEF PassKind, Still, cloud
  <1>9. CASE ReadsReport(p)
    <2>1. pass[p].at = "report" /\ UNCHANGED <<now, local, cloud, history>>
      BY <1>9 DEF ReadsReport, At
    <2>2. CASE pass' = [pass EXCEPT ![p].at = "beat"]
      <3>1. GoesOn(p, "beat", pass[p].heard)
        BY <1>1, <1>2, <1>3, <2>2, PassGoes
      <3>2. Walks(p)
        BY <1>3, <2>1, <3>1 DEF Walks, Busy, Sending, Merging, AccountGoes, local, cloud, history
      <3> QED
        BY <2>1, <3>2 DEF PassKind, Still, local, cloud, history
    <2>3. CASE /\ pass' = [pass EXCEPT ![p].at = "chunk", ![p].version = report, ![p].chunk = 1]
               /\ cursor.report # report
      <3> DEFINE r == [pass[p] EXCEPT !.at = "chunk", !.version = report, !.chunk = 1]
      <3>1. pass' = [pass EXCEPT ![p] = r]
        BY <2>3
      <3>2. /\ r \in PassRecord /\ r.at = "chunk" /\ r.started = pass[p].started
            /\ r.acct = pass[p].acct /\ r.batch = pass[p].batch /\ r.version = report
            /\ r.chunk = 1 /\ r.merged = pass[p].merged
        BY <1>1, <1>3 DEF PassRecord, CursorType
      <3> HIDE DEF r
      <3>3. Reports(p)
        BY <1>w, <2>1, <2>3, <3>1, <3>2 DEF Reports, local, cloud, history
      <3> QED
        BY <2>1, <3>3 DEF PassKind, Still, local, cloud, history
    <2> QED
      BY <1>9, <2>2, <2>3 DEF ReadsReport, Goes
  <1>10. CASE postChunked(p)
    <2>1. pass[p].at = "chunk" /\ UNCHANGED <<now, local, published, told, refused, enrolled>>
      BY <1>10 DEF postChunked, At
    <2>2. marred \subseteq marred'
      BY <1>10 DEF postChunked, postBatch, Mar, Unreachable
    <2> DEFINE land == /\ pass[p].acct.n \notin refused
                       /\ got' = got \cup ReportRows(p)
                       /\ again' = (again \/ ReportRows(p) \cap got # {})
               next == pass[p].chunk + 1
    <2>3. \/ /\ pass' = [pass EXCEPT ![p].at = "mark"] /\ UNCHANGED <<got, again>>
             /\ pass[p].acct.n \in refused
          \/ /\ land /\ pass[p].chunk < Chunks
             /\ pass' = [pass EXCEPT ![p].chunk = next]
          \/ /\ land /\ pass' = [pass EXCEPT ![p].at = "remerge"]
          \/ /\ pass' = [pass EXCEPT ![p] = Idle] /\ again' = again
             /\ got' \in {got, got \cup ReportRows(p)}
             /\ "fault" \in marred'
          \/ /\ pass' = [pass EXCEPT ![p].at = "beat", ![p].version = 0, ![p].chunk = 0]
             /\ UNCHANGED <<got, again>> /\ "fault" \in marred'
      BY <1>10 DEF postChunked, postBatch, Goes, Ends, ReportRows, Unreachable, Mar
    <2>n. next \in Nat /\ next = pass[p].chunk + 1
      BY <1>2
    <2> HIDE DEF next
    <2>4. CASE /\ pass' = [pass EXCEPT ![p].at = "mark"] /\ UNCHANGED <<got, again>>
               /\ pass[p].acct.n \in refused
      BY <1>m, <2>1, <2>2, <2>4 DEF PassKind, Still, local
    <2>5. CASE land /\ pass[p].chunk < Chunks /\ pass' = [pass EXCEPT ![p].chunk = next]
      <3> DEFINE r == [pass[p] EXCEPT !.chunk = next]
      <3>1. pass' = [pass EXCEPT ![p] = r]
        BY <2>5
      <3>2. /\ r \in PassRecord /\ r.at = pass[p].at /\ r.started = pass[p].started
            /\ r.acct = pass[p].acct /\ r.batch = pass[p].batch /\ r.version = pass[p].version
            /\ r.chunk = next /\ r.merged = pass[p].merged
        BY <1>1, <2>n DEF PassRecord
      <3> HIDE DEF r
      <3>3. PartLands(p)
        BY <1>w, <2>1, <2>5, <2>n, <3>1, <3>2 DEF PartLands, local
      <3> QED
        BY <2>1, <2>2, <3>3 DEF PassKind, Still, local
    <2>6. CASE land /\ pass' = [pass EXCEPT ![p].at = "remerge"]
      <3>1. GoesOn(p, "remerge", pass[p].heard)
        BY <1>1, <1>2, <1>3, <2>6, PassGoes
      <3>2. PartLands(p)
        BY <2>1, <2>6, <3>1 DEF PartLands, GoesOn, SameButFor, local
      <3> QED
        BY <2>1, <2>2, <3>2 DEF PassKind, Still, local
    <2>7. CASE /\ pass' = [pass EXCEPT ![p] = Idle] /\ again' = again
               /\ got' \in {got, got \cup ReportRows(p)}
               /\ "fault" \in marred'
      <3>1. Stops(p)
        BY <1>i, <2>1, <2>7 DEF local
      <3> QED
        BY <2>1, <2>2, <3>1 DEF PassKind, Still, local
    <2>8. CASE /\ pass' = [pass EXCEPT ![p].at = "beat", ![p].version = 0, ![p].chunk = 0]
               /\ UNCHANGED <<got, again>> /\ "fault" \in marred'
      <3> DEFINE r == [pass[p] EXCEPT !.at = "beat", !.version = 0, !.chunk = 0]
      <3>1. pass' = [pass EXCEPT ![p] = r]
        BY <2>8
      <3>2. /\ r \in PassRecord /\ r.at = "beat" /\ r.started = pass[p].started
            /\ r.acct = pass[p].acct /\ r.batch = pass[p].batch /\ r.merged = pass[p].merged
        BY <1>1, <1>3 DEF PassRecord
      <3> HIDE DEF r
      <3>3. GivesUp(p)
        BY <1>w, <2>1, <2>8, <3>1, <3>2 DEF GivesUp, local
      <3> QED
        BY <2>1, <2>2, <3>3 DEF PassKind, Still, local
    <2>9. UNCHANGED <<files, account>>
      BY <2>1 DEF local
    <2> QED
      BY <2>3, <2>4, <2>5, <2>6, <2>7, <2>8, <2>9
  <1>11. CASE ReportMerged(p)
    <2>1. /\ pass[p].at = "remerged"
          /\ cursor' = [pass[p].merged EXCEPT !.report = pass[p].version]
          /\ pass' = [pass EXCEPT ![p] = [Idle EXCEPT !.at = "beat", !.acct = pass[p].acct]]
          /\ UNCHANGED <<now, stamped, ledger, report, account, files, cloud, history>>
      BY <1>11 DEF ReportMerged, At
    <2>2. /\ cursor' \in CursorRecord /\ cursor'.report = pass[p].version
          /\ cursor'.through = pass[p].merged.through /\ cursor'.sent = pass[p].merged.sent
      BY <1>2, <2>1 DEF CursorRecord
    <2>3. Bare(p, "beat") /\ pass'[p].acct = pass[p].acct
      BY <1>b, <2>1
    <2>4. Reported(p)
      BY <2>1, <2>2, <2>3 DEF Reported, cloud, history
    <2> QED
      BY <2>1, <2>4 DEF PassKind, Still, cloud, history
  <1> QED
    BY <1>4, <1>5, <1>6, <1>7, <1>8, <1>9, <1>10, <1>11 DEF SendStep

(* A step of the beat, and of a revocation.                                *)
LEMMA BeatKinds ==
  ASSUME BaseInv, NEW p \in Pass, BeatStep(p)
  PROVE  /\ PassKind(p) /\ Still /\ files' = files
         /\ config' \in Mode \cup {None}
  <1>1. PassType /\ AccountType /\ pass[p] \in PassRecord
    BY DEF BaseInv, PassType
  <1>2. /\ pass[p].heard \in BundleRecord \cup {None} /\ pass[p].mode \in Mode \cup {None}
        /\ pass[p].acct \in AccountFile \cup {None}
        /\ account \in AccountFile \cup {None} /\ config \in Mode \cup {None} /\ told \in Mode
    BY <1>1 DEF PassRecord, AccountType
  <1>3. {"beating", "account", "config", "marked"} \subseteq Place
    BY DEF Place
  <1>4. pass[p].at # "idle" => pass[p].acct \in AccountFile
    BY <1>2 DEF BaseInv, AccountInv
  <1>e. ASSUME pass' = [pass EXCEPT ![p] = Idle],
               pass[p].at \in {"beating", "account", "config", "mark", "marked"},
               UNCHANGED <<cursor, got, again>>, AccountGoes(p)
        PROVE  Stops(p)
    BY <1>1, <1>e, IdleIs, PassWritten DEF Stops, Sending
  <1>g. ASSUME NEW to \in {"beating", "account", "config"}, GoesOn(p, to, pass[p].heard),
               pass[p].at \in {"beat", "beating", "account"},
               UNCHANGED <<cursor, got, again>>, AccountGoes(p)
        PROVE  Walks(p)
    BY <1>3, <1>g DEF Walks, Busy, Sending, Merging
  <1>5. CASE ReadsMode(p)
    <2>1. /\ pass[p].at = "beat" /\ UNCHANGED <<now, local, cloud, history>>
          /\ pass' = [pass EXCEPT ![p].at = "beating", ![p].running = config]
      BY <1>5 DEF ReadsMode, At
    <2>2. GoesOn(p, "beating", pass[p].heard)
      BY <1>1, <1>2, <1>3, <2>1, PassGoes
    <2>3. Walks(p)
      BY <1>g, <2>1, <2>2 DEF AccountGoes, local, cloud, history
    <2> QED
      BY <1>2, <2>1, <2>3 DEF PassKind, Still, local, cloud, history
  <1>6. CASE beats(p)
    <2>1. /\ pass[p].at = "beating" /\ UNCHANGED <<now, local, cloud, enrolled, again>>
          /\ marred \subseteq marred'
      BY <1>6 DEF beats, At, Unreachable, Mar
    <2>2. \/ pass' = [pass EXCEPT ![p] = Idle]
          \/ pass' = [pass EXCEPT ![p].at = "account", ![p].mode = told]
      BY <1>6 DEF beats, Ends, Unreachable
    <2>3. pass' = [pass EXCEPT ![p] = Idle] \/ GoesOn(p, "account", pass[p].heard)
      BY <1>1, <1>2, <1>3, <2>2, PassGoes
    <2>4. Walks(p) \/ Stops(p)
      BY <1>e, <1>g, <2>1, <2>3 DEF AccountGoes, local, cloud
    <2> QED
      BY <1>2, <2>1, <2>4 DEF PassKind, Still, local, cloud
  <1>7. CASE ModeToAccount(p)
    <2> DEFINE copy == [pass[p].acct EXCEPT !.mode = pass[p].mode]
    <2>1. /\ pass[p].at = "account" /\ account' = copy /\ marred \subseteq marred'
          /\ UNCHANGED <<now, stamped, ledger, report, cursor, config, files, cloud, enrolled, again>>
          /\ Revives(pass[p].acct) => "revived" \in marred'
      BY <1>7 DEF ModeToAccount, At, Mar
    <2>2. /\ copy \in AccountFile /\ copy.n = pass[p].acct.n
          /\ copy.enrolledAt = pass[p].acct.enrolledAt
      BY <1>2, <1>4, <2>1 DEF AccountFile
    <2> HIDE DEF copy
    <2>3. AccountGoes(p)
      BY <2>1, <2>2 DEF AccountGoes
    <2>4. pass' = [pass EXCEPT ![p] = Idle] \/ pass' = [pass EXCEPT ![p].at = "config"]
      BY <1>7 DEF ModeToAccount, Ends, Goes
    <2>5. pass' = [pass EXCEPT ![p] = Idle] \/ GoesOn(p, "config", pass[p].heard)
      BY <1>1, <1>2, <1>3, <2>4, PassGoes
    <2>6. Walks(p) \/ Stops(p)
      BY <1>e, <1>g, <2>1, <2>3, <2>5 DEF cloud
    <2> QED
      BY <1>2, <2>1, <2>6 DEF PassKind, Still, cloud
  <1>8. CASE ModeToConfig(p)
    <2>1. /\ pass[p].at = "config" /\ config' = pass[p].mode
          /\ pass' = [pass EXCEPT ![p] = Idle]
          /\ UNCHANGED <<now, stamped, ledger, report, cursor, account, files, cloud, enrolled, again, marred>>
      BY <1>8 DEF ModeToConfig, At, Ends
    <2>2. Stops(p)
      BY <1>e, <2>1 DEF AccountGoes, cloud
    <2> QED
      BY <1>2, <2>1, <2>2 DEF PassKind, Still, cloud
  <1>9. CASE MarkReads(p)
    <2>1. pass[p].at = "mark" /\ UNCHANGED <<now, local, cloud, history>>
      BY <1>9 DEF MarkReads, At
    <2>2. CASE pass' = [pass EXCEPT ![p] = Idle]
      <3>1. Stops(p)
        BY <1>e, <2>1, <2>2 DEF AccountGoes, local, cloud, history
      <3> QED
        BY <1>2, <2>1, <3>1 DEF PassKind, Still, local, cloud, history
    <2>3. CASE /\ account # None
               /\ pass' = [pass EXCEPT ![p] = [Idle EXCEPT !.at = "marked", !.acct = account]]
      <3> DEFINE r == [Idle EXCEPT !.at = "marked", !.acct = account]
      <3>1. /\ r \in PassRecord /\ r.at = "marked" /\ r.acct = account /\ r.started = NoCursor
            /\ r.batch = {} /\ r.version = 0 /\ r.chunk = 0 /\ r.merged = NoCursor
        BY <1>2, <1>3, IdleIs DEF PassRecord
      <3>2. pass' = [pass EXCEPT ![p] = r]
        BY <2>3
      <3> HIDE DEF r
      <3>3. Marking(p)
        BY <1>1, <2>1, <2>3, <3>1, <3>2, PassWritten
           DEF Becomes, Bare, SameButFor, Marking, local, cloud, history
      <3> QED
        BY <1>2, <2>1, <3>3 DEF PassKind, Still, local, cloud, history
    <2> QED
      BY <1>9, <2>2, <2>3 DEF MarkReads, Ends
  <1>10. CASE MarkWrites(p)
    <2> DEFINE copy == [pass[p].acct EXCEPT !.revoked = TRUE]
    <2>1. /\ pass[p].at = "marked" /\ account' = copy /\ marred \subseteq marred'
          /\ pass' = [pass EXCEPT ![p] = Idle]
          /\ UNCHANGED <<now, stamped, ledger, report, cursor, config, files, cloud, enrolled, again>>
          /\ Revives(pass[p].acct) => "revived" \in marred'
      BY <1>10 DEF MarkWrites, At, Mar, Ends
    <2>2. /\ copy \in AccountFile /\ copy.n = pass[p].acct.n
          /\ copy.enrolledAt = pass[p].acct.enrolledAt
      BY <1>2, <1>4, <2>1 DEF AccountFile
    <2> HIDE DEF copy
    <2>3. Stops(p)
      BY <1>e, <2>1, <2>2 DEF AccountGoes, cloud
    <2> QED
      BY <1>2, <2>1, <2>3 DEF PassKind, Still, cloud
  <1> QED
    BY <1>5, <1>6, <1>7, <1>8, <1>9, <1>10 DEF BeatStep

(* A pass begins, or its process goes.                                     *)
LEMMA EdgeKinds ==
  ASSUME BaseInv, NEW p \in Pass, Starts(p) \/ Dies(p)
  PROVE  PassKind(p) /\ Still /\ UNCHANGED <<files, config>>
  <1>1. PassType /\ AccountType /\ pass[p] \in PassRecord
    BY DEF BaseInv, PassType
  <1>2. account \in AccountFile \cup {None}
    BY <1>1 DEF AccountType
  <1>3. CASE Starts(p)
    <2>1. /\ pass[p].at = "idle" /\ account # None /\ marred \subseteq marred'
          /\ (\E q \in Pass \ {p} : pass[q].at # "idle") => "overlap" \in marred'
          /\ UNCHANGED <<now, local, cloud, enrolled, again>>
      BY <1>3 DEF Starts, At, Mar, Others
    <2>2. PICK to \in {"hash", "cursor"} :
            pass' = [pass EXCEPT ![p].at = to, ![p].acct = account]
      BY <1>3 DEF Starts
    <2> DEFINE r == [pass[p] EXCEPT !.at = to, !.acct = account]
    <2>3. pass' = [pass EXCEPT ![p] = r]
      BY <2>2
    <2>4. /\ r \in PassRecord /\ r.at = to /\ r.acct = account /\ r.started = pass[p].started
          /\ r.batch = pass[p].batch /\ r.version = pass[p].version /\ r.chunk = pass[p].chunk
          /\ r.merged = pass[p].merged
      BY <1>1, <1>2 DEF PassRecord, Place
    <2> HIDE DEF r
    <2>5. Begins(p)
      BY <1>1, <2>1, <2>2, <2>3, <2>4, PassWritten DEF Becomes, SameButFor, Begins, local, cloud
    <2> QED
      BY <2>1, <2>5 DEF PassKind, Still, local, cloud
  <1>4. CASE Dies(p)
    <2>1. /\ pass' = [pass EXCEPT ![p] = Idle] /\ "fault" \in marred' /\ marred \subseteq marred'
          /\ UNCHANGED <<now, local, cloud, enrolled, again>>
      BY <1>4 DEF Dies, Ends, Mar
    <2>2. Stops(p)
      BY <1>1, <2>1, IdleIs, PassWritten DEF Stops, AccountGoes, local, cloud
    <2> QED
      BY <2>1, <2>2 DEF PassKind, Still, local, cloud
  <1> QED
    BY <1>3, <1>4

----------------------------------------------------------------------------
(* The kinds of step around the passes.                                    *)

Apart == UNCHANGED <<cursor, files, pass, got, again, marred>>

Stamps ==
    /\ stamped' = stamped \cup {[id |-> Cardinality(stamped \cup ledger) + 1, at |-> now,
                                 owner |-> IF account = None THEN 0 ELSE account.n]}
    /\ UNCHANGED <<now, ledger, report, account, config, told, enrolled, published, refused>>

Appends(e) ==
    /\ stamped' = stamped \ {e} /\ ledger' = ledger \cup {e}
    /\ UNCHANGED <<now, report, account, config, told, enrolled, published, refused>>

Ticks ==
    /\ now' = now + 1 /\ \A e \in stamped : now' <= e.at + OVERLAP
    /\ UNCHANGED <<stamped, ledger, report, account, config, told, enrolled, published, refused>>

Enrols ==
    /\ account' = Enrolment(Len(enrolled) + 1, now)
    /\ enrolled' = Append(enrolled, now) /\ published' = Append(published, 1)
    /\ UNCHANGED <<now, stamped, ledger, report, config, told, refused>>

Leaves ==
    /\ account' = None
    /\ UNCHANGED <<now, stamped, ledger, report, config, told, enrolled, published, refused>>

(* Something the ledger and the accounts have no part in.                  *)
Elsewhere ==
    /\ report' \in {report, report + 1} /\ refused \subseteq refused'
    /\ config' \in Mode \cup {None} /\ told' \in Mode
    /\ published' \in Seq(Nat) /\ Len(published') = Len(published)
    /\ UNCHANGED <<now, stamped, ledger, account, enrolled>>

AroundKind ==
    \/ Stamps \/ Ticks \/ Enrols \/ Leaves \/ Elsewhere
    \/ \E e \in stamped : Appends(e)

(* A step around the passes is of one of these kinds.                     *)
LEMMA AroundKinds ==
  ASSUME BaseInv, Around
  PROVE  Apart /\ AroundKind
  <1>1. /\ config \in Mode \cup {None} /\ told \in Mode /\ published \in Seq(Nat)
    BY DEF BaseInv, AccountType, EnrolType
  <1>2. CASE Stamp
    BY <1>2 DEF Stamp, Apart, AroundKind, Stamps, cloud, history
  <1>3. CASE Tick
    BY <1>3 DEF Tick, Apart, AroundKind, Ticks, local, cloud, history
  <1>4. CASE ScanKept
    BY <1>1, <1>4 DEF ScanKept, Apart, AroundKind, Elsewhere, cloud, history
  <1>5. CASE Login
    BY <1>5 DEF Login, Apart, AroundKind, Enrols
  <1>6. CASE forgetAccount
    BY <1>6 DEF forgetAccount, Apart, AroundKind, Leaves, cloud, history
  <1>7. CASE LoopEnds
    BY <1>1, <1>7 DEF LoopEnds, Apart, AroundKind, Elsewhere, local, cloud, history
  <1>8. CASE \E e \in stamped : Append1(e)
    BY <1>8 DEF Append1, Apart, AroundKind, Appends, cloud, history
  <1>9. CASE \E m \in Mode : PersonSetsMode(m) \/ SetsMode(m)
    BY <1>1, <1>9 DEF PersonSetsMode, SetsMode, Apart, AroundKind, Elsewhere, local, cloud, history
  <1>10. CASE \E n \in DOMAIN published : Publishes(n) \/ Revokes(n)
    <2>1. PICK n \in DOMAIN published : Publishes(n) \/ Revokes(n)
      BY <1>10
    <2>2. CASE Publishes(n)
      <3> DEFINE m == published[n] + 1
      <3>1. published' = [published EXCEPT ![n] = m]
        BY <2>2 DEF Publishes
      <3>2. m \in Nat
        BY <1>1
      <3> HIDE DEF m
      <3>3. published' \in Seq(Nat) /\ Len(published') = Len(published)
        BY <1>1, <3>1, <3>2
      <3> QED
        BY <1>1, <2>2, <3>3 DEF Publishes, Apart, AroundKind, Elsewhere, local, cloud, history
    <2>3. CASE Revokes(n)
      BY <1>1, <2>3 DEF Revokes, Apart, AroundKind, Elsewhere, local, cloud, history
    <2> QED
      BY <2>1, <2>2, <2>3
  <1> QED
    BY <1>2, <1>3, <1>4, <1>5, <1>6, <1>7, <1>8, <1>9, <1>10 DEF Around

(* Only the beat and a person write the mode.                              *)
LEMMA ConfigStays ==
  ASSUME NEW p \in Pass, PullStep(p) \/ SendStep(p)
  PROVE  config' = config
  <1>1. CASE PullStep(p)
    BY <1>1 DEF PullStep, ReadsHash, pullBundle, TouchReads, TouchWrites, Truncates, Stages,
                LoadsStaged, Moves, Lists, KeepsConditions, FileStep, local
  <1>2. CASE SendStep(p)
    BY <1>2 DEF SendStep, ReadsCursor, ReadsLedger, Posts, MergeReads, MergeWrites, ReadsReport,
                postChunked, ReportMerged, local
  <1> QED
    BY <1>1, <1>2

(* A step of a pass is of one of the kinds.                                *)
LEMMA PassKinds ==
  ASSUME CoreInv, NEW p \in Pass, Starts(p) \/ PassStep(p) \/ Dies(p)
  PROVE  PassKind(p) /\ Still /\ FilesType' /\ config' \in Mode \cup {None}
  <1>1. /\ BaseInv /\ BatchInv /\ TimeInv /\ FilesType /\ config \in Mode \cup {None}
    BY DEF CoreInv, BaseInv, AccountType
  <1>2. CASE PullStep(p)
    BY <1>1, <1>2, PullKinds, ConfigStays DEF PassKind
  <1>3. CASE SendStep(p)
    BY <1>1, <1>3, SendKinds, ConfigStays DEF FilesType
  <1>4. CASE BeatStep(p)
    BY <1>1, <1>4, BeatKinds DEF FilesType
  <1>5. CASE Starts(p) \/ Dies(p)
    BY <1>1, <1>5, EdgeKinds DEF FilesType
  <1> QED
    BY <1>2, <1>3, <1>4, <1>5 DEF PassStep

(* Where a pass starts.                                                    *)
LEMMA FromIs ==
  ASSUME NEW t \in Nat, NEW a \in Nat
  PROVE  /\ pushFrom(t, a) \in Int /\ pushFrom(t, a) >= a /\ pushFrom(t, a) >= t - OVERLAP
         /\ pushFrom(t, a) = a \/ pushFrom(t, a) = t - OVERLAP
  <1>1. t - OVERLAP \in Int /\ OVERLAP \in Nat
    BY PushAssumption
  <1> DEFINE x == t - OVERLAP
             m == Max({x, a})
  <1>2. x \in Int
    BY <1>1
  <1> HIDE DEF x
  <1>3. \E y \in {x, a} : \A z \in {x, a} : y >= z
    BY <1>2
  <1>4. m \in {x, a} /\ \A z \in {x, a} : m >= z
    BY <1>3 DEF Max
  <1>5. m = pushFrom(t, a)
    BY DEF pushFrom, x
  <1> HIDE DEF m
  <1> QED
    BY <1>2, <1>4, <1>5 DEF x

(* What any kind of step leaves a pass with.                               *)
LEMMA KindHolds ==
  ASSUME CoreInv, NEW p \in Pass, PassKind(p), Still
  PROVE  /\ SameButFor(p) /\ cursor' \in CursorRecord /\ AccountGoes(p)
         /\ pass'[p].at # "idle" =>
              \/ pass[p].at # "idle" /\ pass'[p].acct = pass[p].acct
              \/ account # None /\ pass'[p].acct = account
  <1>1. cursor \in CursorRecord
    BY DEF CoreInv, BaseInv, CursorType
  <1>2. CASE Walks(p) \/ Stops(p)
    BY <1>1, <1>2, IdleIs DEF Walks, Stops, GoesOn, Becomes, SameButFor
  <1>3. CASE Begins(p) \/ TakesCursor(p) \/ Clears(p) \/ Chooses(p) \/ Lands(p) \/ Rereads(p)
    BY <1>1, <1>3
       DEF Begins, TakesCursor, Clears, Chooses, Lands, GoesOn, Rereads, AccountGoes, SameButFor
  <1>4. CASE Merges(p) \/ Reports(p) \/ PartLands(p) \/ GivesUp(p) \/ Reported(p) \/ Marking(p)
    BY <1>1, <1>4
       DEF Merges, Reports, PartLands, GivesUp, Reported, Marking, Bare, AccountGoes, SameButFor
  <1> QED
    BY <1>2, <1>3, <1>4 DEF PassKind

(* What a pass step leaves of the types and of whose account is whose.     *)
LEMMA PassBase ==
  ASSUME CoreInv, NEW p \in Pass, PassKind(p), Still, FilesType', config' \in Mode \cup {None}
  PROVE  BaseInv'
  <1>1. /\ PassType /\ AccountType /\ CursorType /\ EventType /\ EnrolType /\ AccountInv
    BY DEF CoreInv, BaseInv
  <1>2. /\ SameButFor(p) /\ cursor' \in CursorRecord /\ AccountGoes(p)
        /\ pass'[p].at # "idle" =>
             \/ pass[p].at # "idle" /\ pass'[p].acct = pass[p].acct
             \/ account # None /\ pass'[p].acct = account
    BY KindHolds
  <1>3. PassType' /\ CursorType' /\ EventType' /\ EnrolType'
    BY <1>1, <1>2 DEF Still, SameButFor, PassType, CursorType, EventType, EnrolType
  <1>4. AccountType'
    BY <1>1, <1>2 DEF Still, AccountType, AccountGoes
  <1>5. AccountInv'
    <2>1. account' # None => Ours(account)' 
      BY <1>1, <1>2 DEF Still, AccountGoes, AccountInv, Ours
    <2>2. ASSUME NEW q \in Pass, pass'[q].at # "idle"
          PROVE  pass'[q].acct # None /\ Ours(pass[q].acct)'
      BY <1>1, <1>2, <2>2 DEF Still, SameButFor, AccountInv, Ours
    <2> QED
      BY <2>1, <2>2 DEF AccountInv
  <1> QED
    BY <1>3, <1>4, <1>5 DEF BaseInv

(* And of what it has in its hands.                                        *)
LEMMA PassCopies ==
  ASSUME CoreInv, NEW p \in Pass, PassKind(p), Still
  PROVE  BatchInv' /\ CopiesInv' /\ TimeInv' /\ IdInv'
  <1>1. /\ PassType /\ EventType /\ TimeInv /\ BatchInv /\ CopiesInv /\ IdInv /\ AccountInv
        /\ CursorType
    BY DEF CoreInv, BaseInv
  <1>2. TimeInv' /\ IdInv'
    BY <1>1 DEF Still, TimeInv, IdInv, All
  <1>3. SameButFor(p)
    BY KindHolds
  <1>4. pass[p] \in PassRecord
    BY <1>1 DEF PassType
  <1>5. /\ pass[p].started \in CursorRecord /\ pass[p].merged \in CursorRecord
        /\ pass[p].batch \in SUBSET EventRecord /\ pass[p].acct \in AccountFile \cup {None}
    BY <1>4 DEF PassRecord
  <1>6. BatchInv'
    <2>1. /\ pass'[p].batch \subseteq ledger
          /\ \A e \in pass'[p].batch : e.at >= pass'[p].acct.enrolledAt
          /\ pass'[p].at = "idle" => pass'[p].batch = {}
      <3>1. CASE pass'[p].batch = {}
        BY <3>1
      <3>2. CASE Walks(p) \/ Begins(p) \/ TakesCursor(p) \/ Clears(p) \/ Lands(p) \/ Rereads(p)
                 \/ Reports(p) \/ PartLands(p) \/ GivesUp(p)
        BY <1>1, <3>1, <3>2 DEF Walks, Begins, TakesCursor, Clears, Lands, Rereads, Reports,
                                PartLands, GivesUp, GoesOn, BatchInv, Sending
      <3>3. CASE Chooses(p)
        <4>1. pass[p].acct \in AccountFile
          BY <1>1, <1>5, <3>3 DEF Chooses, AccountInv
        <4>2. pass[p].acct.enrolledAt \in Nat /\ pass[p].started.through \in Nat
          BY <1>5, <4>1 DEF AccountFile, CursorRecord
        <4>3. FromOf(p) \in Int /\ FromOf(p) >= pass[p].acct.enrolledAt
          BY <4>2, FromIs DEF FromOf
        <4>4. \A e \in fitting(FreshOf(p)) : e \in ledger /\ e.at >= FromOf(p)
          BY DEF fitting, FreshOf, query, Since
        <4>5. \A e \in fitting(FreshOf(p)) : e.at \in Nat
          BY <1>1, <4>4 DEF EventType, EventRecord
        <4>6. \A e \in fitting(FreshOf(p)) : e.at >= pass[p].acct.enrolledAt
          BY <4>2, <4>3, <4>4, <4>5
        <4> QED
          BY <3>3, <4>4, <4>6 DEF Chooses
      <3>4. CASE Stops(p) \/ Merges(p) \/ Reported(p) \/ Marking(p)
        BY <3>1, <3>4, IdleIs DEF Stops, Becomes, Merges, Reported, Marking, Bare
      <3> QED
        BY <3>2, <3>3, <3>4 DEF PassKind
    <2> QED
      BY <1>1, <1>3, <2>1 DEF BatchInv, Still, SameButFor
  <1>7. Behind(NoCursor)
    BY <1>1, IdleIs DEF Behind, EventType
  <1>8. CopiesInv'
    <2>1. /\ Behind(pass'[p].started) /\ Behind(pass'[p].merged)
      <3>1. CASE Walks(p) \/ Begins(p) \/ TakesCursor(p) \/ Clears(p) \/ Lands(p) \/ Rereads(p)
                 \/ Reports(p) \/ PartLands(p) \/ GivesUp(p) \/ Chooses(p)
        BY <1>1, <1>7, <3>1 DEF Walks, Begins, TakesCursor, Clears, Lands, Rereads, Reports,
                                PartLands, GivesUp, Chooses, GoesOn, CopiesInv
      <3>2. CASE Stops(p) \/ Merges(p) \/ Reported(p) \/ Marking(p)
        BY <1>7, <3>2, IdleIs DEF Stops, Becomes, Merges, Reported, Marking, Bare
      <3> QED
        BY <3>1, <3>2 DEF PassKind
    <2>2. Behind(cursor')
      <3>1. CASE cursor' = cursor
        BY <1>1, <3>1 DEF CopiesInv
      <3>2. CASE Merges(p)
        <4>1. \A e \in pass[p].batch : e.at <= now
          BY <1>1 DEF BatchInv, TimeInv, EventType, All
        <4>2. now \in Nat
          BY <1>1 DEF EventType
        <4>3. pass[p].started.through <= now /\ pass[p].started.sent \subseteq ledger
              /\ pass[p].batch \subseteq ledger
          BY <1>1 DEF CopiesInv, Behind, BatchInv
        <4>4. sentThrough(pass[p].started, pass[p].batch) <= now
          BY <1>5, <4>1, <4>2, <4>3, PatchIs
        <4> QED
          BY <3>2, <4>3, <4>4 DEF Merges, Behind, stillOverlapping
      <3>3. CASE Reported(p)
        BY <1>1, <3>3 DEF Reported, CopiesInv, Behind
      <3> QED
        BY <3>1, <3>2, <3>3 DEF PassKind, Walks, Stops, Begins, TakesCursor, Clears, Lands,
                                Rereads, Reports, PartLands, GivesUp, Chooses, Marking
    <2> QED
      BY <1>1, <1>3, <2>1, <2>2 DEF CopiesInv, Behind, Still, SameButFor
  <1> QED
    BY <1>2, <1>6, <1>8

(* The event a seam stamps.                                                *)
NewEvent == [id |-> Cardinality(All) + 1, at |-> now,
             owner |-> IF account = None THEN 0 ELSE account.n]

(* It is one that is not there yet.                                        *)
LEMMA NewEventIs ==
  ASSUME CoreInv
  PROVE  /\ NewEvent \in EventRecord /\ NewEvent \notin All
         /\ NewEvent.id = Cardinality(All) + 1 /\ NewEvent.at = now
         /\ account = None => NewEvent.owner = 0
         /\ account # None => NewEvent.owner = account.n
         /\ Cardinality(All) \in Nat
         /\ IsFiniteSet(All \cup {NewEvent})
         /\ Cardinality(All \cup {NewEvent}) = Cardinality(All) + 1
  <1>1. IsFiniteSet(All) /\ now \in Nat
    BY DEF CoreInv, BaseInv, EventType, All
  <1>2. Cardinality(All) \in Nat
    BY <1>1, FS_CardinalityType
  <1>3. account # None => account.n \in Nat
    BY DEF CoreInv, BaseInv, AccountType, AccountFile
  <1>4. /\ NewEvent \in EventRecord /\ NewEvent.id = Cardinality(All) + 1 /\ NewEvent.at = now
        /\ account = None => NewEvent.owner = 0
        /\ account # None => NewEvent.owner = account.n
    BY <1>1, <1>2, <1>3 DEF NewEvent, EventRecord
  <1>5. NewEvent \notin All
    BY <1>2, <1>4 DEF CoreInv, IdInv
  <1> QED
    BY <1>1, <1>2, <1>4, <1>5, FS_AddElement

(* What a step around the passes leaves.                                   *)
LEMMA AroundCore ==
  ASSUME CoreInv, Apart, AroundKind
  PROVE  CoreInv'
  <1>1. /\ PassType /\ FilesType /\ AccountType /\ CursorType /\ EventType /\ EnrolType
        /\ AccountInv /\ TimeInv /\ BatchInv /\ CopiesInv /\ IdInv
    BY DEF CoreInv, BaseInv
  <1>2. /\ pass' = pass /\ files' = files /\ cursor' = cursor
    BY DEF Apart
  <1>3. PassType' /\ FilesType'
    BY <1>1, <1>2 DEF PassType, FilesType
  <1>4. OVERLAP \in Nat /\ now \in Nat \ {0}
    BY <1>1, PushAssumption DEF EventType
  <1>5. CASE Stamps
    <2>1. /\ stamped' = stamped \cup {NewEvent}
          /\ UNCHANGED <<now, ledger, report, account, config, told, enrolled, published>>
      BY <1>5 DEF Stamps, NewEvent, All
    <2>2. All' = All \cup {NewEvent}
      BY <2>1 DEF All
    <2>3. AccountType' /\ CursorType' /\ EnrolType' /\ AccountInv' /\ BatchInv' /\ CopiesInv'
      BY <1>1, <1>2, <2>1
         DEF AccountType, CursorType, EnrolType, AccountInv, Ours, BatchInv, CopiesInv, Behind
    <2>4. EventType'
      BY <1>1, <2>1, <2>2, NewEventIs DEF EventType, All
    <2>5. TimeInv'
      BY <1>1, <1>4, <2>1, <2>2, NewEventIs DEF TimeInv
    <2>6. IdInv'
      <3>1. Cardinality(All') = Cardinality(All) + 1 /\ Cardinality(All) \in Nat
        BY <2>2, NewEventIs
      <3>2. All \subseteq EventRecord
        BY <1>1 DEF EventType, All
      <3>3. \A e \in All : e.id \in Nat /\ e.at \in Nat
        BY <3>2 DEF EventRecord
      <3>4. \A e, f \in All' : e.id = f.id => e = f
        BY <1>1, <2>2, <3>1, <3>3, NewEventIs DEF IdInv
      <3>5. \A e \in All' : e.id <= Cardinality(All')
        BY <1>1, <2>2, <3>1, <3>3, NewEventIs DEF IdInv
      <3>6. NewEvent.owner > 0 =>
              NewEvent.owner <= Len(enrolled) /\ NewEvent.at >= enrolled[NewEvent.owner]
        <4>1. CASE account = None
          BY <4>1, NewEventIs
        <4>2. CASE account # None
          <5>1. account.n \in 1 .. Len(enrolled) /\ enrolled[account.n] <= now
            BY <1>1, <4>2 DEF AccountInv, Ours, TimeInv
          <5>2. enrolled[account.n] \in Nat /\ Len(enrolled) \in Nat
            BY <1>1, <5>1 DEF EnrolType
          <5> QED
            BY <1>4, <4>2, <5>1, <5>2, NewEventIs
        <4> QED
          BY <4>1, <4>2
      <3>7. NewEvent.at + OVERLAP >= now
        BY <1>4, NewEventIs
      <3> QED
        BY <1>1, <2>1, <2>2, <3>4, <3>5, <3>6, <3>7 DEF IdInv
    <2> QED
      BY <1>3, <2>3, <2>4, <2>5, <2>6 DEF CoreInv, BaseInv
  <1>6. ASSUME NEW e \in stamped, Appends(e)
        PROVE  CoreInv'
    <2>1. /\ stamped' = stamped \ {e} /\ ledger' = ledger \cup {e}
          /\ UNCHANGED <<now, report, account, config, told, enrolled, published>>
      BY <1>6 DEF Appends
    <2>2. All' = All
      BY <2>1 DEF All
    <2>3. AccountType' /\ CursorType' /\ EnrolType' /\ AccountInv'
      BY <1>1, <1>2, <2>1 DEF AccountType, CursorType, EnrolType, AccountInv, Ours
    <2>4. BatchInv' /\ CopiesInv'
      BY <1>1, <1>2, <2>1 DEF BatchInv, CopiesInv, Behind
    <2>5. EventType'
      BY <1>1, <1>6, <2>1, <2>2 DEF EventType, All
    <2>6. TimeInv' /\ IdInv'
      BY <1>1, <2>1, <2>2 DEF TimeInv, IdInv
    <2> QED
      BY <1>3, <2>3, <2>4, <2>5, <2>6 DEF CoreInv, BaseInv
  <1>7. CASE Ticks
    <2>1. /\ now' = now + 1 /\ \A e \in stamped : now' <= e.at + OVERLAP
          /\ UNCHANGED <<stamped, ledger, report, account, config, told, enrolled, published>>
      BY <1>7 DEF Ticks
    <2>2. AccountType' /\ CursorType' /\ EnrolType' /\ AccountInv' /\ BatchInv'
      BY <1>1, <1>2, <2>1
         DEF AccountType, CursorType, EnrolType, AccountInv, Ours, BatchInv
    <2>3. EventType'
      BY <1>1, <2>1 DEF EventType
    <2>4. TimeInv'
      <3>1. \A i \in 1 .. Len(enrolled) : enrolled[i] \in Nat
        BY <1>1 DEF EnrolType
      <3>2. \A f \in All : f.at \in 1 .. now'
        BY <1>1, <1>4, <2>1 DEF TimeInv
      <3>3. \A i \in 1 .. Len(enrolled) : enrolled[i] <= now'
        BY <1>1, <1>4, <2>1, <3>1 DEF TimeInv
      <3> QED
        BY <2>1, <3>2, <3>3 DEF TimeInv, All
    <2>5. CopiesInv'
      <3>1. ASSUME NEW c \in CursorRecord, Behind(c) PROVE Behind(c)'
        BY <1>4, <2>1, <3>1 DEF Behind, CursorRecord
      <3>2. \A q \in Pass : pass[q].started \in CursorRecord /\ pass[q].merged \in CursorRecord
        BY <1>1 DEF PassType, PassRecord
      <3> QED
        BY <1>1, <1>2, <3>1, <3>2 DEF CopiesInv, CursorType, Behind
    <2>6. IdInv'
      <3>1. \A e \in stamped : e.at + OVERLAP >= now'
        BY <1>1, <1>4, <2>1 DEF EventType, EventRecord
      <3> QED
        BY <1>1, <2>1, <3>1 DEF IdInv, All
    <2> QED
      BY <1>3, <2>2, <2>3, <2>4, <2>5, <2>6 DEF CoreInv, BaseInv
  <1>8. CASE Enrols
    <2>1. /\ account' = Enrolment(Len(enrolled) + 1, now)
          /\ enrolled' = Append(enrolled, now) /\ published' = Append(published, 1)
          /\ UNCHANGED <<now, stamped, ledger, report, config, told>>
      BY <1>8 DEF Enrols
    <2>2. /\ enrolled' \in Seq(Nat) /\ Len(enrolled') = Len(enrolled) + 1
          /\ published' \in Seq(Nat) /\ Len(published') = Len(published) + 1
          /\ Len(enrolled) \in Nat
          /\ enrolled'[Len(enrolled) + 1] = now
          /\ \A i \in 1 .. Len(enrolled) : enrolled'[i] = enrolled[i]
      BY <1>1, <1>4, <2>1 DEF EnrolType
    <2>3. /\ account' \in AccountFile /\ account'.n = Len(enrolled) + 1
          /\ account'.enrolledAt = now
      BY <1>4, <2>1, <2>2 DEF Enrolment, AccountFile
    <2>4. CursorType' /\ BatchInv' /\ CopiesInv' /\ EventType' /\ EnrolType'
      BY <1>1, <1>2, <2>1, <2>2
         DEF CursorType, BatchInv, CopiesInv, Behind, EventType, EnrolType
    <2>5. AccountType'
      BY <1>1, <2>1, <2>3 DEF AccountType
    <2>6. AccountInv'
      <3>1. Ours(account)'
        BY <2>2, <2>3 DEF Ours
      <3>2. ASSUME NEW q \in Pass, pass[q].at # "idle"
            PROVE  pass[q].acct # None /\ Ours(pass[q].acct)'
        <4>1. pass[q].acct # None /\ pass[q].acct.n \in 1 .. Len(enrolled)
              /\ pass[q].acct.enrolledAt = enrolled[pass[q].acct.n]
          BY <1>1, <3>2 DEF AccountInv, Ours
        <4>2. /\ pass[q].acct.n \in 1 .. Len(enrolled')
              /\ pass[q].acct.enrolledAt = enrolled'[pass[q].acct.n]
          BY <2>2, <4>1
        <4>3. pass'[q].acct = pass[q].acct
          BY <1>2
        <4> QED
          BY <4>1, <4>2, <4>3 DEF Ours
      <3> QED
        BY <1>2, <3>1, <3>2 DEF AccountInv
    <2>7. TimeInv'
      BY <1>1, <1>4, <2>1, <2>2 DEF TimeInv, All
    <2>8. IdInv'
      <3>1. \A e \in All : e.owner \in Nat
        BY <1>1 DEF EventType, EventRecord, All
      <3>2. ASSUME NEW e \in All, e.owner > 0
            PROVE  e.owner <= Len(enrolled') /\ e.at >= enrolled'[e.owner]
        <4>1. e.owner \in 1 .. Len(enrolled) /\ e.at >= enrolled[e.owner]
          BY <1>1, <2>2, <3>1, <3>2 DEF IdInv
        <4> QED
          BY <2>2, <4>1
      <3> QED
        BY <1>1, <2>1, <3>2 DEF IdInv, All
    <2> QED
      BY <1>3, <2>4, <2>5, <2>6, <2>7, <2>8 DEF CoreInv, BaseInv
  <1>9. CASE Leaves
    <2>1. /\ account' = None
          /\ UNCHANGED <<now, stamped, ledger, report, config, told, enrolled, published>>
      BY <1>9 DEF Leaves
    <2>2. /\ CursorType' /\ BatchInv' /\ CopiesInv' /\ EventType' /\ EnrolType'
          /\ AccountType' /\ AccountInv'
      BY <1>1, <1>2, <2>1
         DEF CursorType, BatchInv, CopiesInv, Behind, EventType, EnrolType, AccountType,
             AccountInv, Ours
    <2>3. TimeInv' /\ IdInv'
      BY <1>1, <2>1 DEF TimeInv, IdInv, All
    <2> QED
      BY <1>3, <2>2, <2>3 DEF CoreInv, BaseInv
  <1>10. CASE Elsewhere
    <2>1. /\ report' \in {report, report + 1}
          /\ config' \in Mode \cup {None} /\ told' \in Mode
          /\ published' \in Seq(Nat) /\ Len(published') = Len(published)
          /\ UNCHANGED <<now, stamped, ledger, account, enrolled>>
      BY <1>10 DEF Elsewhere
    <2>2. BatchInv' /\ CopiesInv' /\ EventType' /\ EnrolType' /\ AccountType' /\ AccountInv'
      BY <1>1, <1>2, <2>1
         DEF BatchInv, CopiesInv, Behind, EventType, EnrolType, AccountType, AccountInv, Ours
    <2>3. CursorType'
      BY <1>1, <1>2, <2>1 DEF CursorType
    <2>4. TimeInv' /\ IdInv'
      BY <1>1, <2>1 DEF TimeInv, IdInv, All
    <2> QED
      BY <1>3, <2>2, <2>3, <2>4 DEF CoreInv, BaseInv
  <1> QED
    BY <1>5, <1>6, <1>7, <1>8, <1>9, <1>10 DEF AroundKind

(* The core invariant holds at first and in every step.                    *)
LEMMA CoreInit ==
  ASSUME Init
  PROVE  CoreInv
  <1>1. /\ now = 1 /\ stamped = {} /\ ledger = {} /\ report = 0 /\ cursor = NoCursor
        /\ account = Enrolment(1, 1) /\ pass = [p \in Pass |-> Idle]
        /\ published = <<1>> /\ enrolled = <<1>>
    BY DEF Init
  <1>2. PICK b \in Budgets :
          /\ config = b.config /\ told = b.told
          /\ files = [staging |-> None, rules |-> b.held, listed |-> b.held # None,
                      conditions |-> b.held]
    BY DEF Init
  <1>3. b.config \in Mode /\ b.told \in Mode /\ b.held \in BundleRecord \cup {None}
    BY BudgetAssumption
  <1>4. FilesType
    BY <1>2, <1>3 DEF FilesType, FilesRecord
  <1>5. PassType
    BY <1>1, IdleIs DEF PassType
  <1>6. /\ account \in AccountFile /\ account.n = 1 /\ account.enrolledAt = 1
    BY <1>1 DEF Enrolment, AccountFile
  <1>7. AccountType /\ CursorType
    BY <1>1, <1>2, <1>3, <1>6, IdleIs DEF AccountType, CursorType
  <1>8. EventType
    BY <1>1, FS_EmptySet DEF EventType
  <1>9. /\ EnrolType /\ Len(enrolled) = 1 /\ enrolled[1] = 1
    BY <1>1 DEF EnrolType
  <1>10. \A p \in Pass : pass[p] = Idle
    BY <1>1
  <1>11. AccountInv /\ BatchInv
    BY <1>1, <1>6, <1>9, <1>10, IdleIs DEF AccountInv, Ours, BatchInv
  <1>12. CopiesInv
    BY <1>1, <1>10, IdleIs DEF CopiesInv, Behind
  <1>13. TimeInv /\ IdInv
    BY <1>1, <1>9 DEF TimeInv, IdInv, All
  <1> QED
    BY <1>4, <1>5, <1>7, <1>8, <1>9, <1>11, <1>12, <1>13 DEF CoreInv, BaseInv

(* Nothing of what the invariants read changes in a stuttering step.       *)
LEMMA CoreStep ==
  ASSUME CoreInv, [Next]_vars
  PROVE  CoreInv'
  <1>1. CASE Around
    BY <1>1, AroundKinds, AroundCore DEF CoreInv
  <1>2. ASSUME NEW p \in Pass, Starts(p) \/ PassStep(p) \/ Dies(p)
        PROVE  CoreInv'
    <2>1. PassKind(p) /\ Still /\ FilesType' /\ config' \in Mode \cup {None}
      BY <1>2, PassKinds
    <2> QED
      BY <2>1, PassBase, PassCopies DEF CoreInv
  <1>3. CASE UNCHANGED vars
    <2>1. UNCHANGED <<now, stamped, ledger, report, cursor, account, config, files, pass,
                      published, told, enrolled>>
      BY <1>3 DEF vars, local, cloud, history
    <2> QED
      BY <2>1 DEF CoreInv, BaseInv, PassType, FilesType, AccountType, CursorType, EventType,
                  EnrolType, AccountInv, Ours, TimeInv, BatchInv, CopiesInv, Behind, IdInv, All
  <1> QED
    BY <1>1, <1>2, <1>3 DEF Next

(* Passes, files, cursor and enrolments are well typed, a copy of the      *)
(* account is of an enrolment that was made, and no copy of the cursor is  *)
(* ahead of the clock or names an event the ledger does not have.          *)
THEOREM SyncInvariant == Spec => []CoreInv
  BY CoreInit, CoreStep, PTL DEF Spec

----------------------------------------------------------------------------
(* A bundle is applied whole: outside a pull the three files agree, and    *)
(* within one they are as far as the pull is.                              *)

Agree == /\ files.listed = (files.rules # None) /\ files.conditions = files.rules
         /\ files.rules # None => Loads(files.rules)

AsFar(p) ==
    /\ pass[p].at \in Busy \ {"list", "keep"} => Agree
    /\ pass[p].at = "touched" => pass[p].heard = files.conditions
    /\ pass[p].at \in {"load", "move"} => files.staging = pass[p].heard
    /\ pass[p].at \in {"move", "list", "keep"} => Loads(pass[p].heard)
    /\ pass[p].at \in {"list", "keep"} => files.rules = pass[p].heard
    /\ pass[p].at = "keep" => files.listed

WholeInv ==
    "torn" \notin marred =>
        /\ \A p, q \in Pass : pass[p].at \in Busy /\ pass[q].at \in Busy => p = q
        /\ (\A p \in Pass : pass[p].at \notin Busy) => Agree
        /\ \A p \in Pass : AsFar(p)

(* The steps outside a pull.                                               *)
LEMMA OffPull ==
  ASSUME CoreInv, NEW p \in Pass, SendStep(p) \/ BeatStep(p) \/ Starts(p) \/ Dies(p)
  PROVE  /\ files' = files /\ SameButFor(p) /\ marred \subseteq marred'
         /\ pass'[p].at \notin Busy
         /\ pass[p].at \in {"list", "keep"} => "torn" \in marred'
  <1>0. BaseInv /\ BatchInv /\ TimeInv
    BY DEF CoreInv
  <1>1. CASE SendStep(p) \/ BeatStep(p) \/ Starts(p)
    <2>1. PassKind(p) /\ Still /\ files' = files
      BY <1>0, <1>1, SendKinds, BeatKinds, EdgeKinds
    <2>2. SameButFor(p)
      BY <2>1, KindHolds
    <2>3. pass[p].at \notin Busy \cup {"ask"}
      <3>1. CASE SendStep(p)
        BY <3>1 DEF SendStep, ReadsCursor, ReadsLedger, Posts, MergeReads, MergeWrites,
                    ReadsReport, postChunked, ReportMerged, At, Busy
      <3>2. CASE BeatStep(p)
        BY <3>2 DEF BeatStep, ReadsMode, beats, ModeToAccount, ModeToConfig, MarkReads,
                    MarkWrites, At, Busy
      <3>3. CASE Starts(p)
        BY <3>3 DEF Starts, At, Busy
      <3> QED
        BY <1>1, <3>1, <3>2, <3>3
    <2>4. pass'[p].at \notin Busy
      <3>1. CASE Walks(p) \/ Stops(p)
        BY <2>3, <3>1, IdleIs DEF Walks, GoesOn, Stops, Becomes, Busy
      <3>2. CASE Begins(p) \/ TakesCursor(p) \/ Clears(p) \/ Chooses(p) \/ Lands(p) \/ Rereads(p)
        BY <3>2 DEF Begins, TakesCursor, Clears, Chooses, Lands, GoesOn, Rereads, Busy
      <3>3. CASE Merges(p) \/ Reports(p) \/ PartLands(p) \/ GivesUp(p) \/ Reported(p) \/ Marking(p)
        BY <3>3 DEF Merges, Reports, PartLands, GivesUp, Reported, Marking, Bare, Busy
      <3> QED
        BY <2>1, <3>1, <3>2, <3>3 DEF PassKind
    <2> QED
      BY <2>1, <2>2, <2>3, <2>4 DEF Still, Busy
  <1>2. CASE Dies(p)
    <2>1. PassKind(p) /\ Still /\ files' = files
      BY <1>0, <1>2, EdgeKinds
    <2>2. SameButFor(p)
      BY <2>1, KindHolds
    <2>3. pass' = [pass EXCEPT ![p] = Idle]
      BY <1>2 DEF Dies, Ends
    <2>4. pass'[p] = Idle
      BY <1>0, <2>3, IdleIs, PassWritten DEF BaseInv, Becomes
    <2>5. pass[p].at \in {"list", "keep"} => "torn" \in marred'
      BY <1>2 DEF Dies, Mar
    <2> QED
      BY <2>1, <2>2, <2>4, <2>5, IdleIs DEF Still, Busy
  <1> QED
    BY <1>1, <1>2

(* A pass that leaves the pull with the files in agreement.                *)
LEMMA LeavesWhole ==
  ASSUME WholeInv, NEW p \in Pass, SameButFor(p), marred \subseteq marred',
         pass'[p].at \notin Busy,
         files' = files \/ (Agree' /\ pass[p].at \in Busy),
         pass[p].at \in {"list", "keep"} => "torn" \in marred' \/ Agree'
  PROVE  WholeInv'
  <1> SUFFICES ASSUME "torn" \notin marred'
               PROVE  /\ \A q, r \in Pass : pass'[q].at \in Busy /\ pass'[r].at \in Busy => q = r
                      /\ (\A q \in Pass : pass'[q].at \notin Busy) => Agree'
                      /\ \A q \in Pass : AsFar(q)'
    BY DEF WholeInv
  <1>1. /\ \A q, r \in Pass : pass[q].at \in Busy /\ pass[r].at \in Busy => q = r
        /\ (\A q \in Pass : pass[q].at \notin Busy) => Agree
        /\ \A q \in Pass : AsFar(q)
    BY DEF WholeInv
  <1>2. \A q \in Pass \ {p} : pass'[q] = pass[q]
    BY DEF SameButFor
  <1>3. CASE pass[p].at \in Busy
    <2>1. \A q \in Pass : pass'[q].at \notin Busy
      BY <1>1, <1>2, <1>3
    <2>2. Agree'
      BY <1>1, <1>3 DEF AsFar, Agree, Loads
    <2>3. \A q \in Pass : AsFar(q)'
      BY <2>1 DEF AsFar, Busy
    <2> QED
      BY <2>1, <2>2, <2>3
  <1>4. CASE pass[p].at \notin Busy
    <2>1. files' = files
      BY <1>4
    <2>2. \A q \in Pass : pass'[q].at \in Busy => q # p /\ pass'[q] = pass[q]
      BY <1>2
    <2>3. \A q \in Pass : AsFar(q)'
      <3>1. ASSUME NEW q \in Pass \ {p} PROVE AsFar(q)'
        BY <1>1, <1>2, <2>1 DEF AsFar, Agree, Loads
      <3>2. AsFar(p)'
        BY DEF AsFar, Busy
      <3> QED
        BY <3>1, <3>2
    <2>4. (\A q \in Pass : pass'[q].at \notin Busy) => Agree'
      BY <1>1, <1>2, <1>4, <2>1 DEF Agree, Loads
    <2> QED
      BY <1>1, <2>2, <2>3, <2>4
  <1> QED
    BY <1>3, <1>4

(* A pass within the pull, alone in it.                                    *)
LEMMA GoesWhole ==
  ASSUME WholeInv, NEW p \in Pass, SameButFor(p), marred \subseteq marred',
         "torn" \notin marred' => \A q \in Pass \ {p} : pass[q].at \notin Busy,
         "torn" \notin marred' => pass'[p].at \in Busy /\ AsFar(p)'
  PROVE  WholeInv'
  <1> SUFFICES ASSUME "torn" \notin marred'
               PROVE  /\ \A q, r \in Pass : pass'[q].at \in Busy /\ pass'[r].at \in Busy => q = r
                      /\ (\A q \in Pass : pass'[q].at \notin Busy) => Agree'
                      /\ \A q \in Pass : AsFar(q)'
    BY DEF WholeInv
  <1>1. \A q \in Pass \ {p} : pass'[q] = pass[q] /\ pass'[q].at \notin Busy
    BY DEF SameButFor
  <1>2. \A q \in Pass \ {p} : AsFar(q)'
    BY <1>1 DEF AsFar, Busy
  <1> QED
    BY <1>1, <1>2

(* A step of the pull.                                                     *)
LEMMA PullWhole ==
  ASSUME CoreInv, WholeInv, NEW p \in Pass, PullStep(p)
  PROVE  WholeInv'
  <1>0. BaseInv /\ PassType /\ FilesType /\ pass[p] \in PassRecord
    BY DEF CoreInv, BaseInv, PassType
  <1>1. (Walks(p) \/ Stops(p)) /\ Still
    BY <1>0, PullKinds
  <1>2. SameButFor(p) /\ marred \subseteq marred'
    BY <1>1, KindHolds DEF PassKind, Still
  <1>3. /\ pass[p].heard \in BundleRecord \cup {None}
        /\ files \in FilesRecord
    BY <1>0 DEF PassRecord, FilesType
  <1>4. {"ask", "touch", "touched", "truncate", "stage", "load", "move", "list", "keep", "cursor",
         "mark"} \subseteq Place
    BY DEF Place
  <1>g. ASSUME NEW to, to \in {"ask", "touch", "touched", "truncate", "stage", "load", "move",
                               "list", "keep", "cursor", "mark"},
               pass' = [pass EXCEPT ![p].at = to]
        PROVE  pass'[p].at = to /\ pass'[p].heard = pass[p].heard
    BY <1>0, <1>3, <1>4, <1>g, PassGoes DEF GoesOn
  <1>h. ASSUME NEW to, to \in {"ask", "touched", "truncate"}, NEW heard,
               heard \in BundleRecord \cup {None},
               pass' = [pass EXCEPT ![p].at = to, ![p].heard = heard]
        PROVE  pass'[p].at = to /\ pass'[p].heard = heard
    <2>1. to \in Place /\ None \in Mode \cup {None}
      BY <1>4, <1>h
    <2>2. GoesOn(p, to, heard)
      BY <1>0, <1>h, <2>1, PassGoes
    <2> QED
      BY <2>2 DEF GoesOn
  <1>i. ASSUME pass' = [pass EXCEPT ![p] = Idle] PROVE pass'[p].at = "idle"
    BY <1>0, <1>i, IdleIs, PassWritten DEF Becomes
  <1>a. ASSUME pass[p].at \in Busy, "torn" \notin marred
        PROVE  /\ \A q \in Pass \ {p} : pass[q].at \notin Busy
               /\ AsFar(p)
    BY <1>a DEF WholeInv
  <1>5. CASE ReadsHash(p)
    <2> DEFINE heard == IF files.rules = Half THEN None ELSE files.rules
    <2>1. heard \in BundleRecord \cup {None}
      BY <1>3 DEF FilesRecord
    <2>2. /\ pass' = [pass EXCEPT ![p].at = "ask", ![p].heard = heard] /\ pass[p].at = "hash"
          /\ files' = files
      BY <1>5 DEF ReadsHash, At, local
    <2> HIDE DEF heard
    <2>3. pass'[p].at = "ask"
      BY <1>h, <2>1, <2>2
    <2> QED
      BY <1>2, <2>2, <2>3, LeavesWhole DEF Busy
  <1>6. CASE pullBundle(p)
    <2> DEFINE bundle == Bundle(pass[p].acct.n, published[pass[p].acct.n])
    <2>1. pass[p].at = "ask" /\ files' = files
      BY <1>6 DEF pullBundle, At, local
    <2>2. bundle \in BundleRecord
      <3>1. pass[p].acct.n \in 1 .. Len(published) /\ published \in Seq(Nat)
        BY <1>0, <2>1 DEF BaseInv, AccountInv, Ours, EnrolType
      <3>2. pass[p].acct.n \in Nat /\ published[pass[p].acct.n] \in Nat
        BY <3>1
      <3> QED
        BY <3>2 DEF Bundle, BundleRecord
    <2>3. CASE \/ pass' = [pass EXCEPT ![p].at = "mark"]
               \/ pass' = [pass EXCEPT ![p].at = "cursor"]
               \/ pass' = [pass EXCEPT ![p] = Idle]
      <3>1. pass'[p].at \in {"mark", "cursor", "idle"}
        BY <1>g, <1>i, <2>3
      <3> QED
        BY <1>2, <2>1, <3>1, LeavesWhole DEF Busy
    <2>4. CASE /\ \/ pass' = [pass EXCEPT ![p].at = "touch"]
                  \/ pass' = [pass EXCEPT ![p].at = "truncate", ![p].heard = bundle]
               /\ (\E q \in Pass \ {p} : Pulling(q)) => "torn" \in marred'
      <3> HIDE DEF bundle
      <3>1. pass'[p].at \in {"touch", "truncate"}
        BY <1>g, <1>h, <2>2, <2>4
      <3>2. "torn" \notin marred' => \A q \in Pass \ {p} : pass[q].at \notin Busy
        BY <2>4 DEF Pulling, Busy
      <3>3. ASSUME "torn" \notin marred' PROVE AsFar(p)'
        <4>1. \A q \in Pass : pass[q].at \notin Busy
          BY <2>1, <3>2, <3>3 DEF Busy
        <4>2. Agree
          BY <1>2, <3>3, <4>1 DEF WholeInv
        <4> QED
          BY <2>1, <3>1, <4>2 DEF AsFar, Agree, Loads
      <3> QED
        BY <1>2, <3>1, <3>2, <3>3, GoesWhole DEF Busy
    <2> QED
      BY <1>6, <2>3, <2>4 DEF pullBundle, Goes, Ends, Unreachable, Mar, Others
  <1>7. CASE TouchReads(p)
    <2>1. pass[p].at = "touch" /\ files' = files
      BY <1>7 DEF TouchReads, At, local
    <2>2. CASE pass' = [pass EXCEPT ![p].at = "cursor"]
      <3>1. pass'[p].at = "cursor"
        BY <1>g, <2>2
      <3> QED
        BY <1>2, <2>1, <3>1, LeavesWhole DEF Busy
    <2>3. CASE pass' = [pass EXCEPT ![p].at = "touched", ![p].heard = files.conditions]
      <3>1. pass'[p].at = "touched" /\ pass'[p].heard = files.conditions
        BY <1>h, <1>3, <2>3 DEF FilesRecord
      <3>2. ASSUME "torn" \notin marred'
            PROVE  (\A q \in Pass \ {p} : pass[q].at \notin Busy) /\ AsFar(p)'
        <4>1. (\A q \in Pass \ {p} : pass[q].at \notin Busy) /\ AsFar(p)
          BY <1>a, <1>2, <2>1, <3>2 DEF Busy
        <4> QED
          BY <2>1, <3>1, <4>1 DEF AsFar, Agree, Loads, Busy
      <3> QED
        BY <1>2, <3>1, <3>2, GoesWhole DEF Busy
    <2> QED
      BY <1>7, <2>2, <2>3 DEF TouchReads, Goes
  <1>f. ASSUME NEW from, NEW to, NEW written, FileStep(p, from, to, written),
               to \in {"stage", "load", "move", "list", "keep", "cursor"}
        PROVE  /\ pass[p].at = from /\ pass'[p].at = to /\ pass'[p].heard = pass[p].heard
               /\ files' = written /\ marred' = marred
    BY <1>f, <1>g DEF FileStep, At, Goes, history
  <1>8. CASE TouchWrites(p)
    <2>1. /\ pass[p].at = "touched" /\ pass'[p].at = "cursor"
          /\ files' = [files EXCEPT !.conditions = pass[p].heard] /\ marred' = marred
      BY <1>8, <1>f DEF TouchWrites
    <2>2. CASE "torn" \in marred
      BY <2>1, <2>2 DEF WholeInv
    <2>3. CASE "torn" \notin marred
      <3>1. AsFar(p)
        BY <1>a, <2>1, <2>3 DEF Busy
      <3>2. files' = files
        BY <1>3, <2>1, <3>1 DEF AsFar, FilesRecord
      <3> QED
        BY <1>2, <2>1, <3>2, LeavesWhole DEF Busy
    <2> QED
      BY <2>2, <2>3
  <1>k. ASSUME pass[p].at \in Busy, pass'[p].at \in Busy, marred' = marred,
               "torn" \notin marred /\ AsFar(p) => AsFar(p)'
        PROVE  WholeInv'
    BY <1>2, <1>a, <1>k, GoesWhole
  <1>9. CASE Truncates(p)
    <2>1. /\ pass[p].at = "truncate" /\ pass'[p].at = "stage"
          /\ files' = [files EXCEPT !.staging = Half] /\ marred' = marred
      BY <1>9, <1>f DEF Truncates
    <2>2. files'.rules = files.rules /\ files'.listed = files.listed
          /\ files'.conditions = files.conditions
      BY <1>3, <2>1 DEF FilesRecord
    <2>3. AsFar(p) => AsFar(p)'
      BY <2>1, <2>2 DEF AsFar, Agree, Loads, Busy
    <2> QED
      BY <1>k, <2>1, <2>3 DEF Busy
  <1>10. CASE Stages(p)
    <2>1. /\ pass[p].at = "stage" /\ pass'[p].at = "load" /\ pass'[p].heard = pass[p].heard
          /\ files' = [files EXCEPT !.staging = pass[p].heard] /\ marred' = marred
      BY <1>10, <1>f DEF Stages
    <2>2. files'.rules = files.rules /\ files'.listed = files.listed
          /\ files'.conditions = files.conditions /\ files'.staging = pass[p].heard
      BY <1>3, <2>1 DEF FilesRecord
    <2>3. AsFar(p) => AsFar(p)'
      BY <2>1, <2>2 DEF AsFar, Agree, Loads, Busy
    <2> QED
      BY <1>k, <2>1, <2>3 DEF Busy
  <1>11. CASE LoadsStaged(p)
    <2>1. CASE Loads(files.staging)
      <3>1. /\ pass[p].at = "load" /\ pass'[p].at = "move" /\ pass'[p].heard = pass[p].heard
            /\ files' = files /\ marred' = marred
        BY <1>11, <1>f, <2>1 DEF LoadsStaged
      <3>2. AsFar(p) => AsFar(p)'
        BY <2>1, <3>1 DEF AsFar, Agree, Loads, Busy
      <3> QED
        BY <1>k, <3>1, <3>2 DEF Busy
    <2>2. CASE ~Loads(files.staging)
      <3>1. /\ pass[p].at = "load" /\ pass'[p].at = "cursor"
            /\ files' = [files EXCEPT !.staging = None] /\ marred' = marred
        BY <1>11, <1>f, <2>2 DEF LoadsStaged
      <3>2. files'.rules = files.rules /\ files'.listed = files.listed
            /\ files'.conditions = files.conditions
        BY <1>3, <3>1 DEF FilesRecord
      <3>3. CASE "torn" \in marred
        BY <3>1, <3>3 DEF WholeInv
      <3>4. CASE "torn" \notin marred
        <4>1. Agree
          BY <1>a, <3>1, <3>4 DEF AsFar, Busy
        <4>2. Agree'
          BY <3>2, <4>1 DEF Agree, Loads
        <4> QED
          BY <1>2, <3>1, <4>2, LeavesWhole DEF Busy
      <3> QED
        BY <3>3, <3>4
    <2> QED
      BY <2>1, <2>2
  <1>12. CASE Moves(p)
    <2>1. CASE files.staging = None
      <3>1. pass[p].at = "move" /\ pass' = [pass EXCEPT ![p] = Idle] /\ files' = files
        BY <1>12, <2>1 DEF Moves, At, Ends, local
      <3>2. pass'[p].at = "idle"
        BY <1>i, <3>1
      <3> QED
        BY <1>2, <3>1, <3>2, LeavesWhole DEF Busy
    <2>2. CASE files.staging # None
      <3>1. /\ pass[p].at = "move" /\ pass'[p].at = "list" /\ pass'[p].heard = pass[p].heard
            /\ files' = [files EXCEPT !.rules = files.staging, !.staging = None]
            /\ marred' = marred
        BY <1>12, <1>f, <2>2 DEF Moves
      <3>2. files'.rules = files.staging
        BY <1>3, <3>1 DEF FilesRecord
      <3>3. AsFar(p) => AsFar(p)'
        BY <3>1, <3>2 DEF AsFar, Loads, Busy
      <3> QED
        BY <1>k, <3>1, <3>3 DEF Busy
    <2> QED
      BY <2>1, <2>2
  <1>13. CASE Lists(p)
    <2>1. /\ pass[p].at = "list" /\ pass'[p].at = "keep" /\ pass'[p].heard = pass[p].heard
          /\ files' = [files EXCEPT !.listed = TRUE] /\ marred' = marred
      BY <1>13, <1>f DEF Lists
    <2>2. files'.rules = files.rules /\ files'.listed = TRUE
      BY <1>3, <2>1 DEF FilesRecord
    <2>3. AsFar(p) => AsFar(p)'
      BY <2>1, <2>2 DEF AsFar, Loads, Busy
    <2> QED
      BY <1>k, <2>1, <2>3 DEF Busy
  <1>14. CASE KeepsConditions(p)
    <2>1. /\ pass[p].at = "keep" /\ pass'[p].at = "cursor"
          /\ files' = [files EXCEPT !.conditions = pass[p].heard] /\ marred' = marred
      BY <1>14, <1>f DEF KeepsConditions
    <2>2. files'.rules = files.rules /\ files'.listed = files.listed
          /\ files'.conditions = pass[p].heard
      BY <1>3, <2>1 DEF FilesRecord
    <2>3. CASE "torn" \in marred
      BY <2>1, <2>3 DEF WholeInv
    <2>4. CASE "torn" \notin marred
      <3>1. AsFar(p)
        BY <1>a, <2>1, <2>4 DEF Busy
      <3>2. files.listed = TRUE
        BY <1>3, <2>1, <3>1 DEF AsFar, FilesRecord
      <3>3. Agree'
        BY <2>1, <2>2, <3>1, <3>2 DEF AsFar, Agree, Loads
      <3> QED
        BY <1>2, <2>1, <3>3, LeavesWhole DEF Busy
    <2> QED
      BY <2>3, <2>4
  <1> QED
    BY <1>5, <1>6, <1>7, <1>8, <1>9, <1>10, <1>11, <1>12, <1>13, <1>14 DEF PullStep

(* Every step keeps the bundle whole.                                      *)
LEMMA WholeStep ==
  ASSUME CoreInv, WholeInv, [Next]_vars
  PROVE  WholeInv'
  <1>1. CASE Around
    <2>1. UNCHANGED <<files, pass, marred>>
      BY <1>1, AroundKinds DEF CoreInv, Apart
    <2> QED
      BY <2>1 DEF WholeInv, AsFar, Agree, Loads
  <1>2. ASSUME NEW p \in Pass, SendStep(p) \/ BeatStep(p) \/ Starts(p) \/ Dies(p)
        PROVE  WholeInv'
    BY <1>2, OffPull, LeavesWhole
  <1>3. ASSUME NEW p \in Pass, PullStep(p)
        PROVE  WholeInv'
    BY <1>3, PullWhole
  <1>4. CASE UNCHANGED vars
    <2>1. UNCHANGED <<files, pass, marred>>
      BY <1>4 DEF vars, local, history
    <2> QED
      BY <2>1 DEF WholeInv, AsFar, Agree, Loads
  <1> QED
    BY <1>1, <1>2, <1>3, <1>4 DEF Next, PassStep

(* applyBundle: however passes interleave and die, the rules in the list   *)
(* are ones the gate can read, and outside a pull the conditions are of    *)
(* the same bundle, unless two pulls met or one died halfway.              *)
THEOREM BundleIsWhole == Spec => []WholeBundle
  <1>1. Init => CoreInv /\ WholeInv
    <2> SUFFICES ASSUME Init PROVE CoreInv /\ WholeInv
      OBVIOUS
    <2>1. PICK b \in Budgets :
            files = [staging |-> None, rules |-> b.held, listed |-> b.held # None,
                     conditions |-> b.held]
      BY DEF Init
    <2>2. b.held # None => Loads(b.held)
      BY BudgetAssumption
    <2>3. files.rules = b.held /\ files.listed = (b.held # None) /\ files.conditions = b.held
      BY <2>1
    <2>4. Agree
      BY <2>2, <2>3 DEF Agree
    <2>5. \A p \in Pass : pass[p].at = "idle"
      BY IdleIs DEF Init
    <2> QED
      BY <2>4, <2>5, CoreInit DEF WholeInv, AsFar, Busy
  <1>2. CoreInv /\ WholeInv /\ [Next]_vars => (CoreInv /\ WholeInv)'
    BY CoreStep, WholeStep
  <1>3. CoreInv /\ WholeInv => WholeBundle
    <2> SUFFICES ASSUME WholeInv, "torn" \notin marred
                 PROVE  /\ files.rules # None => Loads(files.rules)
                        /\ (\A p \in Pass : ~Pulling(p)) =>
                             files.listed = (files.rules # None) /\ files.conditions = files.rules
      BY DEF WholeBundle
    <2>1. CASE \A p \in Pass : pass[p].at \notin Busy
      BY <2>1 DEF WholeInv, Agree
    <2>2. CASE \E p \in Pass : pass[p].at \in Busy
      <3>1. PICK p \in Pass : pass[p].at \in Busy
        BY <2>2
      <3>2. Pulling(p) /\ AsFar(p)
        BY <3>1 DEF Pulling, Busy, WholeInv
      <3> QED
        BY <3>1, <3>2 DEF AsFar, Agree
    <2> QED
      BY <2>1, <2>2
  <1> QED
    BY <1>1, <1>2, <1>3, PTL DEF Spec

----------------------------------------------------------------------------
(* No workspace is sent what was done before it was enrolled.              *)

GotInv ==
    \A r \in got : r.kind = "event" =>
        /\ r.n \in 1 .. Len(enrolled)
        /\ \E f \in ledger : f.id = r.id /\ f.at >= enrolled[r.n]

(* What arrives in a step of a pass.                                       *)
LEMMA KindGets ==
  ASSUME NEW p \in Pass, PassKind(p)
  PROVE  \/ got' = got
         \/ pass[p].at = "post" /\ got' = got \cup EventRows(p)
         \/ pass[p].at = "chunk" /\ got' = got \cup ReportRows(p)
  BY DEF PassKind, Walks, Stops, Begins, TakesCursor, Clears, Chooses, Lands, Rereads, Merges,
         Reports, PartLands, GivesUp, Reported, Marking

(* The fields of a row.                                                    *)
LEMMA RowIs ==
  ASSUME NEW n, NEW i, NEW k
  PROVE  /\ EventRow(n, i).n = n /\ EventRow(n, i).id = i /\ EventRow(n, i).kind = "event"
         /\ ReportRow(n, i, k).n = n /\ ReportRow(n, i, k).id = i /\ ReportRow(n, i, k).part = k
         /\ ReportRow(n, i, k).kind = "report"
         /\ EventRow(n, i).kind # "report" /\ ReportRow(n, i, k).kind # "event"
  BY DEF EventRow, ReportRow

(* Every step keeps what arrived within the enrolments.                    *)
LEMMA GotStep ==
  ASSUME CoreInv, GotInv, [Next]_vars
  PROVE  GotInv'
  <1>1. BaseInv /\ EnrolType /\ AccountInv /\ BatchInv
    BY DEF CoreInv, BaseInv
  <1>2. CASE Around
    <2>1. Apart /\ AroundKind
      BY <1>1, <1>2, AroundKinds
    <2>2. /\ got' = got /\ ledger \subseteq ledger'
          /\ Len(enrolled) <= Len(enrolled') /\ Len(enrolled) \in Nat /\ Len(enrolled') \in Nat
          /\ \A n \in 1 .. Len(enrolled) : enrolled'[n] = enrolled[n]
      <3>1. CASE Enrols
        <4>1. now \in Nat
          BY <1>1 DEF BaseInv, EventType
        <4> QED
          BY <1>1, <2>1, <3>1, <4>1 DEF Apart, Enrols, EnrolType
      <3>2. CASE ~Enrols
        <4>1. enrolled' = enrolled /\ ledger \subseteq ledger'
          BY <2>1, <3>2 DEF AroundKind, Stamps, Appends, Ticks, Leaves, Elsewhere
        <4> QED
          BY <1>1, <2>1, <4>1 DEF Apart, EnrolType
      <3> QED
        BY <3>1, <3>2
    <2>3. ASSUME NEW r \in got, r.kind = "event"
          PROVE  /\ r.n \in 1 .. Len(enrolled')
                 /\ \E f \in ledger' : f.id = r.id /\ f.at >= enrolled'[r.n]
      <3>1. /\ r.n \in 1 .. Len(enrolled)
            /\ \E f \in ledger : f.id = r.id /\ f.at >= enrolled[r.n]
        BY <2>3 DEF GotInv
      <3> QED
        BY <2>2, <3>1
    <2> QED
      BY <2>2, <2>3 DEF GotInv
  <1>3. ASSUME NEW p \in Pass, Starts(p) \/ PassStep(p) \/ Dies(p)
        PROVE  GotInv'
    <2>1. PassKind(p) /\ Still
      BY <1>3, PassKinds
    <2>2. enrolled' = enrolled /\ ledger' = ledger
      BY <2>1 DEF Still
    <2>3. CASE got' = got
      BY <2>2, <2>3 DEF GotInv
    <2>4. CASE pass[p].at = "post" /\ got' = got \cup EventRows(p)
      <3>1. Ours(pass[p].acct)
        BY <1>1, <2>4 DEF AccountInv
      <3>2. ASSUME NEW e \in pass[p].batch
            PROVE  /\ pass[p].acct.n \in 1 .. Len(enrolled)
                   /\ e \in ledger /\ e.at >= enrolled[pass[p].acct.n]
        BY <1>1, <3>1 DEF BatchInv, Ours
      <3>3. ASSUME NEW r \in EventRows(p)
            PROVE  /\ r.n \in 1 .. Len(enrolled)
                   /\ \E f \in ledger : f.id = r.id /\ f.at >= enrolled[r.n]
        <4>1. PICK e \in pass[p].batch : r = EventRow(pass[p].acct.n, e.id)
          BY DEF EventRows
        <4>2. r.n = pass[p].acct.n /\ r.id = e.id
          BY <4>1, RowIs
        <4> QED
          BY <3>2, <4>2
      <3> QED
        BY <2>2, <2>4, <3>3 DEF GotInv
    <2>5. CASE pass[p].at = "chunk" /\ got' = got \cup ReportRows(p)
      <3>1. \A r \in ReportRows(p) : r.kind # "event"
        BY RowIs DEF ReportRows
      <3> QED
        BY <2>2, <2>5, <3>1 DEF GotInv
    <2> QED
      BY <2>1, <2>3, <2>4, <2>5, KindGets
  <1>4. CASE UNCHANGED vars
    BY <1>4 DEF vars, local, cloud, history, GotInv
  <1> QED
    BY <1>2, <1>3, <1>4 DEF Next

(* pushFrom's floor: a row that a workspace has is of an event that is not *)
(* older than its enrolment, however often a machine changes workspaces.   *)
THEOREM FloorHolds == Spec => []NothingFromBefore
  <1>1. Init => CoreInv /\ GotInv
    BY CoreInit DEF Init, GotInv
  <1>2. CoreInv /\ GotInv /\ [Next]_vars => (CoreInv /\ GotInv)'
    BY CoreStep, GotStep
  <1>3. CoreInv /\ GotInv => NothingFromBefore
    <2> SUFFICES ASSUME CoreInv, GotInv, NEW e \in ledger, NEW n \in DOMAIN enrolled,
                        EventRow(n, e.id) \in got
                 PROVE  e.at >= enrolled[n]
      BY DEF NothingFromBefore
    <2>1. PICK f \in ledger : f.id = e.id /\ f.at >= enrolled[n]
      BY RowIs DEF GotInv
    <2>2. f = e
      BY <2>1 DEF CoreInv, IdInv, All
    <2> QED
      BY <2>1, <2>2
  <1> QED
    BY <1>1, <1>2, <1>3, PTL DEF Spec

----------------------------------------------------------------------------
(* No event is skipped.                                                    *)

N == Len(enrolled)

(* What the newest workspace should have and has not. *)
Unsent == {e \in All : e.owner = N /\ EventRow(N, e.id) \notin got}

(* A pass that starts from this cursor still reads them. *)
Reaches(c) == \A e \in Unsent : e.at >= c.through - OVERLAP /\ e \notin c.sent

Spoilt == marred \cap {"overfull", "strayed", "revived"}

(* A pass that merges what it holds still leaves them to be read. *)
LeavesRoom(p) ==
    /\ Reaches(pass[p].started) /\ Reaches(pass[p].merged)
    /\ \A e \in pass[p].batch : e.owner <= pass[p].acct.n
    /\ \A e \in Unsent \ pass[p].batch :
          e.at >= sentThrough(pass[p].started, pass[p].batch) - OVERLAP
    /\ pass[p].at \in {"merge", "merged"} => Unsent \cap pass[p].batch = {}

SkipInv ==
    Spoilt = {} =>
        /\ account # None => account.n = N
        /\ Reaches(cursor)
        /\ \A p \in Pass : LeavesRoom(p)

(* The newest enrolment is the last. *)
LastInv == \A i \in 1 .. N : enrolled[i] <= enrolled[N]

(* The last enrolment is the latest in every state.                        *)
LEMMA LastStep ==
  ASSUME CoreInv, LastInv, [Next]_vars
  PROVE  LastInv'
  <1>1. BaseInv /\ EnrolType /\ TimeInv /\ now \in Nat
    BY DEF CoreInv, BaseInv, EventType
  <1>2. CASE Enrols
    <2>1. /\ enrolled' = Append(enrolled, now)
      BY <1>2 DEF Enrols
    <2>2. /\ Len(enrolled') = Len(enrolled) + 1 /\ Len(enrolled) \in Nat
          /\ enrolled'[Len(enrolled) + 1] = now
          /\ \A i \in 1 .. Len(enrolled) : enrolled'[i] = enrolled[i]
      BY <1>1, <2>1 DEF EnrolType
    <2>3. ASSUME NEW i \in 1 .. Len(enrolled') PROVE enrolled'[i] <= now
      BY <1>1, <2>2 DEF TimeInv
    <2> QED
      BY <2>2, <2>3 DEF LastInv, N
  <1>3. CASE enrolled' = enrolled
    BY <1>3 DEF LastInv, N
  <1>4. Enrols \/ enrolled' = enrolled
    <2>1. CASE Around
      BY <1>1, <2>1, AroundKinds DEF AroundKind, Stamps, Appends, Ticks, Leaves, Elsewhere
    <2>2. ASSUME NEW p \in Pass, Starts(p) \/ PassStep(p) \/ Dies(p)
          PROVE  enrolled' = enrolled
      BY <2>2, PassKinds DEF Still
    <2>3. CASE UNCHANGED vars
      BY <2>3 DEF vars, history
    <2> QED
      BY <2>1, <2>2, <2>3 DEF Next
  <1> QED
    BY <1>2, <1>3, <1>4

(* Fewer are unsent: what reached them still does.                         *)
LEMMA ReachesOn ==
  ASSUME Unsent' \subseteq Unsent
  PROVE  \A c : Reaches(c) => \A e \in Unsent' : e.at >= c.through - OVERLAP /\ e \notin c.sent
  BY DEF Reaches

(* pushEvents takes a beginning of what is fresh: an unsent event it does  *)
(* not take is not before one it takes.                                    *)
LEMMA BatchIsABeginning ==
  ASSUME NEW fresh \in SUBSET EventRecord, NEW e \in fresh \ fitting(fresh),
         NEW b \in fitting(fresh)
  PROVE  b.at <= e.at
  <1> SUFFICES ASSUME ~(b.at <= e.at) PROVE FALSE
    OBVIOUS
  <1>1. b \in fresh /\ \A f \in UpTo(fresh, b) : RowsOf(UpTo(fresh, f)) <= MAX_POST
    BY DEF fitting
  <1>2. PICK f \in UpTo(fresh, e) : ~(RowsOf(UpTo(fresh, f)) <= MAX_POST)
    BY DEF fitting
  <1>3. e \in EventRecord /\ b \in EventRecord /\ f \in EventRecord /\ f \in fresh
    BY <1>1, <1>2 DEF UpTo
  <1>4. e.at \in Nat /\ b.at \in Nat /\ f.at \in Nat
    BY <1>3 DEF EventRecord
  <1>5. f.at <= e.at
    BY <1>2, <1>4 DEF UpTo, Earlier
  <1>6. f.at < b.at
    BY <1>4, <1>5
  <1>7. f \in UpTo(fresh, b)
    BY <1>3, <1>6 DEF UpTo, Earlier
  <1> QED
    BY <1>1, <1>2, <1>7

(* SqliteEventStore.query gives all there is, when that is not too much.   *)
LEMMA QueryIsAll ==
  ASSUME EventType, NEW from, ~(Cardinality(Since(ledger, from)) > MAX_POST)
  PROVE  query(ledger, from) = Since(ledger, from)
  <1> DEFINE found == Since(ledger, from)
  <1>1. IsFiniteSet(found) /\ MAX_POST \in Nat
    <2>1. found \subseteq stamped \cup ledger
      BY DEF Since
    <2> QED
      BY <2>1, FS_Subset, PushAssumption DEF EventType
  <1>2. ASSUME NEW e \in found
        PROVE  Cardinality({f \in found : Earlier(e, f)}) < MAX_POST
    <2> DEFINE later == {f \in found : Earlier(e, f)}
    <2>1. e.at \in Nat /\ e.id \in Nat
      BY DEF Since, EventType, EventRecord
    <2>2. later \subseteq found /\ e \notin later
      BY <2>1 DEF Earlier
    <2>3. IsFiniteSet(later)
      BY <1>1, <2>2, FS_Subset
    <2>4. later \cup {e} \subseteq found
      BY <2>2
    <2> HIDE DEF later
    <2>5. Cardinality(later \cup {e}) = Cardinality(later) + 1 /\ Cardinality(later) \in Nat
      BY <2>2, <2>3, FS_AddElement, FS_CardinalityType
    <2>6. Cardinality(later \cup {e}) <= Cardinality(found) /\ Cardinality(found) \in Nat
      BY <1>1, <2>4, FS_Subset, FS_CardinalityType
    <2>7. Cardinality(found) <= MAX_POST
      BY <1>1, <2>6
    <2>8. Cardinality(later) < MAX_POST
      BY <1>1, <2>5, <2>6, <2>7
    <2> QED
      BY <2>8 DEF later
  <1> QED
    BY <1>2 DEF query

(* How far a merge of what a pass holds would go.                          *)
LEMMA SentRange ==
  ASSUME CoreInv, NEW p \in Pass
  PROVE  /\ pass[p].started \in CursorRecord /\ pass[p].batch \in SUBSET EventRecord
         /\ sentThrough(pass[p].started, pass[p].batch) \in 0 .. now
         /\ pass[p].batch # {} =>
              /\ \E e \in pass[p].batch :
                    e.at = sentThrough(pass[p].started, pass[p].batch)
              /\ \A e \in pass[p].batch :
                    e.at <= sentThrough(pass[p].started, pass[p].batch)
  <1>1. pass[p] \in PassRecord /\ now \in Nat
    BY DEF CoreInv, BaseInv, PassType, EventType
  <1>2. /\ pass[p].started \in CursorRecord /\ pass[p].batch \in SUBSET EventRecord
    BY <1>1 DEF PassRecord
  <1>3. \A e \in pass[p].batch : e.at <= now
    BY <1>1 DEF CoreInv, BatchInv, TimeInv, All
  <1>4. pass[p].started.through \in Nat /\ pass[p].started.through <= now
    BY <1>2 DEF CoreInv, CopiesInv, Behind, CursorRecord
  <1> QED
    BY <1>1, <1>2, <1>3, <1>4, PatchIs

(* The event an enrolment has not had and a pass does not take now, though *)
(* the pass's cursor reaches it, is not before the events it takes.        *)
LEMMA ChoiceLeavesRoom ==
  ASSUME CoreInv, LastInv, NEW p \in Pass, pass[p].at = "query", Reaches(pass[p].started),
         ~(Cardinality(Since(ledger, FromOf(p))) > MAX_POST),
         NEW e \in Unsent \ fitting(FreshOf(p)), NEW b \in fitting(FreshOf(p))
  PROVE  e.at >= b.at - OVERLAP
  <1>1. /\ EventType /\ IdInv /\ TimeInv /\ EnrolType /\ AccountInv /\ pass[p] \in PassRecord
    BY DEF CoreInv, BaseInv, PassType
  <1>2. /\ b \in ledger /\ e \in All /\ e.owner = N
    BY DEF fitting, FreshOf, query, Since, Unsent
  <1>3. /\ e.at \in Nat /\ b.at \in Nat /\ b.at <= now /\ now \in Nat /\ OVERLAP \in Nat
    BY <1>1, <1>2, PushAssumption DEF EventType, EventRecord, TimeInv, All
  <1>4. CASE e \in stamped
    <2>1. e.at + OVERLAP >= now
      BY <1>1, <1>4 DEF IdInv
    <2> QED
      BY <1>3, <2>1
  <1>5. CASE e \in ledger
    <2>1. /\ pass[p].acct \in AccountFile /\ Ours(pass[p].acct)
          /\ pass[p].started \in CursorRecord
      BY <1>1 DEF AccountInv, PassRecord
    <2>2. pass[p].acct.enrolledAt \in Nat /\ pass[p].started.through \in Nat
      BY <2>1 DEF AccountFile, CursorRecord
    <2>3. N \in Nat /\ N > 0 /\ enrolled[N] \in Nat
      BY <1>1 DEF EnrolType, N
    <2>4. e.at >= enrolled[N]
      BY <1>1, <1>2, <2>3 DEF IdInv, N
    <2>5. pass[p].acct.enrolledAt <= enrolled[N]
      BY <2>1 DEF Ours, LastInv, N
    <2>6. e.at >= pass[p].started.through - OVERLAP /\ e \notin pass[p].started.sent
      BY DEF Reaches
    <2>7. /\ FromOf(p) = pass[p].acct.enrolledAt \/ FromOf(p) = pass[p].started.through - OVERLAP
      BY <2>2, FromIs DEF FromOf
    <2>8. e.at >= FromOf(p)
      BY <1>3, <2>2, <2>3, <2>4, <2>5, <2>6, <2>7
    <2>9. e \in query(ledger, FromOf(p))
      BY <1>1, <1>5, <2>8, QueryIsAll DEF Since
    <2>10. e \in FreshOf(p) \ fitting(FreshOf(p))
      BY <2>6, <2>9 DEF FreshOf
    <2>11. FreshOf(p) \in SUBSET EventRecord
      BY <1>1 DEF FreshOf, query, Since, EventType
    <2>12. b.at <= e.at
      BY <2>10, <2>11, BatchIsABeginning
    <2> QED
      BY <1>3, <2>12
  <1> QED
    BY <1>2, <1>4, <1>5 DEF All

(* A step of a pass skips nothing.                                         *)
LEMMA SkipPass ==
  ASSUME CoreInv, LastInv, SkipInv, NEW p \in Pass, PassKind(p), Still
  PROVE  SkipInv'
  <1> SUFFICES ASSUME Spoilt' = {}
               PROVE  /\ account' # None => account'.n = N'
                      /\ Reaches(cursor)'
                      /\ \A q \in Pass : LeavesRoom(q)'
    BY DEF SkipInv
  <1> DEFINE U == Unsent'
             R(c) == \A e \in U : e.at >= c.through - OVERLAP /\ e \notin c.sent
             T(s, b) == \A e \in U \ b : e.at >= sentThrough(s, b) - OVERLAP
  <1>1. /\ marred \subseteq marred'
        /\ Spoilt = {} /\ "overfull" \notin marred' /\ "strayed" \notin marred'
        /\ "revived" \notin marred'
    BY DEF Still, Spoilt
  <1>2. /\ account # None => account.n = N
        /\ Reaches(cursor)
        /\ \A q \in Pass : LeavesRoom(q)
    BY <1>1 DEF SkipInv
  <1>3. N' = N /\ All' = All
    BY DEF Still, N, All
  <1>4. got \subseteq got'
    BY KindGets
  <1>5. U \subseteq Unsent
    BY <1>3, <1>4 DEF Unsent
  <1>u. \A e \in U : e.at \in Nat
    BY <1>5 DEF Unsent, CoreInv, BaseInv, EventType, EventRecord, All
  <1>6. \A c : Reaches(c) => R(c)
    BY <1>5, ReachesOn
  <1>7. SameButFor(p) /\ AccountGoes(p)
    BY KindHolds
  <1>8. account' # None => account'.n = N'
    <2>1. CASE account' = account
      BY <1>2, <1>3, <2>1
    <2>2. CASE account' # account
      <3>1. /\ account'.n = pass[p].acct.n
            /\ Revives(pass[p].acct) => "revived" \in marred'
        BY <1>7, <2>2 DEF AccountGoes
      <3>2. account # None /\ account.n = pass[p].acct.n
        BY <1>1, <3>1 DEF Revives
      <3> QED
        BY <1>2, <1>3, <3>1, <3>2
    <2> QED
      BY <2>1, <2>2
  <1>9. /\ R(pass[p].started) /\ R(pass[p].merged) /\ R(cursor)
        /\ \A e \in pass[p].batch : e.owner <= pass[p].acct.n
        /\ T(pass[p].started, pass[p].batch)
        /\ pass[p].at \in {"merge", "merged"} => U \cap pass[p].batch = {}
    BY <1>2, <1>5, <1>6 DEF LeavesRoom
  <1>10. R(NoCursor) /\ T(NoCursor, {})
    <2>1. OVERLAP \in Nat
      BY PushAssumption
    <2>2. \A e \in U : e.at >= 0 - OVERLAP
      BY <1>u, <2>1
    <2> QED
      BY <2>2, IdleIs DEF sentThrough
  <1>11. \A s, t, b : b # {} /\ T(s, b) => T(t, b)
    BY DEF sentThrough
  <1>12. \A s : R(s) => T(s, {})
    BY DEF sentThrough
  <1> HIDE DEF U, R, T
  <1>13. Reaches(cursor)'
    <2> SUFFICES R(cursor')
      BY DEF Reaches, R, U
    <2>1. CASE cursor' = cursor
      BY <1>9, <2>1
    <2>2. CASE Merges(p)
      <3>1. /\ cursor'.through = sentThrough(pass[p].started, pass[p].batch)
            /\ cursor'.sent \subseteq pass[p].started.sent \cup pass[p].batch
            /\ U \cap pass[p].batch = {}
        BY <1>9, <2>2 DEF Merges, stillOverlapping
      <3>2. ASSUME NEW e \in U PROVE e.at >= cursor'.through - OVERLAP /\ e \notin cursor'.sent
        BY <1>9, <3>1 DEF T, R
      <3> QED
        BY <3>2 DEF R
    <2>3. CASE Reported(p)
      BY <1>9, <2>3 DEF Reported, R
    <2> QED
      BY <2>1, <2>2, <2>3 DEF PassKind, Walks, Stops, Begins, TakesCursor, Clears, Lands,
                              Rereads, Reports, PartLands, GivesUp, Chooses, Marking
  <1>14. LeavesRoom(p)'
    <2> SUFFICES /\ R(pass'[p].started) /\ R(pass'[p].merged)
                 /\ \A e \in pass'[p].batch : e.owner <= pass'[p].acct.n
                 /\ T(pass'[p].started, pass'[p].batch)
                 /\ pass'[p].at \in {"merge", "merged"} => U \cap pass'[p].batch = {}
      BY DEF LeavesRoom, Reaches, R, T, U
    <2>1. CASE Walks(p) \/ Reports(p) \/ PartLands(p) \/ GivesUp(p)
      BY <1>9, <2>1 DEF Walks, GoesOn, Reports, PartLands, GivesUp, Sending
    <2>2. CASE Stops(p) \/ Merges(p) \/ Reported(p) \/ Marking(p)
      <3>1. /\ pass'[p].started = NoCursor /\ pass'[p].merged = NoCursor /\ pass'[p].batch = {}
            /\ pass'[p].at \notin {"merge", "merged"}
        BY <2>2, IdleIs DEF Stops, Becomes, Merges, Reported, Marking, Bare
      <3> QED
        BY <1>10, <3>1
    <2>3. CASE Begins(p)
      <3>1. pass[p].batch = {}
        BY <2>3 DEF Begins, CoreInv, BatchInv
      <3> QED
        BY <1>9, <2>3, <3>1 DEF Begins
    <2>4. CASE TakesCursor(p)
      BY <1>9, <1>11, <1>12, <2>4 DEF TakesCursor
    <2>5. CASE Clears(p)
      BY <1>9, <1>10, <1>11, <1>12, <2>5 DEF Clears
    <2>6. CASE Chooses(p)
      <3> DEFINE batch == fitting(FreshOf(p))
      <3>1. /\ pass'[p].batch = batch /\ pass'[p].started = pass[p].started
            /\ pass'[p].merged = pass[p].merged /\ pass'[p].acct = pass[p].acct
            /\ pass'[p].at = "post" /\ pass[p].at = "query"
            /\ ~(Cardinality(Since(ledger, FromOf(p))) > MAX_POST)
            /\ ~ \E e \in batch : e.owner > pass[p].acct.n
        BY <1>1, <2>6 DEF Chooses
      <3>2. batch \subseteq ledger /\ batch \subseteq EventRecord
        BY DEF fitting, FreshOf, query, Since, CoreInv, BaseInv, EventType
      <3>3. \A e \in batch : e.owner <= pass[p].acct.n
        <4>1. pass[p].acct \in AccountFile
          BY <3>1 DEF CoreInv, BaseInv, PassType, PassRecord, AccountInv
        <4>2. pass[p].acct.n \in Nat
          BY <4>1 DEF AccountFile
        <4>3. \A e \in batch : e.owner \in Nat
          BY <3>2 DEF EventRecord
        <4> QED
          BY <3>1, <4>2, <4>3
      <3>4. T(pass[p].started, batch)
        <4>1. CASE batch = {}
          BY <1>9, <1>12, <4>1
        <4>2. CASE batch # {}
          <5>1. /\ now \in Nat /\ \A e \in batch : e.at <= now
            BY <3>2 DEF CoreInv, BaseInv, EventType, TimeInv, All
          <5>2. PICK b \in batch : b.at = sentThrough(pass[p].started, batch)
            BY <3>2, <4>2, <5>1, SentRange, PatchIs
          <5>3. Reaches(pass[p].started)
            BY <1>2 DEF LeavesRoom
          <5>4. ASSUME NEW e \in Unsent \ batch PROVE e.at >= b.at - OVERLAP
            BY <3>1, <5>3, ChoiceLeavesRoom
          <5> QED
            BY <1>5, <5>2, <5>4 DEF T
        <4> QED
          BY <4>1, <4>2
      <3> HIDE DEF batch
      <3> QED
        BY <1>9, <3>1, <3>3, <3>4
    <2>7. CASE Lands(p)
      <3>1. /\ pass'[p].batch = pass[p].batch /\ pass'[p].started = pass[p].started
            /\ pass'[p].merged = pass[p].merged /\ pass'[p].acct = pass[p].acct
            /\ got' = got \cup EventRows(p) /\ pass[p].at = "post"
        BY <2>7 DEF Lands, GoesOn
      <3>2. ASSUME NEW e \in U \cap pass[p].batch PROVE FALSE
        <4>1. e.owner = N /\ EventRow(N, e.id) \notin got'
          BY <1>3 DEF U, Unsent
        <4>2. e.owner <= pass[p].acct.n /\ pass[p].acct.n \in 1 .. N
          BY <1>9, <3>1 DEF CoreInv, BaseInv, AccountInv, Ours, N
        <4>3. N \in Nat
          BY DEF CoreInv, BaseInv, EnrolType, N
        <4>4. pass[p].acct.n = N
          BY <4>1, <4>2, <4>3
        <4>5. EventRow(N, e.id) \in EventRows(p)
          BY <4>4 DEF EventRows
        <4> QED
          BY <3>1, <4>1, <4>5
      <3> QED
        BY <1>9, <3>1, <3>2
    <2>8. CASE Rereads(p)
      BY <1>9, <2>8 DEF Rereads
    <2> QED
      BY <2>1, <2>2, <2>3, <2>4, <2>5, <2>6, <2>7, <2>8 DEF PassKind
  <1>15. ASSUME NEW q \in Pass \ {p} PROVE LeavesRoom(q)'
    <2>1. pass'[q] = pass[q]
      BY <1>7 DEF SameButFor
    <2>2. LeavesRoom(q)
      BY <1>2
    <2> QED
      BY <1>5, <2>1, <2>2 DEF LeavesRoom, Reaches, U
  <1> QED
    BY <1>8, <1>13, <1>14, <1>15

(* Nor does a step around them.                                            *)
LEMMA SkipAround ==
  ASSUME CoreInv, SkipInv, Apart, AroundKind
  PROVE  SkipInv'
  <1> SUFFICES ASSUME Spoilt' = {}
               PROVE  /\ account' # None => account'.n = N'
                      /\ Reaches(cursor)'
                      /\ \A q \in Pass : LeavesRoom(q)'
    BY DEF SkipInv
  <1>1. /\ cursor' = cursor /\ pass' = pass /\ got' = got /\ Spoilt = {}
    BY DEF Apart, Spoilt
  <1>2. /\ account # None => account.n = N
        /\ Reaches(cursor)
        /\ \A q \in Pass : LeavesRoom(q)
    BY <1>1 DEF SkipInv
  <1>3. CASE Unsent' \subseteq Unsent
    <2>1. Reaches(cursor)' /\ \A q \in Pass : LeavesRoom(q)'
      BY <1>1, <1>2, <1>3 DEF Reaches, LeavesRoom
    <2>2. account' # None => account'.n = N'
      <3>1. CASE Enrols
        <4>1. enrolled \in Seq(Nat) /\ enrolled' = Append(enrolled, now)
          BY <3>1 DEF CoreInv, BaseInv, EnrolType, Enrols
        <4>2. Len(enrolled') = Len(enrolled) + 1
          BY <4>1
        <4> QED
          BY <3>1, <4>2 DEF Enrols, Enrolment, N
      <3>2. CASE ~Enrols
        BY <1>2, <3>2 DEF AroundKind, Stamps, Appends, Ticks, Leaves, Elsewhere, N
      <3> QED
        BY <3>1, <3>2
    <2> QED
      BY <2>1, <2>2
  <1>4. CASE Stamps
    <2>1. /\ All' = All \cup {NewEvent} /\ N' = N /\ account' = account
      BY <1>4 DEF Stamps, NewEvent, All, N
    <2>2. Unsent' \subseteq Unsent \cup {NewEvent}
      BY <1>1, <2>1 DEF Unsent
    <2>3. NewEvent \notin ledger /\ NewEvent.at = now /\ now \in Nat /\ OVERLAP \in Nat
      BY NewEventIs, PushAssumption DEF All, CoreInv, BaseInv, EventType
    <2>4. ASSUME NEW c \in CursorRecord, Behind(c), Reaches(c)
          PROVE  \A e \in Unsent' : e.at >= c.through - OVERLAP /\ e \notin c.sent
      <3>1. c.through \in Nat
        BY DEF CursorRecord
      <3>2. NewEvent.at >= c.through - OVERLAP /\ NewEvent \notin c.sent
        BY <2>3, <2>4, <3>1 DEF Behind
      <3> QED
        BY <2>2, <2>4, <3>2 DEF Reaches
    <2>5. Reaches(cursor)'
      <3>1. cursor \in CursorRecord /\ Behind(cursor)
        BY DEF CoreInv, BaseInv, CursorType, CopiesInv
      <3> QED
        BY <1>1, <1>2, <2>4, <3>1 DEF Reaches
    <2>6. ASSUME NEW q \in Pass PROVE LeavesRoom(q)'
      <3>1. /\ pass[q].started \in CursorRecord /\ pass[q].merged \in CursorRecord
            /\ Behind(pass[q].started) /\ Behind(pass[q].merged)
            /\ pass[q].batch \subseteq ledger
        BY DEF CoreInv, BaseInv, PassType, PassRecord, CopiesInv, BatchInv
      <3>2. LeavesRoom(q)
        BY <1>2
      <3>3. /\ \A e \in Unsent' : e.at >= pass[q].started.through - OVERLAP
                                  /\ e \notin pass[q].started.sent
            /\ \A e \in Unsent' : e.at >= pass[q].merged.through - OVERLAP
                                  /\ e \notin pass[q].merged.sent
        BY <2>4, <3>1, <3>2 DEF LeavesRoom
      <3> DEFINE t == sentThrough(pass[q].started, pass[q].batch)
      <3>4. t \in 0 .. now
        BY SentRange
      <3> HIDE DEF t
      <3>5. NewEvent.at >= t - OVERLAP
        BY <2>3, <3>4
      <3>6. \A e \in Unsent' \ pass[q].batch : e.at >= t - OVERLAP
        BY <2>2, <3>2, <3>5 DEF LeavesRoom, t
      <3>7. pass[q].at \in {"merge", "merged"} => Unsent' \cap pass[q].batch = {}
        BY <2>2, <2>3, <3>1, <3>2 DEF LeavesRoom
      <3> QED
        BY <1>1, <3>2, <3>3, <3>6, <3>7 DEF LeavesRoom, Reaches, t
    <2> QED
      BY <1>2, <2>1, <2>5, <2>6
  <1>5. CASE Enrols
    <2>1. now \in Nat /\ EnrolType /\ IdInv
      BY DEF CoreInv, BaseInv, EventType
    <2>2. N' = N + 1 /\ N \in Nat /\ All' = All
      BY <1>5, <2>1 DEF Enrols, EnrolType, N, All
    <2>3. ASSUME NEW e \in All PROVE e.owner # N + 1
      <3>1. e.owner \in Nat
        BY DEF CoreInv, BaseInv, EventType, EventRecord, All
      <3> QED
        BY <2>1, <2>2, <3>1 DEF IdInv, N
    <2>4. Unsent' = {}
      BY <2>2, <2>3 DEF Unsent
    <2> QED
      BY <1>3, <2>4
  <1>6. CASE Ticks \/ Leaves \/ Elsewhere \/ \E e \in stamped : Appends(e)
    <2>1. All' = All /\ N' = N
      BY <1>6 DEF Ticks, Leaves, Elsewhere, Appends, All, N
    <2>2. Unsent' = Unsent
      BY <1>1, <2>1 DEF Unsent
    <2> QED
      BY <1>3, <2>2
  <1> QED
    BY <1>4, <1>5, <1>6 DEF AroundKind

(* pushEvents: whatever passes, crashes, lost posts and enrolments come    *)
(* together, an event its workspace has not had is one the next pass still *)
(* reads, unless a read met too much or an old enrolment's pass took it.   *)
THEOREM NoneSkipped == Spec => []NothingSkipped
  <1> DEFINE I == CoreInv /\ LastInv /\ SkipInv
  <1>1. Init => I
    <2> SUFFICES ASSUME Init PROVE LastInv /\ SkipInv
      BY CoreInit
    <2>1. /\ stamped = {} /\ ledger = {} /\ enrolled = <<1>> /\ account = Enrolment(1, 1)
          /\ pass = [p \in Pass |-> Idle]
      BY DEF Init
    <2>2. N = 1 /\ Unsent = {} /\ account.n = 1
      BY <2>1 DEF N, Unsent, All, Enrolment
    <2>3. LastInv
      BY <2>1, <2>2 DEF LastInv
    <2>4. \A p \in Pass : pass[p] = Idle
      BY <2>1
    <2>5. SkipInv
      BY <2>2, <2>4, IdleIs DEF SkipInv, Reaches, LeavesRoom
    <2> QED
      BY <2>3, <2>5
  <1>2. I /\ [Next]_vars => I'
    <2> SUFFICES ASSUME I, [Next]_vars PROVE I'
      OBVIOUS
    <2>1. CoreInv' /\ LastInv'
      BY CoreStep, LastStep
    <2>2. CASE Around
      BY <2>1, <2>2, AroundKinds, SkipAround DEF CoreInv
    <2>3. ASSUME NEW p \in Pass, Starts(p) \/ PassStep(p) \/ Dies(p) PROVE SkipInv'
      BY <2>3, PassKinds, SkipPass
    <2>4. CASE UNCHANGED vars
      BY <2>1, <2>4 DEF vars, local, cloud, history, SkipInv, Spoilt, Reaches, LeavesRoom,
                        Unsent, All, N
    <2> QED
      BY <2>1, <2>2, <2>3, <2>4 DEF Next
  <1>3. I => NothingSkipped
    <2> SUFFICES ASSUME CoreInv, SkipInv, account # None, Spoilt = {},
                        NEW e \in ledger, e.owner = account.n, EventRow(e.owner, e.id) \notin got
                 PROVE  /\ e.at >= pushFrom(cursor.through, account.enrolledAt)
                        /\ e \notin cursor.sent
      BY DEF NothingSkipped, Spoilt
    <2>1. account.n = N /\ Reaches(cursor)
      BY DEF SkipInv
    <2>2. e \in Unsent
      BY <2>1 DEF Unsent, All
    <2>3. e.at >= cursor.through - OVERLAP /\ e \notin cursor.sent
      BY <2>1, <2>2 DEF Reaches
    <2>4. account \in AccountFile /\ Ours(account) /\ cursor \in CursorRecord
      BY DEF CoreInv, BaseInv, AccountType, AccountInv, CursorType
    <2>5. account.enrolledAt \in Nat /\ cursor.through \in Nat
      BY <2>4 DEF AccountFile, CursorRecord
    <2>6. e.at >= account.enrolledAt
      BY <2>4 DEF Ours, CoreInv, IdInv, All
    <2> QED
      BY <2>3, <2>5, <2>6, FromIs
  <1> HIDE DEF I
  <1> QED
    BY <1>1, <1>2, <1>3, PTL DEF Spec

----------------------------------------------------------------------------
(* No row goes twice without a cause: while no request or process failed,  *)
(* no two passes overlapped and the cursor did not go back, what arrived   *)
(* is behind the cursor or in the hands of the one pass under way.         *)

Upset == marred \cap {"fault", "overlap", "rewound"}

(* A pass from this cursor does not read it. *)
PastIt(e, c) == e \in c.sent \/ e.at < c.through - OVERLAP

Holds(p, e) == pass[p].at \in {"merge", "merged"} /\ e \in pass[p].batch

HoldsPart(p, r) ==
    /\ pass[p].acct.n = r.n /\ pass[p].version = r.id
    /\ \/ pass[p].at = "chunk" /\ r.part < pass[p].chunk
       \/ pass[p].at \in {"remerge", "remerged"}

UpToDate(p) ==
    /\ pass[p].at \in {"query", "post", "merge", "merged"} => pass[p].started = cursor
    /\ pass[p].at \in {"merged", "remerged"} => pass[p].merged = cursor
    /\ pass[p].at \in {"chunk", "remerge", "remerged"} =>
          cursor.report < pass[p].version /\ pass[p].version <= report
    /\ pass[p].at = "post" => EventRows(p) \cap got = {}

OnceInv ==
    Upset = {} =>
        /\ ~again
        /\ cursor.report <= report
        /\ \A p, q \in Pass : pass[p].at # "idle" /\ pass[q].at # "idle" => p = q
        /\ \A p \in Pass : UpToDate(p)
        /\ \A r \in got : r.kind = "event" =>
              \A e \in ledger : e.id = r.id =>
                  PastIt(e, cursor) \/ \E p \in Pass : Holds(p, e)
        /\ \A r \in got : r.kind = "report" =>
              r.n \in refused \/ r.id <= cursor.report \/ \E p \in Pass : HoldsPart(p, r)

(* Report rows have numbers.                                               *)
RowsInv == \A r \in got : r.kind = "report" => r.id \in Nat /\ r.part \in Nat

(* No step changes that.                                                   *)
LEMMA RowsStep ==
  ASSUME CoreInv, RowsInv, [Next]_vars
  PROVE  RowsInv'
  <1>1. CASE Around
    BY <1>1, AroundKinds DEF CoreInv, Apart, RowsInv
  <1>2. ASSUME NEW p \in Pass, Starts(p) \/ PassStep(p) \/ Dies(p) PROVE RowsInv'
    <2>1. PassKind(p)
      BY <1>2, PassKinds
    <2>2. pass[p].version \in Nat /\ pass[p].chunk \in Nat
      BY DEF CoreInv, BaseInv, PassType, PassRecord
    <2>3. \A r \in EventRows(p) : r.kind # "report"
      BY RowIs DEF EventRows
    <2>4. \A r \in ReportRows(p) : r.id \in Nat /\ r.part \in Nat
      BY <2>2, RowIs DEF ReportRows
    <2> QED
      BY <2>1, <2>3, <2>4, KindGets DEF RowsInv
  <1>3. CASE UNCHANGED vars
    BY <1>3 DEF vars, cloud, RowsInv
  <1> QED
    BY <1>1, <1>2, <1>3 DEF Next

(* A step around the passes.                                               *)
LEMMA OnceAround ==
  ASSUME CoreInv, GotInv, OnceInv, Apart, AroundKind
  PROVE  OnceInv'
  <1> SUFFICES ASSUME Upset' = {}
               PROVE  /\ ~again'
                      /\ cursor'.report <= report'
                      /\ \A p, q \in Pass : pass'[p].at # "idle" /\ pass'[q].at # "idle" => p = q
                      /\ \A p \in Pass : UpToDate(p)'
                      /\ \A r \in got' : r.kind = "event" =>
                            \A e \in ledger' : e.id = r.id =>
                                PastIt(e, cursor') \/ \E p \in Pass : Holds(p, e)'
                      /\ \A r \in got' : r.kind = "report" =>
                            \/ r.n \in refused' \/ r.id <= cursor'.report
                            \/ \E p \in Pass : HoldsPart(p, r)'
    BY DEF OnceInv, PastIt, Holds, HoldsPart
  <1>1. UNCHANGED <<cursor, pass, got, again, marred>>
    BY DEF Apart
  <1>2. /\ ~again /\ cursor.report <= report
        /\ \A p, q \in Pass : pass[p].at # "idle" /\ pass[q].at # "idle" => p = q
        /\ \A p \in Pass : UpToDate(p)
        /\ \A r \in got : r.kind = "event" =>
              \A e \in ledger : e.id = r.id =>
                  PastIt(e, cursor) \/ \E p \in Pass : Holds(p, e)
        /\ \A r \in got : r.kind = "report" =>
              r.n \in refused \/ r.id <= cursor.report \/ \E p \in Pass : HoldsPart(p, r)
    BY <1>1 DEF OnceInv, Upset
  <1>3. refused \subseteq refused' /\ report' \in {report, report + 1}
    BY DEF AroundKind, Stamps, Ticks, Enrols, Leaves, Elsewhere, Appends
  <1>4. cursor.report \in Nat /\ report \in Nat /\ \A p \in Pass : pass[p].version \in Nat
    BY DEF CoreInv, BaseInv, CursorType, CursorRecord, PassType, PassRecord
  <1>5. cursor'.report <= report'
    BY <1>1, <1>2, <1>3, <1>4
  <1>6. ASSUME NEW p \in Pass PROVE UpToDate(p)'
    <2>1. UpToDate(p)
      BY <1>2
    <2>2. pass[p].version <= report => pass[p].version <= report'
      BY <1>3, <1>4
    <2> QED
      BY <1>1, <2>1, <2>2 DEF UpToDate, EventRows
  <1>7. ASSUME NEW r \in got, r.kind = "event", NEW e \in ledger', e.id = r.id
        PROVE  e \in ledger
    <2>1. PICK f \in ledger : f.id = r.id
      BY <1>7 DEF GotInv
    <2>2. e \in All
      BY <1>7 DEF AroundKind, Stamps, Ticks, Enrols, Leaves, Elsewhere, Appends, All
    <2>3. f = e
      BY <1>7, <2>1, <2>2 DEF CoreInv, IdInv, All
    <2> QED
      BY <2>3
  <1> QED
    BY <1>1, <1>2, <1>3, <1>5, <1>6, <1>7 DEF Holds, HoldsPart

(* A step of a pass.                                                       *)
LEMMA OncePass ==
  ASSUME CoreInv, OnceInv, RowsInv, NEW p \in Pass, PassKind(p), Still
  PROVE  OnceInv'
  <1> SUFFICES ASSUME Upset' = {}
               PROVE  /\ ~again'
                      /\ cursor'.report <= report'
                      /\ \A q, s \in Pass : pass'[q].at # "idle" /\ pass'[s].at # "idle" => q = s
                      /\ \A q \in Pass : UpToDate(q)'
                      /\ \A r \in got' : r.kind = "event" =>
                            \A e \in ledger' : e.id = r.id =>
                                PastIt(e, cursor') \/ \E q \in Pass : Holds(q, e)'
                      /\ \A r \in got' : r.kind = "report" =>
                            \/ r.n \in refused' \/ r.id <= cursor'.report
                            \/ \E q \in Pass : HoldsPart(q, r)'
    BY DEF OnceInv, PastIt, Holds, HoldsPart
  <1>0. /\ Upset = {} /\ "fault" \notin marred' /\ "overlap" \notin marred'
        /\ "rewound" \notin marred'
    BY DEF Still, Upset
  <1>1. /\ ~again /\ cursor.report <= report
        /\ \A q, s \in Pass : pass[q].at # "idle" /\ pass[s].at # "idle" => q = s
        /\ \A q \in Pass : UpToDate(q)
        /\ \A r \in got : r.kind = "event" =>
              \A e \in ledger : e.id = r.id =>
                  PastIt(e, cursor) \/ \E q \in Pass : Holds(q, e)
        /\ \A r \in got : r.kind = "report" =>
              r.n \in refused \/ r.id <= cursor.report \/ \E q \in Pass : HoldsPart(q, r)
    BY <1>0 DEF OnceInv
  <1>2. /\ UNCHANGED <<ledger, report, refused, enrolled>>
    BY DEF Still
  <1>3. SameButFor(p)
    BY KindHolds
  <1>4. pass[p] \in PassRecord /\ cursor \in CursorRecord /\ report \in Nat
    BY DEF CoreInv, BaseInv, CursorType, PassType
  <1>5. /\ pass[p].version \in Nat /\ pass[p].chunk \in Nat /\ cursor.report \in Nat
        /\ cursor.through \in Nat /\ pass[p].started \in CursorRecord
        /\ pass[p].batch \in SUBSET EventRecord
    BY <1>4 DEF PassRecord, CursorRecord
  (* The pass is the one under way, and the others are idle. *)
  <1>6. \A q \in Pass \ {p} : pass'[q] = pass[q] /\ pass[q].at = "idle"
    <2>1. \A q \in Pass \ {p} : pass'[q] = pass[q]
      BY <1>3 DEF SameButFor
    <2>2. CASE pass[p].at # "idle"
      BY <1>1, <2>1, <2>2
    <2>3. CASE Begins(p)
      BY <1>0, <2>1, <2>3 DEF Begins
    <2> QED
      BY <1>0, <2>2, <2>3
         DEF PassKind, Walks, Stops, TakesCursor, Clears, Chooses, Lands, Rereads, Merges,
             Reports, PartLands, GivesUp, Reported, Marking
  <1>7. \A e : (\E q \in Pass : Holds(q, e)) => Holds(p, e)
    BY <1>6 DEF Holds
  <1>8. \A r : (\E q \in Pass : HoldsPart(q, r)) => HoldsPart(p, r)
    BY <1>6 DEF HoldsPart
  <1>9. \A q \in Pass \ {p} : UpToDate(q)'
    BY <1>6 DEF UpToDate
  <1>10. \A q, s \in Pass : pass'[q].at # "idle" /\ pass'[s].at # "idle" => q = s
    BY <1>6
  <1> DEFINE EventsOK == \A r \in got' : r.kind = "event" =>
                            \A e \in ledger : e.id = r.id => PastIt(e, cursor') \/ Holds(p, e)'
             PartsOK == \A r \in got' : r.kind = "report" =>
                            r.n \in refused \/ r.id <= cursor'.report \/ HoldsPart(p, r)'
  <1>11. SUFFICES ~again' /\ cursor'.report <= report /\ UpToDate(p)' /\ EventsOK /\ PartsOK
    BY <1>2, <1>9, <1>10
  <1> USE DEF EventsOK, PartsOK
  <1>12. UpToDate(p)
    BY <1>1
  <1>13. \A r \in got : r.kind = "event" =>
            \A e \in ledger : e.id = r.id => PastIt(e, cursor) \/ Holds(p, e)
    BY <1>1, <1>7
  <1>14. \A r \in got : r.kind = "report" =>
            r.n \in refused \/ r.id <= cursor.report \/ HoldsPart(p, r)
    BY <1>1, <1>8
  (* The steps in which nothing arrives and the cursor stays. *)
  <1>q. ASSUME UNCHANGED <<cursor, got, again>>, UpToDate(p)',
               pass[p].at \notin {"merge", "merged"},
               pass[p].at \in {"chunk", "remerge", "remerged"} => pass[p].acct.n \in refused
        PROVE  ~again' /\ cursor'.report <= report /\ UpToDate(p)' /\ EventsOK /\ PartsOK
    <2>1. EventsOK
      BY <1>13, <1>q DEF Holds
    <2>2. PartsOK
      BY <1>14, <1>q DEF HoldsPart
    <2> QED
      BY <1>1, <1>q, <2>1, <2>2
  <1>15. CASE Walks(p)
    <2>1. UpToDate(p)'
      BY <1>15 DEF Walks, GoesOn, UpToDate, Sending
    <2> QED
      BY <1>q, <1>15, <2>1 DEF Walks, Merging
  <1>16. CASE Stops(p)
    <2>1. UpToDate(p)'
      BY <1>16, IdleIs DEF Stops, Becomes, UpToDate
    <2> QED
      BY <1>0, <1>q, <1>16, <2>1 DEF Stops, Sending
  <1>17. CASE Begins(p) \/ Clears(p) \/ Marking(p)
    <2>1. UpToDate(p)'
      BY <1>17 DEF Begins, Clears, Marking, Bare, UpToDate
    <2> QED
      BY <1>q, <1>17, <2>1 DEF Begins, Clears, Marking
  <1>18. CASE TakesCursor(p)
    <2>1. UpToDate(p)'
      BY <1>18 DEF TakesCursor, UpToDate
    <2> QED
      BY <1>q, <1>18, <2>1 DEF TakesCursor
  <1>19. CASE Chooses(p)
    <2>1. /\ pass[p].at = "query" /\ pass'[p].at = "post" /\ pass'[p].started = pass[p].started
          /\ pass'[p].batch = fitting(FreshOf(p)) /\ pass'[p].acct = pass[p].acct
          /\ UNCHANGED <<cursor, got, again>>
      BY <1>19 DEF Chooses
    <2>2. pass[p].started = cursor
      BY <1>12, <2>1 DEF UpToDate
    <2>3. ASSUME NEW e \in fitting(FreshOf(p)), EventRow(pass[p].acct.n, e.id) \in got
          PROVE  FALSE
      <3>1. e \in ledger /\ e.at >= FromOf(p) /\ e \notin cursor.sent
        BY <2>2 DEF fitting, FreshOf, query, Since
      <3>2. PastIt(e, cursor)
        BY <1>13, <2>1, <2>3, <3>1, RowIs DEF Holds
      <3>3. e.at < cursor.through - OVERLAP
        BY <3>1, <3>2 DEF PastIt
      <3>4. e.at \in Nat /\ OVERLAP \in Nat
        BY <3>1, PushAssumption DEF CoreInv, BaseInv, EventType, EventRecord
      <3>5. pass[p].acct \in AccountFile
        BY <1>4, <2>1 DEF PassRecord, CoreInv, BaseInv, AccountInv
      <3>6. FromOf(p) >= cursor.through - OVERLAP /\ FromOf(p) \in Int
        BY <1>5, <2>2, <3>5, FromIs DEF FromOf, AccountFile
      <3> QED
        BY <1>5, <3>1, <3>3, <3>4, <3>6
    <2>4. EventRows(p)' \cap got' = {}
      BY <2>1, <2>3 DEF EventRows
    <2>5. UpToDate(p)'
      BY <2>1, <2>2, <2>4 DEF UpToDate
    <2> QED
      BY <1>q, <2>1, <2>5
  <1>20. CASE Reports(p)
    <2>1. UpToDate(p)'
      BY <1>1, <1>2, <1>4, <1>5, <1>20 DEF Reports, UpToDate
    <2> QED
      BY <1>q, <1>20, <2>1 DEF Reports
  <1>21. CASE GivesUp(p)
    BY <1>0, <1>21 DEF GivesUp
  <1>22. CASE Rereads(p)
    <2>1. /\ UNCHANGED <<cursor, got, again>> /\ pass'[p].batch = pass[p].batch
          /\ pass'[p].merged = cursor /\ pass'[p].started = pass[p].started
          /\ pass'[p].acct = pass[p].acct /\ pass'[p].version = pass[p].version
          /\ pass'[p].chunk = pass[p].chunk
          /\ \/ pass[p].at = "merge" /\ pass'[p].at = "merged"
             \/ pass[p].at = "remerge" /\ pass'[p].at = "remerged"
      BY <1>22 DEF Rereads
    <2>2. UpToDate(p)'
      BY <1>2, <1>12, <2>1 DEF UpToDate
    <2>3. EventsOK
      BY <1>13, <2>1 DEF Holds
    <2>4. PartsOK
      BY <1>14, <2>1 DEF HoldsPart
    <2> QED
      BY <1>1, <2>1, <2>2, <2>3, <2>4
  <1>23. CASE Lands(p)
    <2>1. /\ pass[p].at = "post" /\ pass'[p].at = "merge" /\ pass'[p].batch = pass[p].batch
          /\ pass'[p].started = pass[p].started /\ cursor' = cursor
          /\ got' = got \cup EventRows(p) /\ again' = (again \/ EventRows(p) \cap got # {})
      BY <1>23 DEF Lands, GoesOn
    <2>2. ~again'
      BY <1>1, <1>12, <2>1 DEF UpToDate
    <2>3. UpToDate(p)'
      BY <1>12, <2>1 DEF UpToDate
    <2>4. EventsOK
      <3>1. ASSUME NEW r \in EventRows(p), NEW e \in ledger, e.id = r.id PROVE Holds(p, e)'
        <4>1. PICK b \in pass[p].batch : r = EventRow(pass[p].acct.n, b.id)
          BY DEF EventRows
        <4>2. b \in ledger /\ r.id = b.id
          BY <4>1, RowIs DEF CoreInv, BatchInv
        <4>3. b = e
          BY <3>1, <4>2 DEF CoreInv, IdInv, All
        <4> QED
          BY <2>1, <4>3 DEF Holds
      <3> QED
        BY <1>13, <2>1, <3>1 DEF Holds
    <2>5. PartsOK
      <3>1. \A r \in EventRows(p) : r.kind # "report"
        BY RowIs DEF EventRows
      <3> QED
        BY <1>14, <2>1, <3>1 DEF HoldsPart
    <2> QED
      BY <1>1, <2>1, <2>2, <2>3, <2>4, <2>5
  <1>24. CASE PartLands(p)
    <2>1. /\ pass[p].at = "chunk" /\ pass[p].acct.n \notin refused
          /\ \/ pass'[p].at = "chunk" /\ pass'[p].chunk = pass[p].chunk + 1
             \/ pass'[p].at = "remerge"
          /\ pass'[p].acct = pass[p].acct /\ pass'[p].version = pass[p].version
          /\ cursor' = cursor
          /\ got' = got \cup ReportRows(p) /\ again' = (again \/ ReportRows(p) \cap got # {})
      BY <1>24 DEF PartLands
    <2>r. PICK row : row = ReportRow(pass[p].acct.n, pass[p].version, pass[p].chunk)
      OBVIOUS
    <2>2. /\ row.n = pass[p].acct.n /\ row.id = pass[p].version /\ row.part = pass[p].chunk
          /\ row.kind = "report" /\ row.kind # "event" /\ ReportRows(p) = {row}
      BY <2>r, RowIs DEF ReportRows
    <2>3. cursor.report < pass[p].version /\ pass[p].version <= report
      BY <1>12, <2>1 DEF UpToDate
    <2>4. row \notin got
      <3>1. ~HoldsPart(p, row)
        BY <1>5, <2>1, <2>2 DEF HoldsPart
      <3>2. ~(row.id <= cursor.report)
        BY <1>5, <2>2, <2>3
      <3> QED
        BY <1>14, <2>1, <2>2, <3>1, <3>2
    <2>5. ~again'
      BY <1>1, <2>1, <2>2, <2>4
    <2>6. UpToDate(p)'
      BY <1>2, <2>1, <2>3 DEF UpToDate
    <2>7. EventsOK
      BY <1>13, <2>1, <2>2 DEF Holds
    <2>8. HoldsPart(p, row)'
      BY <1>5, <2>1, <2>2 DEF HoldsPart
    <2>9. ASSUME NEW r \in got, r.kind = "report", HoldsPart(p, r) PROVE HoldsPart(p, r)'
      <3>1. r.part \in Nat
        BY <2>9 DEF RowsInv
      <3> QED
        BY <1>5, <2>1, <2>9, <3>1 DEF HoldsPart
    <2>10. PartsOK
      BY <1>14, <2>1, <2>2, <2>8, <2>9
    <2> QED
      BY <1>1, <2>1, <2>5, <2>6, <2>7, <2>10
  <1>25. CASE Merges(p)
    <2>1. /\ pass[p].at = "merged" /\ pass'[p].at = "report" /\ UNCHANGED <<got, again>>
          /\ cursor' \in CursorRecord
          /\ cursor'.sent = {e \in pass[p].started.sent \cup pass[p].batch :
                               e.at >= cursor'.through - OVERLAP}
          /\ cursor'.report = pass[p].merged.report
          /\ cursor'.through < cursor.through => "rewound" \in marred'
      BY <1>25 DEF Merges, Bare, stillOverlapping
    <2>2. pass[p].started = cursor /\ pass[p].merged = cursor
      BY <1>12, <2>1 DEF UpToDate
    <2>3. UpToDate(p)'
      BY <2>1 DEF UpToDate
    <2>4. cursor'.through \in Nat /\ cursor'.through >= cursor.through /\ OVERLAP \in Nat
      <3>1. cursor'.through \in Nat
        BY <2>1 DEF CursorRecord
      <3> QED
        BY <1>0, <1>5, <2>1, <3>1, PushAssumption
    <2>5. ASSUME NEW e \in ledger, PastIt(e, cursor) \/ Holds(p, e) PROVE PastIt(e, cursor')
      <3>1. e.at \in Nat
        BY DEF CoreInv, BaseInv, EventType, EventRecord
      <3>2. CASE e \in cursor.sent \cup pass[p].batch
        BY <2>1, <2>2, <2>4, <3>1, <3>2 DEF PastIt
      <3>3. CASE e.at < cursor.through - OVERLAP
        <4>1. e.at < cursor'.through - OVERLAP
          BY <1>5, <2>4, <3>1, <3>3
        <4> QED
          BY <4>1 DEF PastIt
      <3> QED
        BY <2>5, <3>2, <3>3 DEF PastIt, Holds
    <2>6. EventsOK
      BY <1>13, <2>1, <2>5
    <2>7. PartsOK
      BY <1>14, <2>1, <2>2 DEF HoldsPart
    <2> QED
      BY <1>1, <2>1, <2>2, <2>3, <2>6, <2>7
  <1>26. CASE Reported(p)
    <2>1. /\ pass[p].at = "remerged" /\ pass'[p].at = "beat" /\ UNCHANGED <<got, again>>
          /\ cursor'.through = pass[p].merged.through /\ cursor'.sent = pass[p].merged.sent
          /\ cursor'.report = pass[p].version
      BY <1>26 DEF Reported, Bare
    <2>2. /\ pass[p].merged = cursor
          /\ cursor.report < pass[p].version /\ pass[p].version <= report
      BY <1>12, <2>1 DEF UpToDate
    <2>3. UpToDate(p)'
      BY <2>1 DEF UpToDate
    <2>4. EventsOK
      BY <1>13, <2>1, <2>2 DEF PastIt, Holds
    <2>5. ASSUME NEW r \in got, r.kind = "report",
                 r.id <= cursor.report \/ HoldsPart(p, r)
          PROVE  r.id <= cursor'.report
      <3>1. r.id \in Nat
        BY <2>5 DEF RowsInv
      <3> QED
        BY <1>5, <2>1, <2>2, <2>5, <3>1 DEF HoldsPart
    <2>6. PartsOK
      BY <1>14, <2>1, <2>5
    <2> QED
      BY <1>1, <2>1, <2>2, <2>3, <2>4, <2>6
  <1> QED
    BY <1>15, <1>16, <1>17, <1>18, <1>19, <1>20, <1>21, <1>22, <1>23, <1>24, <1>25, <1>26
       DEF PassKind

(* recentlySent: no row goes twice to a workspace that has it, unless a    *)
(* request or a process failed, passes overlapped or the cursor went back. *)
THEOREM SentTwiceHasACause == Spec => []SentOnce
  <1> DEFINE I == CoreInv /\ GotInv /\ RowsInv /\ OnceInv
  <1>1. Init => I
    <2> SUFFICES ASSUME Init PROVE GotInv /\ RowsInv /\ OnceInv
      BY CoreInit
    <2>1. /\ got = {} /\ again = FALSE /\ cursor = NoCursor /\ report = 0
          /\ pass = [p \in Pass |-> Idle]
      BY DEF Init
    <2>2. \A p \in Pass : pass[p].at = "idle"
      BY <2>1, IdleIs
    <2>3. \A p \in Pass : UpToDate(p)
      BY <2>2 DEF UpToDate
    <2> QED
      BY <2>1, <2>2, <2>3, IdleIs DEF GotInv, RowsInv, OnceInv
  <1>2. I /\ [Next]_vars => I'
    <2> SUFFICES ASSUME I, [Next]_vars PROVE I'
      OBVIOUS
    <2>1. CoreInv' /\ GotInv' /\ RowsInv'
      BY CoreStep, GotStep, RowsStep
    <2>2. CASE Around
      BY <2>1, <2>2, AroundKinds, OnceAround DEF CoreInv
    <2>3. ASSUME NEW p \in Pass, Starts(p) \/ PassStep(p) \/ Dies(p) PROVE OnceInv'
      BY <2>3, PassKinds, OncePass
    <2>4. CASE UNCHANGED vars
      <3>1. UNCHANGED <<ledger, report, cursor, pass, refused, got, again, marred>>
        BY <2>4 DEF vars, local, cloud, history
      <3> QED
        BY <2>1, <3>1 DEF OnceInv, Upset, UpToDate, EventRows, PastIt, Holds, HoldsPart
    <2> QED
      BY <2>1, <2>2, <2>3, <2>4 DEF Next
  <1>3. I => SentOnce
    BY DEF OnceInv, SentOnce, Upset
  <1> HIDE DEF I
  <1> QED
    BY <1>1, <1>2, <1>3, PTL DEF Spec
=============================================================================
