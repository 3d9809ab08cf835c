----------------------------- MODULE PushCursor -----------------------------
(***************************************************************************)
(* What one pass of the sync sends from the ledger, and where its cursor   *)
(* goes: cli/src/sync/push.ts, push-cursor.ts and action-rows.ts, and the  *)
(* ledger's query in core/src/event/sqlite-store.ts, as operators on sets  *)
(* of events [id, at, owner].  The ledger orders its events by time and    *)
(* then by id, so a list of them is the set it is made of.  An event's     *)
(* session and the approvals it carries follow from its id (Kind).  Times  *)
(* are whole; 0 is no time yet.                                            *)
(***************************************************************************)
EXTENDS FiniteSetsExt

CONSTANTS
    Kind,       \* [id -> [session, approvals]]
    OVERLAP,    \* how far behind its cursor a pass reads (OVERLAP_MS)
    MAX_POST    \* rows in one post, and events in one read

ASSUME PushAssumption == OVERLAP \in Nat /\ MAX_POST \in Nat \ {0}

Earlier(a, b) == a.at < b.at \/ (a.at = b.at /\ a.id < b.id)

\* An event of a list and those before it.
UpTo(events, e) == {f \in events : f = e \/ Earlier(f, e)}

-----------------------------------------------------------------------------
\* Mutants of pushFrom: no minute behind the cursor; no floor.
pushFromCursor(through, enrolledAt) == Max({through, enrolledAt})

pushFromFloorless(through, enrolledAt) ==
    IF through = 0 THEN enrolledAt ELSE through - OVERLAP

\* Where a pass starts: behind the cursor, never before the enrolment.
pushFrom(through, enrolledAt) == Max({through - OVERLAP, enrolledAt})

Since(ledger, from) == {e \in ledger : e.at >= from}

\* SqliteEventStore.query: the newest of them, up to the limit.
query(ledger, from) ==
    LET found == Since(ledger, from)
    IN  {e \in found : Cardinality({f \in found : Earlier(e, f)}) < MAX_POST}

\* An event is a row, its session's first event brings the session's row, and
\* each approval is a row.
RowsOf(events) ==
    Cardinality(events) + Cardinality({Kind[e.id].session : e \in events})
    + Cardinality(UNION {{e} \X (1..Kind[e.id].approvals) : e \in events})

\* Mutant of fitting: a post that is exactly full does not fit.
fittingUnder(events) ==
    {e \in events : \A f \in UpTo(events, e) : RowsOf(UpTo(events, f)) < MAX_POST}

\* The longest beginning that fits in a post: it ends before the first event
\* that does not.
fitting(events) ==
    {e \in events : \A f \in UpTo(events, e) : RowsOf(UpTo(events, f)) <= MAX_POST}

\* Mutant of stillOverlapping: the oldest moment a pass reads is left out.
stillOverlappingShort(sent, through) == {e \in sent : e.at > through - OVERLAP}

\* The sent events the next pass will still read.
stillOverlapping(sent, through) == {e \in sent : e.at >= through - OVERLAP}

\* The part of the cursor pushEvents merges once the batch landed, given the
\* cursor it started from: past what fitting took, and no further.
sentThrough(started, batch) ==
    IF batch = {} THEN started.through ELSE Max({e.at : e \in batch})

pushPatch(started, batch) ==
    LET through == sentThrough(started, batch)
    IN  [through |-> through, sent |-> stillOverlapping(started.sent \cup batch, through)]

=============================================================================
