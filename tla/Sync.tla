-------------------------------- MODULE Sync --------------------------------
(***************************************************************************)
(* A machine's passes with its workspace (cli/src/sync): pull the rules,   *)
(* send the ledger and the reports, beat.  The daemon's loop and a person's *)
(* "memnox sync" run the same pass in two processes over the same files:   *)
(* the account, the cursor, the staged and the kept bundle, the conditions. *)
(* Nothing locks any of them.                                              *)
(*                                                                         *)
(* Every file is read and written in a step of its own and every request   *)
(* is one: it is answered, refused, lost on the way there or on the way    *)
(* back.  A pass may die at any step.  Each enrolment is with a workspace  *)
(* of its own, numbered in order.                                          *)
(***************************************************************************)
EXTENDS PushCursor, Sequences

CONSTANTS
    Pass,           \* who runs passes
    Daemon,         \* the one that runs them in a loop
    Chunks,         \* posts a whole report takes
    Mode,           \* enforcement modes
    None,
    Broken,         \* bundle numbers that do not load
    Budgets         \* bounds: how a history starts and what may happen in it, one record each

ASSUME SyncAssumption == Daemon \in Pass /\ Chunks \in Nat \ {0}

VARIABLES
    now, left,      \* the clock; what of the budget is left
    stamped,        \* events a seam has stamped and not appended yet
    ledger,         \* events in the ledger
    report,         \* the newest scan or decision to report, 0 for none
    cursor,         \* sync.json: [through, sent, report]
    account,        \* account.json: None or [n, enrolledAt, mode, revoked]
    config,         \* the mode in config.toml
    files,          \* [staging, rules, listed, conditions] of the bundle
    loop,           \* syncLoop is running
    pass,           \* [Pass -> [at, acct, started, batch, version, chunk, merged, heard, mode, running]]
    \* The workspaces:
    published,      \* [enrolment -> number of its bundle]
    told,           \* the mode they tell the machine
    refused,        \* enrolments whose credential they refuse
    got,            \* rows that arrived: <<enrolment, row>>
    \* History:
    enrolled,       \* [enrolment -> when]
    again,          \* some row was sent again to a workspace that had it
    marred          \* what went wrong in this history, by name

cloud   == <<published, told, refused, got>>
history == <<enrolled, again, marred>>
local   == <<stamped, ledger, report, cursor, account, config, files>>
vars    == <<now, left, local, loop, pass, cloud, history>>

\* A read found more than it may take; a pass of an old enrolment took an event
\* of the new one; two passes ran at once; a request failed; a bundle was left
\* half applied; an account was put back; the cursor went back, for a
\* late event or a slower pass.
Marks == {"overfull", "strayed", "overlap", "fault", "torn", "revived", "rewound"}

NoCursor == [through |-> 0, sent |-> {}, report |-> 0]

Idle == [at |-> "idle", acct |-> None, started |-> NoCursor, batch |-> {}, version |-> 0, chunk |-> 0,
         merged |-> NoCursor, heard |-> None, mode |-> None, running |-> None]

Bundle(n, v) == [n |-> n, v |-> v]
Half == [n |-> 0, v |-> 0]      \* a file truncated and not written yet

Enrolment(n, t) == [n |-> n, enrolledAt |-> t, mode |-> None, revoked |-> FALSE]

\* What account.json and a bundle's files hold; an account and a bundle are not None.
AccountFile == [n : Nat, enrolledAt : Nat, mode : Mode \cup {None}, revoked : BOOLEAN]
BundleRecord == [n : Nat, v : Nat]

ASSUME NoneAssumption == None \notin AccountFile /\ None \notin BundleRecord

Init ==
    /\ now = 1 /\ left \in Budgets
    /\ stamped = {} /\ ledger = {} /\ report = 0
    /\ cursor = NoCursor
    /\ account = Enrolment(1, 1)
    /\ config = left.config /\ told = left.told
    /\ files = [staging |-> None, rules |-> left.held, listed |-> left.held # None,
                conditions |-> left.held]
    /\ loop = TRUE
    /\ pass = [p \in Pass |-> Idle]
    /\ published = <<1>> /\ refused = {} /\ got = {}
    /\ enrolled = <<1>> /\ again = FALSE /\ marred = {}

\* What the budget allows of one kind.
Spend(kind) == left[kind] > 0 /\ left' = [left EXCEPT ![kind] = @ - 1]

Goes(p, where) == pass' = [pass EXCEPT ![p].at = where]
Ends(p) == pass' = [pass EXCEPT ![p] = Idle]
At(p, where) == pass[p].at = where
Others(p) == Pass \ {p}
Mar(what) == marred' = marred \cup what

Loads(file) == file # None /\ file # Half /\ file.v \notin Broken

\* The rules a history starts with were applied by an earlier pass.
ASSUME BudgetAssumption ==
    \A b \in Budgets :
        /\ b.config \in Mode /\ b.told \in Mode
        /\ b.held = None \/ (b.held \in BundleRecord /\ Loads(b.held))

-----------------------------------------------------------------------------
(***************************************************************************)
(* Around the passes: agents act, people sign in and out, the workspace    *)
(* publishes, sets a mode and revokes.                                     *)
(***************************************************************************)
\* A seam stamps an event; it appends it within the overlap a pass allows for.
Stamp ==
    LET id == Cardinality(stamped \cup ledger) + 1
        owner == IF account = None THEN 0 ELSE account.n
    IN  /\ Spend("events")
        /\ stamped' = stamped \cup {[id |-> id, at |-> now, owner |-> owner]}
        /\ UNCHANGED <<now, ledger, report, cursor, account, config, files, loop, pass, cloud, history>>

Append1(e) ==
    /\ stamped' = stamped \ {e} /\ ledger' = ledger \cup {e}
    /\ UNCHANGED <<now, left, report, cursor, account, config, files, loop, pass, cloud, history>>

Tick ==
    /\ Spend("ticks") /\ now' = now + 1
    /\ \A e \in stamped : now' <= e.at + OVERLAP
    /\ UNCHANGED <<local, loop, pass, cloud, history>>

ScanKept ==
    /\ Spend("reports") /\ report' = report + 1
    /\ UNCHANGED <<now, stamped, ledger, cursor, account, config, files, loop, pass, cloud, history>>

\* writeAccount after an enrolment: the loop is started once in a daemon's life.
Login ==
    /\ Spend("logins")
    /\ LET n == Len(enrolled) + 1
       IN  account' = Enrolment(n, now) /\ enrolled' = Append(enrolled, now)
    /\ published' = Append(published, 1)
    /\ UNCHANGED <<now, stamped, ledger, report, cursor, config, files, loop, pass, told, refused, got, again, marred>>

forgetAccount ==
    /\ Spend("logouts") /\ account # None
    /\ account' = None
    /\ UNCHANGED <<now, stamped, ledger, report, cursor, config, files, loop, pass, cloud, history>>

PersonSetsMode(m) ==
    /\ Spend("edits") /\ m # config /\ config' = m
    /\ UNCHANGED <<now, stamped, ledger, report, cursor, account, files, loop, pass, cloud, history>>

Publishes(n) ==
    /\ Spend("publishes")
    /\ published' = [published EXCEPT ![n] = @ + 1]
    /\ UNCHANGED <<now, local, loop, pass, told, refused, got, history>>

SetsMode(m) ==
    /\ Spend("modes") /\ m # told /\ told' = m
    /\ UNCHANGED <<now, local, loop, pass, published, refused, got, enrolled, again, marred>>

Revokes(n) ==
    /\ Spend("revokes") /\ refused' = refused \cup {n}
    /\ UNCHANGED <<now, local, loop, pass, published, told, got, history>>

-----------------------------------------------------------------------------
(***************************************************************************)
(* onePass: the account, then the pull.                                    *)
(***************************************************************************)
\* onePass reads the account; a full pass pulls first, an early one only sends.
Starts(p) ==
    /\ At(p, "idle") /\ account # None /\ ~account.revoked
    /\ IF p = Daemon THEN loop /\ UNCHANGED left ELSE Spend("syncs")
    /\ \E pull \in (IF p = Daemon THEN left.pulls ELSE {TRUE}) :
          pass' = [pass EXCEPT ![p].at = IF pull THEN "hash" ELSE "cursor", ![p].acct = account]
    /\ Mar(IF \A q \in Others(p) : At(q, "idle") THEN {} ELSE {"overlap"})
    /\ UNCHANGED <<now, local, loop, cloud, enrolled, again>>

\* syncLoop returns on a revocation; workspaceSync starts it once only.
LoopEnds ==
    /\ loop /\ At(Daemon, "idle") /\ account # None /\ account.revoked
    /\ loop' = FALSE
    /\ UNCHANGED <<now, left, local, pass, cloud, history>>

\* A request that does not come back: the pass ends, whatever arrived.
Unreachable(p) == Spend("faults") /\ Ends(p) /\ Mar({"fault"})

\* heldHash: a file that is missing or not JSON holds none.
ReadsHash(p) ==
    /\ At(p, "hash")
    /\ pass' = [pass EXCEPT ![p].at = "ask",
                            ![p].heard = IF files.rules = Half THEN None ELSE files.rules]
    /\ UNCHANGED <<now, left, local, loop, cloud, history>>

Pulling(p) == pass[p].at \in {"ask", "touch", "touched", "truncate", "stage", "load", "move",
                              "list", "keep"}

\* pullBundle's conditional request, and where each answer leads.
pullBundle(p) ==
    LET n == pass[p].acct.n
        bundle == Bundle(n, published[n])
    IN  /\ At(p, "ask")
        /\ \/ /\ n \in refused /\ Goes(p, "mark") /\ UNCHANGED <<left, marred>>
           \/ /\ n \notin refused
              /\ IF pass[p].heard = bundle THEN Goes(p, "touch")
                 ELSE pass' = [pass EXCEPT ![p].at = "truncate", ![p].heard = bundle]
              /\ Mar(IF \E q \in Others(p) : Pulling(q) THEN {"torn"} ELSE {})
              /\ UNCHANGED left
           \/ Unreachable(p)
           \/ Spend("faults") /\ Goes(p, "cursor") /\ Mar({"fault"})   \* lapsed, or refused
        /\ UNCHANGED <<now, local, loop, cloud, enrolled, again>>

\* touchOrgConditions: the conditions are read and written back as they were.
TouchReads(p) ==
    /\ At(p, "touch")
    /\ IF files.conditions = None THEN Goes(p, "cursor")
       ELSE pass' = [pass EXCEPT ![p].at = "touched", ![p].heard = files.conditions]
    /\ UNCHANGED <<now, left, local, loop, cloud, history>>

\* The steps of a pull that write the bundle's files.
FileStep(p, from, to, written) ==
    /\ At(p, from) /\ Goes(p, to) /\ files' = written
    /\ UNCHANGED <<now, left, stamped, ledger, report, cursor, account, config, loop, cloud, history>>

TouchWrites(p) == FileStep(p, "touched", "cursor", [files EXCEPT !.conditions = pass[p].heard])

\* applyBundle: writeFile empties the staging file, then writes it.
Truncates(p) == FileStep(p, "truncate", "stage", [files EXCEPT !.staging = Half])

Stages(p) == FileStep(p, "stage", "load", [files EXCEPT !.staging = pass[p].heard])

\* Mutant of LoadsStaged: a bundle the gate's reader refuses is moved all the same.
LoadsStagedAny(p) == FileStep(p, "load", "move", files)

LoadsStaged(p) ==
    IF Loads(files.staging) THEN FileStep(p, "load", "move", files)
    ELSE FileStep(p, "load", "cursor", [files EXCEPT !.staging = None])

\* rename, which throws when the other pass has moved the file, and ends this one.
Moves(p) ==
    IF files.staging = None THEN
        /\ At(p, "move") /\ Ends(p)
        /\ UNCHANGED <<now, left, local, loop, cloud, history>>
    ELSE FileStep(p, "move", "list", [files EXCEPT !.rules = files.staging, !.staging = None])

Lists(p) == FileStep(p, "list", "keep", [files EXCEPT !.listed = TRUE])

KeepsConditions(p) == FileStep(p, "keep", "cursor", [files EXCEPT !.conditions = pass[p].heard])

-----------------------------------------------------------------------------
(***************************************************************************)
(* The sends: pushEvents, then the reports, each with its own cursor.      *)
(***************************************************************************)
EventRow(n, id) == [n |-> n, kind |-> "event", id |-> id, part |-> 0]
ReportRow(n, v, k) == [n |-> n, kind |-> "report", id |-> v, part |-> k]

ReadsCursor(p) ==
    /\ At(p, "cursor")
    /\ pass' = [pass EXCEPT ![p].at = "query", ![p].started = cursor, ![p].heard = None]
    /\ UNCHANGED <<now, left, local, loop, cloud, history>>

\* pushEvents reads the ledger, leaves out what it sent, and takes what fits.
ReadsLedger(p) ==
    LET started == pass[p].started
        from    == pushFrom(started.through, pass[p].acct.enrolledAt)
        fresh   == query(ledger, from) \ started.sent
        batch   == fitting(fresh)
    IN  /\ At(p, "query")
        /\ pass' = IF fresh = {} THEN [pass EXCEPT ![p].at = "report", ![p].started = NoCursor]
                   ELSE [pass EXCEPT ![p].at = "post", ![p].batch = batch]
        /\ Mar((IF Cardinality(Since(ledger, from)) > MAX_POST THEN {"overfull"} ELSE {})
               \cup (IF \E e \in batch : e.owner > pass[p].acct.n THEN {"strayed"} ELSE {}))
        /\ UNCHANGED <<now, left, local, loop, cloud, enrolled, again>>

\* One signed post: refused for its credential, taken, lost on the way there or
\* back, or refused for something else, where the next send still goes.
postBatch(p, rows, landed, other) ==
    /\ \/ /\ pass[p].acct.n \in refused /\ Goes(p, "mark") /\ UNCHANGED <<left, got, again, marred>>
       \/ /\ pass[p].acct.n \notin refused
          /\ got' = got \cup rows /\ again' = (again \/ rows \cap got # {})
          /\ pass' = landed /\ UNCHANGED <<left, marred>>
       \/ Unreachable(p) /\ got' \in {got, got \cup rows} /\ UNCHANGED again
       \/ /\ Spend("faults") /\ Mar({"fault"}) /\ pass' = other /\ UNCHANGED <<got, again>>

Posts(p) ==
    LET done == [pass EXCEPT ![p].at = "report", ![p].started = NoCursor, ![p].batch = {}]
    IN  /\ At(p, "post")
        /\ postBatch(p, {EventRow(pass[p].acct.n, e.id) : e \in pass[p].batch},
                     [pass EXCEPT ![p].at = "merge"], done)
        /\ UNCHANGED <<now, local, loop, published, told, refused, enrolled>>

\* mergeCursor reads the cursor again, and writes it with the patch over it.
MergeReads(p) ==
    /\ pass[p].at \in {"merge", "remerge"}
    /\ pass' = [pass EXCEPT ![p].at = IF @ = "merge" THEN "merged" ELSE "remerged",
                            ![p].merged = cursor]
    /\ UNCHANGED <<now, left, local, loop, cloud, history>>

MergeWrites(p) ==
    LET patch == pushPatch(pass[p].started, pass[p].batch)
    IN  /\ At(p, "merged")
        /\ cursor' = [pass[p].merged EXCEPT !.through = patch.through, !.sent = patch.sent]
        /\ pass' = [pass EXCEPT ![p] = [Idle EXCEPT !.at = "report", !.acct = pass[p].acct]]
        /\ Mar(IF patch.through < cursor.through THEN {"rewound"} ELSE {})
        /\ UNCHANGED <<now, left, stamped, ledger, report, account, config, files, loop, cloud, enrolled, again>>

\* pushCensus and its like: nothing to say, said already, or a whole report to send.
ReadsReport(p) ==
    /\ At(p, "report")
    /\ IF report = 0 \/ cursor.report = report THEN Goes(p, "beat")
       ELSE pass' = [pass EXCEPT ![p].at = "chunk", ![p].version = report, ![p].chunk = 1]
    /\ UNCHANGED <<now, left, local, loop, cloud, history>>

postChunked(p) ==
    LET done == [pass EXCEPT ![p].at = "beat", ![p].version = 0, ![p].chunk = 0]
    IN  /\ At(p, "chunk")
        /\ postBatch(p, {ReportRow(pass[p].acct.n, pass[p].version, pass[p].chunk)},
                     IF pass[p].chunk < Chunks THEN [pass EXCEPT ![p].chunk = @ + 1]
                     ELSE [pass EXCEPT ![p].at = "remerge"], done)
        /\ UNCHANGED <<now, local, loop, published, told, refused, enrolled>>

ReportMerged(p) ==
    /\ At(p, "remerged")
    /\ cursor' = [pass[p].merged EXCEPT !.report = pass[p].version]
    /\ pass' = [pass EXCEPT ![p] = [Idle EXCEPT !.at = "beat", !.acct = pass[p].acct]]
    /\ UNCHANGED <<now, left, stamped, ledger, report, account, config, files, loop, cloud, history>>

-----------------------------------------------------------------------------
(***************************************************************************)
(* The beat, the mode it brings, and a revocation.                         *)
(***************************************************************************)
ReadsMode(p) ==
    /\ At(p, "beat")
    /\ pass' = [pass EXCEPT ![p].at = "beating", ![p].running = config]
    /\ UNCHANGED <<now, left, local, loop, cloud, history>>

\* beat, whose reply to a refused credential carries nothing, and applyMode's
\* early return when the mode is the one it told last.
beats(p) ==
    /\ At(p, "beating")
    /\ \/ /\ pass[p].acct.n \in refused /\ Ends(p) /\ UNCHANGED <<left, marred>>
       \/ /\ pass[p].acct.n \notin refused /\ UNCHANGED <<left, marred>>
          /\ IF told = pass[p].acct.mode THEN Ends(p)
             ELSE pass' = [pass EXCEPT ![p].at = "account", ![p].mode = told]
       \/ Unreachable(p)
    /\ UNCHANGED <<now, local, loop, cloud, enrolled, again>>

\* Whether writing this copy puts back an account that is gone.
Revives(copy) == account = None \/ account.n # copy.n

\* applyMode writes the account it was given when the pass began.
ModeToAccount(p) ==
    /\ At(p, "account")
    /\ account' = [pass[p].acct EXCEPT !.mode = pass[p].mode]
    /\ IF pass[p].mode = pass[p].running THEN Ends(p) ELSE Goes(p, "config")
    /\ Mar(IF Revives(pass[p].acct) THEN {"revived"} ELSE {})
    /\ UNCHANGED <<now, left, stamped, ledger, report, cursor, config, files, loop, cloud, enrolled, again>>

ModeToConfig(p) ==
    /\ At(p, "config")
    /\ config' = pass[p].mode /\ Ends(p)
    /\ UNCHANGED <<now, left, stamped, ledger, report, cursor, account, files, loop, cloud, enrolled, again, marred>>

\* markRevoked reads the account there now, whichever it is, and marks it once.
MarkReads(p) ==
    /\ At(p, "mark")
    /\ IF account = None \/ account.revoked
       THEN Ends(p) /\ loop' = (loop /\ p # Daemon)
       ELSE /\ pass' = [pass EXCEPT ![p] = [Idle EXCEPT !.at = "marked", !.acct = account]]
            /\ UNCHANGED loop
    /\ UNCHANGED <<now, left, local, cloud, history>>

MarkWrites(p) ==
    /\ At(p, "marked")
    /\ account' = [pass[p].acct EXCEPT !.revoked = TRUE]
    /\ Ends(p) /\ loop' = (loop /\ p # Daemon)
    /\ Mar(IF Revives(pass[p].acct) THEN {"revived"} ELSE {})
    /\ UNCHANGED <<now, left, stamped, ledger, report, cursor, config, files, cloud, enrolled, again>>

\* The process goes; the daemon is started again, and its loop with it.
Dies(p) ==
    /\ ~At(p, "idle") \/ (p = Daemon /\ ~loop)
    /\ Spend("crashes") /\ Ends(p)
    /\ loop' = (loop \/ p = Daemon)
    /\ Mar({"fault"} \cup (IF pass[p].at \in {"list", "keep"} THEN {"torn"} ELSE {}))
    /\ UNCHANGED <<now, local, cloud, enrolled, again>>

-----------------------------------------------------------------------------
PullStep(p) ==
    \/ ReadsHash(p) \/ pullBundle(p) \/ TouchReads(p) \/ TouchWrites(p) \/ Truncates(p)
    \/ Stages(p) \/ LoadsStaged(p) \/ Moves(p) \/ Lists(p) \/ KeepsConditions(p)

SendStep(p) ==
    \/ ReadsCursor(p) \/ ReadsLedger(p) \/ Posts(p) \/ MergeReads(p) \/ MergeWrites(p)
    \/ ReadsReport(p) \/ postChunked(p) \/ ReportMerged(p)

BeatStep(p) ==
    \/ ReadsMode(p) \/ beats(p) \/ ModeToAccount(p) \/ ModeToConfig(p)
    \/ MarkReads(p) \/ MarkWrites(p)

PassStep(p) == PullStep(p) \/ SendStep(p) \/ BeatStep(p)

Around ==
    \/ Stamp \/ Tick \/ ScanKept \/ Login \/ forgetAccount \/ LoopEnds
    \/ \E e \in stamped : Append1(e)
    \/ \E m \in Mode : PersonSetsMode(m) \/ SetsMode(m)
    \/ \E n \in DOMAIN published : Publishes(n) \/ Revokes(n)

Next ==
    \/ Around
    \/ \E p \in Pass : Starts(p) \/ PassStep(p) \/ Dies(p)

\* Weak fairness of PassStep(p), which can be taken exactly while p is not idle:
\* a pass that has begun goes on, since every call it makes is answered or times
\* out.
PassGoesOn(p) == []<>At(p, "idle") \/ []<><<PassStep(p)>>_vars

\* And the loop goes round until the daemon ends.
Spec == /\ Init /\ [][Next]_vars
        /\ WF_vars(Starts(Daemon))
        /\ \A p \in Pass : PassGoesOn(p)

-----------------------------------------------------------------------------
(***************************************************************************)
(* Properties.                                                             *)
(***************************************************************************)
Event == [id : DOMAIN Kind, at : 1..now, owner : 0..Len(enrolled)]
Account == [n : 1..Len(enrolled), enrolledAt : 1..now, mode : Mode \cup {None}, revoked : BOOLEAN]
BundleFile == {None, Half} \cup {Bundle(n, v) : n \in 1..Len(enrolled), v \in 1..Max(Range(published))}

\* Every file and every pass holds what its fields are for; the cursor is never
\* ahead of the clock and remembers only events of the ledger.
TypeOK ==
    /\ stamped \subseteq Event /\ ledger \subseteq Event
    /\ cursor.through \in 0..now /\ cursor.sent \subseteq ledger /\ cursor.report \in 0..report
    /\ account \in Account \cup {None}
    /\ {files.staging, files.rules, files.conditions} \subseteq BundleFile
    /\ \A p \in Pass : Cardinality(pass[p].batch) <= MAX_POST /\ pass[p].chunk \in 0..Chunks
    /\ marred \subseteq Marks

\* pushEvents: an event of the enrolment in force that its workspace has not had
\* is one the next pass still reads back and does not take for sent, unless some
\* read met more than it may take, or a pass of another enrolment took it, or an
\* account that was gone was written back.
NothingSkipped ==
    (account # None /\ marred \cap {"overfull", "strayed", "revived"} = {}) =>
        \A e \in ledger :
            (e.owner = account.n /\ EventRow(e.owner, e.id) \notin got) =>
                /\ e.at >= pushFrom(cursor.through, account.enrolledAt)
                /\ e \notin cursor.sent

\* recentlySent: no row goes twice to a workspace that has it, unless a request
\* or a process failed, passes overlapped, or the cursor went back for a late event.
SentOnce == again => marred \cap {"fault", "overlap", "rewound"} # {}

\* pushFrom's floor: no workspace is sent what was done before it was enrolled.
NothingFromBefore ==
    \A e \in ledger : \A n \in DOMAIN enrolled :
        EventRow(n, e.id) \in got => e.at >= enrolled[n]

\* applyBundle, whole or not at all: the rules in the list are ones the gate can
\* read, and outside a pull the conditions are of the same bundle.
WholeBundle ==
    "torn" \notin marred =>
        /\ files.rules # None => Loads(files.rules)
        /\ (\A p \in Pass : ~Pulling(p)) =>
               files.listed = (files.rules # None) /\ files.conditions = files.rules

\* Somebody is serving this machine's account.
Served == account # None /\ ~account.revoked /\ account.n \notin refused /\ loop

\* In the end every event of the enrolment in force is with its workspace.
LedgerArrives ==
    <>[](Served /\ marred \cap {"overfull", "strayed", "revived"} = {} =>
            \A e \in ledger : e.owner = account.n => EventRow(account.n, e.id) \in got)

=============================================================================
