----------------------------- MODULE HeldCalls -----------------------------
(***************************************************************************)
(* A held tool call and the people who may answer it.                      *)
(*                                                                         *)
(* A call the rules say "ask" about is held by its process: HoldService    *)
(* (packages/core/src/gate/hold.ts) asks RoutedHoldPrompt (routed-         *)
(* prompt.ts), which writes the question to ~/.memnox/pending, polls that  *)
(* file and asks the terminal, and takes the first answer.  Anybody else   *)
(* (memnox approve, the phone through the daemon, a DM through sync)       *)
(* answers by PendingApprovals.answer (pending.ts), from another process.  *)
(* They share two files per question and no lock: the record, always       *)
(* replaced whole by what its writer read earlier, and the claim, created  *)
(* only if absent.  A question nobody answers is parked for later.         *)
(*                                                                         *)
(* Every action below is one file operation, or the code between two.      *)
(* Every Caller is the same call, tried again or in parallel, in one       *)
(* session; its question carries its name.                                 *)
(***************************************************************************)
EXTENDS Naturals, FiniteSets

CONSTANTS
    Caller,        \* the tries of the call, each in a process of its own
    Remote,        \* the answers given away from the asking process
    None,
    Interactive,   \* the callers that have a terminal
    Parks,         \* parkMs is set: an unanswered question is kept for later
    Learns,        \* grantsByName: the call does not destroy anything
    Overlap,       \* tries of the call may run side by side
    MaxCrashes     \* bound: processes that die

ASSUME ThreadAssumption == /\ Caller \cap Remote = {}
                           /\ None \notin Caller \cup Remote
                           /\ None \notin {"once", "session", "deny", "edit"}
ASSUME InteractiveAssumption == Interactive \subseteq Caller
ASSUME FlagsAssumption == {Parks, Learns, Overlap} \subseteq BOOLEAN
ASSUME CrashesAssumption == MaxCrashes \in Nat

LEARN_AFTER_APPROVALS == 2

(* HOLD_ANSWER; only the terminal offers to edit the command. *)
HoldAnswer == {"once", "session", "deny", "edit"}
RemoteAnswer == HoldAnswer \ {"edit"}
Yes == {"once", "session"}

(* A caller's own thread of answer() is its terminal. *)
Thread == Caller \cup Remote

(* What PendingApproval says that anybody acts on.  expiresAt is the hold's *)
(* deadline, or the parked one where parkedAt is set.                       *)
Pending == [answer : HoldAnswer \cup {None},
            by     : Thread \cup {None},
            parked : BOOLEAN]

ASSUME RecordAssumption == None \notin Pending

VARIABLES
    record,      \* the question's file: Pending, or None
    claimed,     \* the questions whose claim file exists
    late,        \* the questions whose hold deadline has passed
    lateParked,  \* the questions whose parked deadline has passed
    granted,     \* the session's grants cover this call
    yeses,       \* approvals counted for it, up to LEARN_AFTER_APPROVALS
    once,        \* single yeses not spent yet, by who gave them
    pc,          \* where each caller is in hold()
    polling,     \* the callers whose waitForAnswer has not given up
    got,         \* the answer a caller acts on, or None
    on,          \* the question it came from
    kept,        \* the copy park() read, between its read and its write
    second,      \* the project boundary's check of a call let through
    apc,         \* where each thread is in answer()
    aid,         \* the question it answers
    aans,        \* what its person said
    copy,        \* the record it read
    cleared,     \* history: the questions whose claim a clear() removed
    crashes

files == <<record, claimed>>
time == <<late, lateParked>>
grants == <<granted, yeses, once>>
asking == <<pc, polling, got, on, kept, second>>
answering == <<apc, aid, aans, copy>>
vars == <<files, time, grants, asking, answering, cleared, crashes>>

Ended == {"allowed", "covered", "denied", "edited", "timed_out", "parked",
          "unattended"}
CallerPC == {"idle", "lookup", "raise", "wait", "park_forget", "park_read",
             "park_write", "settle", "clear_claim", "clear_record", "decide",
             "crashed"} \cup Ended
Outcome == {"answered", "already", "gone"}
AnswerPC == {"away", "prompt", "no_answer", "read", "claim", "reread",
             "write", "grant", "crashed"} \cup Outcome

(* The thread whose claim was the one created. *)
Winner(t) == apc[t] \in {"write", "grant", "answered"}

TypeOK ==
    /\ record \in [Caller -> Pending \cup {None}]
    /\ claimed \in SUBSET Caller
    /\ late \in SUBSET Caller
    /\ lateParked \in SUBSET Caller
    /\ granted \in BOOLEAN
    /\ yeses \in 0 .. LEARN_AFTER_APPROVALS
    /\ once \in SUBSET Thread
    /\ pc \in [Caller -> CallerPC]
    /\ polling \in SUBSET Caller
    /\ got \in [Caller -> HoldAnswer \cup {None}]
    /\ on \in [Caller -> Caller \cup {None}]
    /\ kept \in [Caller -> Pending \cup {None}]
    /\ second \in [Caller -> {"due", "passed", "asked"}]
    /\ apc \in [Thread -> AnswerPC]
    /\ aid \in [Thread -> Caller \cup {None}]
    /\ aans \in [Thread -> HoldAnswer \cup {None}]
    /\ copy \in [Thread -> Pending \cup {None}]
    /\ cleared \in SUBSET Caller
    /\ crashes \in 0 .. MaxCrashes

Init ==
    /\ record = [c \in Caller |-> None]
    /\ claimed = {}
    /\ late = {}
    /\ lateParked = {}
    /\ granted = FALSE
    /\ yeses = 0
    /\ once = {}
    /\ pc = [c \in Caller |-> "idle"]
    /\ polling = {}
    /\ got = [c \in Caller |-> None]
    /\ on = [c \in Caller |-> None]
    /\ kept = [c \in Caller |-> None]
    /\ second = [c \in Caller |-> "due"]
    /\ apc = [t \in Thread |-> "away"]
    /\ aid = [t \in Thread |-> None]
    /\ aans = [t \in Thread |-> None]
    /\ copy = [t \in Thread |-> None]
    /\ cleared = {}
    /\ crashes = 0

Goto(c, next) == pc' = [pc EXCEPT ![c] = next]
AGoto(t, next) == apc' = [apc EXCEPT ![t] = next]

Running(c) == pc[c] \notin Ended \cup {"idle", "crashed"}

----------------------------------------------------------------------------
(* PendingApprovals.answer, for the terminal and for everybody else.       *)

(* A person picks a question from the list, which leaves out expired ones, *)
(* and says what they want.  Reaching answer() may take any time.          *)
Say(r, q, a) ==
    /\ apc[r] = "away"
    /\ record[q] # None
    /\ q \notin (IF record[q].parked THEN lateParked ELSE late)
    /\ AGoto(r, "read")
    /\ aid' = [aid EXCEPT ![r] = q]
    /\ aans' = [aans EXCEPT ![r] = a]
    /\ UNCHANGED <<files, time, grants, asking, copy, cleared, crashes>>

(* Read once, before the claim: no record, or one answered, ends it. *)
AnswerRead(t) ==
    /\ apc[t] = "read"
    /\ LET found == record[aid[t]] IN
       IF found = None
       THEN AGoto(t, "gone") /\ UNCHANGED copy
       ELSE IF found.answer # None
       THEN AGoto(t, "already") /\ UNCHANGED copy
       ELSE AGoto(t, "claim") /\ copy' = [copy EXCEPT ![t] = found]
    /\ UNCHANGED <<files, time, grants, asking, aid, aans, cleared, crashes>>

(* Mutant: a claim that is written whether or not one is there. *)
AnswerClaimAnyway(t) ==
    /\ apc[t] = "claim"
    /\ claimed' = claimed \cup {aid[t]}
    /\ AGoto(t, "write")
    /\ UNCHANGED <<record, time, grants, asking, aid, aans, copy, cleared, crashes>>

(* claim(): writeFile with flag wx. *)
AnswerClaim(t) ==
    /\ apc[t] = "claim"
    /\ IF aid[t] \in claimed
       THEN AGoto(t, "reread") /\ UNCHANGED claimed
       ELSE AGoto(t, "write") /\ claimed' = claimed \cup {aid[t]}
    /\ UNCHANGED <<record, time, grants, asking, aid, aans, copy, cleared, crashes>>

(* The loser is told what is there now. *)
AnswerReread(t) ==
    /\ apc[t] = "reread"
    /\ AGoto(t, IF record[aid[t]] = None THEN "gone" ELSE "already")
    /\ UNCHANGED <<files, time, grants, asking, aid, aans, copy, cleared, crashes>>

(* The record is replaced by the copy read before the claim, answered. *)
AnswerWrite(t) ==
    /\ apc[t] = "write"
    /\ record' = [record EXCEPT ![aid[t]] =
                     [answer |-> aans[t], by |-> t, parked |-> copy[t].parked]]
    /\ AGoto(t, IF aans[t] \in Yes THEN "grant" ELSE "answered")
    /\ UNCHANGED <<claimed, time, grants, asking, aid, aans, copy, cleared, crashes>>

(* FileGrants.grant or allowOnce, each whole under the directory mutex. *)
AnswerGrant(t) ==
    /\ apc[t] = "grant"
    /\ granted' = (granted \/ aans[t] = "session")
    /\ once' = IF aans[t] = "once" THEN once \cup {t} ELSE once
    /\ AGoto(t, "answered")
    /\ UNCHANGED <<files, time, yeses, asking, aid, aans, copy, cleared, crashes>>

Answer(t) ==
    \/ AnswerRead(t)
    \/ AnswerClaim(t)
    \/ AnswerReread(t)
    \/ AnswerWrite(t)
    \/ AnswerGrant(t)

----------------------------------------------------------------------------
(* HoldService.hold and RoutedHoldPrompt.ask, for one caller.              *)

End(c, outcome) == Goto(c, outcome)

(* hold(): a grant answers at once; otherwise the prompt is asked. *)
Hold(c) ==
    /\ pc[c] = "idle"
    /\ Overlap \/ ~\E d \in Caller : Running(d)
    /\ IF granted THEN End(c, "covered") ELSE Goto(c, "lookup")
    /\ UNCHANGED <<files, time, grants, polling, got, on, kept, second,
                   answering, cleared, crashes>>

(* parkedFor: the parked questions of this call that are still in time. *)
ParkedInTime(q) ==
    record[q] # None /\ record[q].parked /\ q \notin lateParked

(* fromParked: the same question still waiting, or the answer it got,      *)
(* which is taken away next; or nothing was parked and it is asked anew.   *)
FromParked(c) ==
    /\ pc[c] = "lookup"
    /\ \/ /\ ~\E q \in Caller : ParkedInTime(q)
          /\ Goto(c, "raise")
          /\ UNCHANGED <<got, on>>
       \/ \E q \in Caller :
             /\ ParkedInTime(q)
             /\ on' = [on EXCEPT ![c] = q]
             /\ IF record[q].answer = None
                THEN End(c, "parked") /\ UNCHANGED got
                ELSE /\ Goto(c, "clear_claim")
                     /\ got' = [got EXCEPT ![c] = record[q].answer]
    /\ UNCHANGED <<files, time, grants, polling, kept, second, answering,
                   cleared, crashes>>

(* raise(): the question is written down, then both routes are started. *)
Raise(c) ==
    /\ pc[c] = "raise"
    /\ record' = [record EXCEPT ![c] =
                     [answer |-> None, by |-> None, parked |-> FALSE]]
    /\ polling' = polling \cup {c}
    /\ on' = [on EXCEPT ![c] = c]
    /\ Goto(c, "wait")
    /\ IF c \in Interactive
       THEN /\ AGoto(c, "prompt")
            /\ aid' = [aid EXCEPT ![c] = c]
       ELSE UNCHANGED <<apc, aid>>
    /\ UNCHANGED <<claimed, time, grants, got, kept, second, aans, copy,
                   cleared, crashes>>

(* A file could not be read or written on the way: a prompt that threw is  *)
(* one nobody saw, and hold() fails closed, whatever was done by then.     *)
PromptThrows(c) ==
    /\ pc[c] \in {"lookup", "raise", "park_forget", "park_read", "park_write",
                  "settle", "clear_claim", "clear_record"}
    /\ End(c, "unattended")
    /\ UNCHANGED <<files, time, grants, polling, got, on, kept, second,
                   answering, cleared, crashes>>

(* Mutant: a poll that takes any record it finds for a yes. *)
PollTrusting(c) ==
    /\ pc[c] = "wait"
    /\ c \in polling
    /\ record[c] # None
    /\ got' = [got EXCEPT ![c] = "once"]
    /\ Goto(c, "settle")
    /\ UNCHANGED <<files, time, grants, polling, on, kept, second, answering,
                   cleared, crashes>>

(* waitForAnswer, one turn of the loop that ends it: the record is gone,   *)
(* or it holds an answer.                                                  *)
Poll(c) ==
    /\ pc[c] = "wait"
    /\ c \in polling
    /\ c \notin late
    /\ \/ /\ record[c] = None
          /\ polling' = polling \ {c}
          /\ UNCHANGED <<pc, got>>
       \/ /\ record[c] # None
          /\ record[c].answer # None
          /\ got' = [got EXCEPT ![c] = record[c].answer]
          /\ Goto(c, "settle")
          /\ UNCHANGED polling
    /\ UNCHANGED <<files, time, grants, on, kept, second, answering, cleared,
                   crashes>>

(* Mutant: a loop that reads on until there is an answer. *)
PollNeverEnds(c) ==
    /\ pc[c] = "wait"
    /\ c \in polling
    /\ c \in late
    /\ UNCHANGED vars

(* The deadline ends the loop without another look at the file. *)
PollEnds(c) ==
    /\ pc[c] = "wait"
    /\ c \in polling
    /\ c \in late
    /\ polling' = polling \ {c}
    /\ UNCHANGED <<files, time, grants, pc, got, on, kept, second, answering,
                   cleared, crashes>>

(* The person at the terminal chooses, whatever became of the call: the    *)
(* prompt is not withdrawn when another answer came first.                 *)
TtyPick(c, a) ==
    /\ apc[c] = "prompt"
    /\ aans' = [aans EXCEPT ![c] = a]
    /\ AGoto(c, "read")
    /\ UNCHANGED <<files, time, grants, asking, aid, copy, cleared, crashes>>

(* No terminal could be opened, its clock ran out, or answer() threw:      *)
(* firstAnswer takes either for a route that gave nothing.                 *)
TtyGivesUp(c) ==
    /\ apc[c] \in {"prompt", "read", "claim", "reread", "write", "grant"}
    /\ AGoto(c, "no_answer")
    /\ UNCHANGED <<files, time, grants, asking, aid, aans, copy, cleared, crashes>>

(* askTty returns what the person chose, whatever answer() made of it. *)
TtyReturns(c) ==
    /\ pc[c] = "wait"
    /\ apc[c] \in Outcome
    /\ got' = [got EXCEPT ![c] = aans[c]]
    /\ Goto(c, "settle")
    /\ UNCHANGED <<files, time, grants, polling, on, kept, second, answering,
                   cleared, crashes>>

(* firstAnswer gives up only when every route has. *)
NobodyAnswers(c) ==
    /\ pc[c] = "wait"
    /\ c \notin polling
    /\ c \in Interactive => apc[c] = "no_answer"
    /\ Goto(c, IF Parks THEN "park_forget" ELSE "settle")
    /\ UNCHANGED <<files, time, grants, polling, got, on, kept, second,
                   answering, cleared, crashes>>

(* park(): the parked questions past their deadline go first.  One step:   *)
(* nobody reads such a question, and an answer() still on its way to one   *)
(* ends the same before or after both its files go.                        *)
ParkForget(c) ==
    /\ pc[c] = "park_forget"
    /\ LET old == {q \in Caller : record[q] # None /\ record[q].parked
                                     /\ q \in lateParked}
       IN  /\ record' = [q \in Caller |-> IF q \in old THEN None ELSE record[q]]
           /\ claimed' = claimed \ old
           /\ cleared' = cleared \cup old
    /\ Goto(c, "park_read")
    /\ UNCHANGED <<time, grants, polling, got, on, kept, second, answering, crashes>>

(* A question that is gone by now is reported parked all the same. *)
ParkRead(c) ==
    /\ pc[c] = "park_read"
    /\ IF record[c] = None
       THEN End(c, "parked") /\ UNCHANGED kept
       ELSE Goto(c, "park_write") /\ kept' = [kept EXCEPT ![c] = record[c]]
    /\ UNCHANGED <<files, time, grants, polling, got, on, second, answering,
                   cleared, crashes>>

(* The copy is written back, parked: what landed meanwhile is replaced. *)
ParkWrite(c) ==
    /\ pc[c] = "park_write"
    /\ record' = [record EXCEPT ![c] = [kept[c] EXCEPT !.parked = TRUE]]
    /\ End(c, "parked")
    /\ UNCHANGED <<claimed, time, grants, polling, got, on, kept, second,
                   answering, cleared, crashes>>

(* Read before it is cleared, only for who answered. *)
Settle(c) ==
    /\ pc[c] = "settle"
    /\ Goto(c, "clear_claim")
    /\ UNCHANGED <<files, time, grants, polling, got, on, kept, second,
                   answering, cleared, crashes>>

(* clear(), first half: the claim goes. *)
ClearClaim(c) ==
    /\ pc[c] = "clear_claim"
    /\ claimed' = claimed \ {on[c]}
    /\ cleared' = cleared \cup {on[c]}
    /\ Goto(c, "clear_record")
    /\ UNCHANGED <<record, time, grants, polling, got, on, kept, second,
                   answering, crashes>>

(* Mutant: the answer is used and the question left where it was. *)
ClearRecordNot(c) ==
    /\ pc[c] = "clear_record"
    /\ Goto(c, IF got[c] = None THEN "timed_out" ELSE "decide")
    /\ UNCHANGED <<files, time, grants, polling, got, on, kept, second,
                   answering, cleared, crashes>>

(* clear(), second half: the record goes. *)
ClearRecord(c) ==
    /\ pc[c] = "clear_record"
    /\ record' = [record EXCEPT ![on[c]] = None]
    /\ Goto(c, IF got[c] = None THEN "timed_out" ELSE "decide")
    /\ UNCHANGED <<claimed, time, grants, polling, got, on, kept, second,
                   answering, cleared, crashes>>

(* withApproval: the yes is counted, and the action learned once it has    *)
(* had enough of them, unless it destroys something.                       *)
Approved(session) ==
    /\ yeses' = IF yeses < LEARN_AFTER_APPROVALS THEN yeses + 1 ELSE yeses
    /\ granted' = (\/ granted
                   \/ session
                   \/ Learns /\ yeses + 1 >= LEARN_AFTER_APPROVALS)

(* resultOf: a no denies; an edit goes back to the rules, or denies where  *)
(* it changed nothing; a yes is counted, granted if for the session.       *)
Decide(c) ==
    /\ pc[c] = "decide"
    /\ \/ got[c] = "deny" /\ End(c, "denied") /\ UNCHANGED <<granted, yeses>>
       \/ /\ got[c] = "edit"
          /\ End(c, "edited") \/ End(c, "denied")
          /\ UNCHANGED <<granted, yeses>>
       \/ got[c] \in Yes /\ End(c, "allowed") /\ Approved(got[c] = "session")
    /\ UNCHANGED <<files, time, once, polling, got, on, kept, second,
                   answering, cleared, crashes>>

(* A single yes still good: before its question would have run out. *)
StillGood(t) == aid[t] \notin (IF copy[t].parked THEN lateParked ELSE late)

(* Mutant: a single yes that is looked at and left. *)
BoundaryLooks(c) ==
    /\ pc[c] \in {"allowed", "covered"}
    /\ second[c] = "due"
    /\ second' = [second EXCEPT ![c] =
                      IF granted \/ \E t \in once : StillGood(t)
                      THEN "passed" ELSE "asked"]
    /\ UNCHANGED <<files, time, grants, pc, polling, got, on, kept, answering,
                   cleared, crashes>>

(* The project boundary checks a call the rules let through: a grant       *)
(* passes it, or one single yes, which takeOnce spends under the mutex.    *)
Boundary(c) ==
    /\ pc[c] \in {"allowed", "covered"}
    /\ second[c] = "due"
    /\ LET good == {t \in once : StillGood(t)} IN
       \/ /\ granted
          /\ second' = [second EXCEPT ![c] = "passed"]
          /\ UNCHANGED once
       \/ /\ ~granted
          /\ good = {}
          /\ second' = [second EXCEPT ![c] = "asked"]
          /\ once' = good
       \/ /\ ~granted
          /\ \E t \in good : once' = good \ {t}
          /\ second' = [second EXCEPT ![c] = "passed"]
    /\ UNCHANGED <<files, time, granted, yeses, pc, polling, got, on, kept,
                   answering, cleared, crashes>>

Ask(c) ==
    \/ Hold(c)
    \/ FromParked(c)
    \/ Raise(c)
    \/ PromptThrows(c)
    \/ Poll(c)
    \/ PollEnds(c)
    \/ TtyGivesUp(c)
    \/ TtyReturns(c)
    \/ NobodyAnswers(c)
    \/ ParkForget(c)
    \/ ParkRead(c)
    \/ ParkWrite(c)
    \/ Settle(c)
    \/ ClearClaim(c)
    \/ ClearRecord(c)
    \/ Decide(c)
    \/ Boundary(c)

----------------------------------------------------------------------------
(* Time and death.                                                         *)

HoldDeadline(q) ==
    /\ on[q] = q
    /\ q \notin late
    /\ late' = late \cup {q}
    /\ UNCHANGED <<files, lateParked, grants, asking, answering, cleared, crashes>>

ParkDeadline(q) ==
    /\ record[q] # None
    /\ record[q].parked
    /\ q \notin lateParked
    /\ lateParked' = lateParked \cup {q}
    /\ UNCHANGED <<files, late, grants, asking, answering, cleared, crashes>>

(* The asking process dies, its terminal with it. *)
CallerDies(c) ==
    /\ Running(c)
    /\ crashes < MaxCrashes
    /\ crashes' = crashes + 1
    /\ Goto(c, "crashed")
    /\ apc' = [apc EXCEPT ![c] = IF @ \in Outcome \cup {"away"} THEN @ ELSE "crashed"]
    /\ UNCHANGED <<files, time, grants, polling, got, on, kept, second, aid,
                   aans, copy, cleared>>

(* The process answering dies, between two of its file operations. *)
AnswererDies(r) ==
    /\ apc[r] \notin Outcome \cup {"away", "crashed"}
    /\ crashes < MaxCrashes
    /\ crashes' = crashes + 1
    /\ AGoto(r, "crashed")
    /\ UNCHANGED <<files, time, grants, asking, aid, aans, copy, cleared>>

Next ==
    \/ \E t \in Thread : Answer(t)
    \/ \E r \in Remote, q \in Caller, a \in RemoteAnswer : Say(r, q, a)
    \/ \E c \in Caller : Ask(c)
    \/ \E c \in Caller, a \in HoldAnswer : TtyPick(c, a)
    \/ \E q \in Caller : HoldDeadline(q) \/ ParkDeadline(q)
    \/ \E c \in Caller : CallerDies(c)
    \/ \E r \in Remote : AnswererDies(r)

Spec == Init /\ [][Next]_vars

(* Live processes keep going and time passes; nobody owes an answer.       *)
Fairness ==
    /\ \A c \in Caller : WF_vars(Ask(c)) /\ WF_vars(HoldDeadline(c))
    /\ \A t \in Thread : WF_vars(Answer(t))

FairSpec == Spec /\ Fairness

----------------------------------------------------------------------------
(* "so of two answers at once exactly one is taken" (pending.ts:80), for   *)
(* as long as the question is there: the claim file, created only if       *)
(* absent, has one creator.  Once clear() has removed it, an answer that   *)
(* read the question before creates it anew.                               *)
OneAnswerWhileHeld ==
    \A t, u \in Thread :
        Winner(t) /\ Winner(u) /\ aid[t] = aid[u] /\ aid[t] \notin cleared
            => t = u

(* Said about question q, whether or not answer() took it. *)
Said(q, answers) ==
    {t \in Thread : aid[t] = q /\ aans[t] \in answers}

(* The gate fails closed: a call runs only if a person said yes to the     *)
(* very question it acts on, or a grant covers it because somebody said    *)
(* "for this session" or LEARN_AFTER_APPROVALS other tries were let run.   *)
(* Silence, a lost file, a death or a no never runs it.                    *)
RunsOnlyOnAYes ==
    /\ \A c \in Caller : pc[c] = "allowed" => Said(on[c], Yes) # {}
    /\ \A c \in Caller : pc[c] = "covered" =>
          \/ \E t \in Thread : aans[t] = "session"
          \/ /\ Learns
             /\ \E d, e \in Caller : d # e /\ pc[d] = "allowed" /\ pc[e] = "allowed"

(* "This call only. The next identical one asks again." (hold.ts:10), and  *)
(* a parked answer is "spent once and cleared" (routed-prompt.ts:101): no  *)
(* more calls run on a question than people said "once" to it.             *)
EachOnceRunsOneCall ==
    \A q \in Caller :
        Cardinality({c \in Caller : /\ pc[c] = "allowed"
                                    /\ on[c] = q
                                    /\ got[c] = "once"})
            <= Cardinality(Said(q, {"once"}))

(* And no more calls pass the project boundary on single yeses than were   *)
(* given ("Two processes spending one yes at once must not both get it",   *)
(* session-grants.ts:217).                                                 *)
EachOncePassesOneBoundary ==
    ~granted => Cardinality({c \in Caller : second[c] = "passed"})
                    <= Cardinality({t \in Thread : /\ apc[t] = "answered"
                                                   /\ aans[t] = "once"})

(* A caller that has no terminal acts on what the file says, so who it     *)
(* reports as having answered is who decided (routed-prompt.ts:90).        *)
RecordDecides ==
    \A c \in Caller \ Interactive :
        pc[c] = "settle" /\ got[c] # None =>
            record[c] # None /\ record[c].answer = got[c]

(* A hold with no end holds the agent for ever (PendingApproval.expiresAt), *)
(* and whoever answers second is told, not kept waiting: every held call    *)
(* and every answer ends, whoever answers, dies or stays silent.  A caller  *)
(* asks once, so "in the end nothing is under way" says all of it.          *)
EveryHoldEnds ==
    []<>(/\ \A c \in Caller : ~Running(c)
         /\ \A t \in Thread : apc[t] \in Outcome \cup {"away", "prompt", "no_answer", "crashed"})
=============================================================================
