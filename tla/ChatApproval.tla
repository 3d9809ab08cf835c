---------------------------- MODULE ChatApproval ----------------------------
(***************************************************************************)
(* A question held in the agent's own chat.                                *)
(*                                                                         *)
(* Where the host shows no prompt of its own, the hook on a tool call      *)
(* (interceptors/src/tool-hook.ts) writes the question down, refuses the   *)
(* call and ends; the agent tries again once somebody answered.  The same  *)
(* record is rewritten whole by the hook that raised it (holdInChat,       *)
(* alsoOn), by whoever answers (PendingApprovals.answer) and by the hooks  *)
(* that tell the agent (markTold), each from a copy it read earlier, and   *)
(* removed by the retry that acts on it (withChatAnswer).                  *)
(*                                                                         *)
(* Every Call is the same call of one session, tried again.  A Pause is a  *)
(* hook at a prompt, at the end of a turn or after a tool, or around the   *)
(* picker; a Remote is an answer from a DM, the Mac or a phone.  An action *)
(* is one file operation, or the code between two.  A yes also leaves a    *)
(* single grant for the project boundary (allowOnce), which HeldCalls      *)
(* models; no hook here reads it.                                          *)
(***************************************************************************)
EXTENDS Naturals, FiniteSets

CONSTANTS
    Call, Pause, Remote,
    None,
    Serial,      \* the hooks of the session run one after another
    MaxMs,       \* bound: moments at which a question may be raised
    MaxFaults    \* bound: file operations that fail

ASSUME ProcessAssumption ==
    /\ Call \cap Pause = {} /\ Call \cap Remote = {} /\ Pause \cap Remote = {}
    /\ None \notin Call \cup Pause \cup Remote
    /\ None \notin {"once", "session", "deny"} /\ None \notin 1 .. MaxMs
ASSUME SerialAssumption == Serial \in BOOLEAN
ASSUME BoundAssumption == MaxMs \in Nat /\ MaxFaults \in Nat

Answer == {"once", "session", "deny"}
Yes == {"once", "session"}
Giver == Pause \cup Remote
Process == Call \cup Giver

(* pendingIdFor: the moment it was raised and the fingerprint, which all    *)
(* the calls share.                                                         *)
Id == 1 .. MaxMs

(* PendingApproval: away is a DM route, or alsoOn naming a place. *)
Pending == [answer : Answer \cup {None}, by : Giver \cup {None},
            told : BOOLEAN, away : BOOLEAN]

VARIABLES
    record,     \* per id, the question's file, or None
    claimed,    \* the ids whose claim file exists
    expired,    \* the ids whose expiresAt has passed
    ms,         \* the clock an id is taken from
    granted,    \* the session's grants cover the call
    opened,     \* pickers seen opening with nothing filled in
    pc, at, copy,
    filled,     \* pickers whose answer the agent filled in itself
    tell,       \* the answers a pause is about to tell the agent
    ranOn,      \* history: the giver whose answer let a call run
    heard,      \* history: how often the agent was told a giver's answer
    said,       \* history: the answer each giver, a person, wrote
    faults

files == <<record, claimed, granted, opened>>
hooks == <<pc, at, copy, filled, tell>>
history == <<ranOn, heard, said>>
vars == <<files, expired, ms, hooks, history, faults>>

Done == {"ran", "refused", "held", "done"}
CallPC == {"idle", "covers", "answer", "hold", "raise", "keep", "places",
           "wait", "reask", "clear_claim", "clear_record", "settle",
           "also_read", "also_keep", "ran", "refused", "held"}
GiverPC == {"idle", "prompt", "listen", "picking", "picked", "read", "claim",
            "write", "grant", "tell", "done"}

TypeOK ==
    /\ record \in [Id -> Pending \cup {None}]
    /\ claimed \in SUBSET Id
    /\ expired \in SUBSET Id
    /\ ms \in 0 .. MaxMs
    /\ granted \in BOOLEAN
    /\ opened \in SUBSET Pause
    /\ filled \in SUBSET Pause
    /\ pc \in [Process -> CallPC \cup GiverPC]
    /\ at \in [Process -> Id \cup {None}]
    /\ copy \in [Process -> Pending \cup {None}]
    /\ tell \in [Pause -> SUBSET (Id \X Pending)]
    /\ ranOn \in [Call -> Giver \cup {None}]
    /\ heard \in [Giver -> Nat]
    /\ said \in [Giver -> Answer \cup {None}]
    /\ faults \in 0 .. MaxFaults

Init ==
    /\ record = [i \in Id |-> None]
    /\ claimed = {} /\ expired = {} /\ ms = 0
    /\ granted = FALSE /\ opened = {} /\ filled = {}
    /\ pc = [p \in Process |-> "idle"]
    /\ at = [p \in Process |-> None]
    /\ copy = [p \in Process |-> None]
    /\ tell = [p \in Pause |-> {}]
    /\ ranOn = [c \in Call |-> None]
    /\ heard = [g \in Giver |-> 0]
    /\ said = [g \in Giver |-> None]
    /\ faults = 0

Goto(p, next) == pc' = [pc EXCEPT ![p] = next]

(* A hook that ended leaves nothing of its own behind. *)
Returns(c) == /\ at' = [at EXCEPT ![c] = None]
              /\ copy' = [copy EXCEPT ![c] = None]

UnderWay(p) == pc[p] \notin Done \cup {"idle"}

(* Hooks of one session run one after another where the host does so. *)
MayStart(p) == Serial => \A q \in Call \cup Pause : ~UnderWay(q)

(* PendingApprovals.list *)
Listed == {i \in Id : record[i] # None /\ i \notin expired}

(* openQuestionFor: the oldest, answered or not. *)
OpenQuestion(i) == i \in Listed /\ \A j \in Listed : i <= j

(* openInSession, answeredUntold *)
OpenInSession == {i \in Listed : record[i].answer = None}
AnsweredUntold == {i \in Listed : record[i].answer # None /\ ~record[i].told}

-----------------------------------------------------------------------------
(* The hook on a tool call: answerToolCall in tool-hook.ts. *)

Start(c) ==
    /\ pc[c] = "idle" /\ MayStart(c) /\ ms < MaxMs
    /\ Goto(c, "covers")
    /\ UNCHANGED <<files, expired, ms, at, copy, filled, tell, history, faults>>

(* withSessionGrant: a grant lets the call through before anything is asked. *)
WithSessionGrant(c) ==
    /\ pc[c] = "covers"
    /\ Goto(c, IF granted THEN "ran" ELSE "answer")
    /\ UNCHANGED <<files, expired, ms, at, copy, filled, tell, history, faults>>

(* withChatAnswer up to its clear(), on the way in and after the wait. *)
WithChatAnswer(c) ==
    /\ pc[c] \in {"answer", "reask"}
    /\ \/ \E i \in Id :
            /\ OpenQuestion(i) /\ record[i].answer # None
            /\ at' = [at EXCEPT ![c] = i]
            /\ copy' = [copy EXCEPT ![c] = record[i]]
            /\ Goto(c, "clear_claim")
       \/ /\ \A i \in Id : OpenQuestion(i) => record[i].answer = None
          /\ Goto(c, IF pc[c] = "answer" THEN "hold" ELSE "also_read")
          /\ UNCHANGED <<at, copy>>
    /\ UNCHANGED <<files, expired, ms, filled, tell, history, faults>>

(* clear(): the claim first, then the record. *)
ClearClaim(c) ==
    /\ pc[c] = "clear_claim"
    /\ claimed' = claimed \ {at[c]}
    /\ Goto(c, "clear_record")
    /\ UNCHANGED <<record, granted, opened, expired, ms, at, copy, filled,
                   tell, history, faults>>

ClearRecordLeft(c) ==
    /\ pc[c] = "clear_record"
    /\ Goto(c, "settle")
    /\ UNCHANGED <<files, expired, ms, at, copy, filled, tell, history, faults>>

ClearRecord(c) ==
    /\ pc[c] = "clear_record"
    /\ record' = [record EXCEPT ![at[c]] = None]
    /\ Goto(c, "settle")
    /\ UNCHANGED <<claimed, granted, opened, expired, ms, at, copy, filled,
                   tell, history, faults>>

(* The rest of withChatAnswer: a session yes is granted again, best effort. *)
Settle(c) ==
    /\ pc[c] = "settle"
    /\ granted' = (granted \/ copy[c].answer = "session")
    /\ Goto(c, IF copy[c].answer \in Yes THEN "ran" ELSE "refused")
    /\ ranOn' = [ranOn EXCEPT ![c] = IF copy[c].answer \in Yes THEN copy[c].by
                                     ELSE None]
    /\ Returns(c)
    /\ UNCHANGED <<record, claimed, opened, expired, ms, filled, tell, heard,
                   said, faults>>

RaiseAnew(c) ==
    /\ pc[c] = "hold"
    /\ Goto(c, "raise")
    /\ UNCHANGED <<files, expired, ms, at, copy, filled, tell, history, faults>>

(* holdInChat finds the question already waiting, or raises one. *)
HoldInChat(c) ==
    /\ pc[c] = "hold"
    /\ \/ \E i \in Id :
            /\ OpenQuestion(i)
            /\ at' = [at EXCEPT ![c] = i]
            /\ copy' = [copy EXCEPT ![c] = record[i]]
            /\ Goto(c, "places")
       \/ /\ Listed = {}
          /\ Goto(c, "raise")
          /\ UNCHANGED <<at, copy>>
    /\ UNCHANGED <<files, expired, ms, filled, tell, history, faults>>

(* raise: the id is the millisecond, so two hooks of one moment share it.    *)
(* Hooks one after another are further apart than that.                      *)
Raise(c) ==
    /\ pc[c] = "raise"
    /\ \/ ms < MaxMs /\ ms' = ms + 1
       \/ ~Serial /\ ms > 0 /\ ms' = ms
    /\ at' = [at EXCEPT ![c] = ms']
    /\ record' = [record EXCEPT ![ms'] =
                    [answer |-> None, by |-> None, told |-> FALSE, away |-> FALSE]]
    /\ copy' = [copy EXCEPT ![c] = record'[ms']]
    /\ Goto(c, "keep")
    /\ UNCHANGED <<claimed, granted, opened, expired, filled, tell, history,
                   faults>>

(* keep: what raise returned, with the route the person chose. *)
Keep(c) ==
    /\ pc[c] = "keep"
    /\ \E dm \in BOOLEAN :
         /\ copy' = [copy EXCEPT ![c].away = dm]
         /\ record' = [record EXCEPT ![at[c]] = copy'[c]]
    /\ Goto(c, "places")
    /\ UNCHANGED <<claimed, granted, opened, expired, ms, at, filled, tell,
                   history, faults>>

(* answerPlaces: a listening Mac is waited for, a phone only marked. *)
AnswerPlaces(c) ==
    /\ pc[c] = "places"
    /\ \/ \E next \in {"wait", "also_read"} : Goto(c, next) /\ UNCHANGED <<at, copy>>
       \/ Goto(c, "held") /\ Returns(c)
    /\ UNCHANGED <<files, expired, ms, filled, tell, history, faults>>

(* spokenAnswer: waitForAnswer sees an answer, or no record.  A record that  *)
(* is gone, and a deadline, both leave the question standing.                *)
SpokenAnswer(c) ==
    /\ pc[c] = "wait"
    /\ \/ record[at[c]] # None /\ record[at[c]].answer # None /\ Goto(c, "reask")
       \/ record[at[c]] = None /\ Goto(c, "also_read")
    /\ UNCHANGED <<files, expired, ms, at, copy, filled, tell, history, faults>>

WaitOver(c) ==
    /\ pc[c] = "wait"
    /\ Goto(c, "also_read")
    /\ UNCHANGED <<files, expired, ms, at, copy, filled, tell, history, faults>>

(* alsoOn: read again, or the copy where it is gone, and kept marked. *)
AlsoOnRead(c) ==
    /\ pc[c] = "also_read"
    /\ copy' = [copy EXCEPT ![c] = IF record[at[c]] # None THEN record[at[c]] ELSE @]
    /\ Goto(c, "also_keep")
    /\ UNCHANGED <<files, expired, ms, at, filled, tell, history, faults>>

AlsoOnKeep(c) ==
    /\ pc[c] = "also_keep"
    /\ record' = [record EXCEPT ![at[c]] = [copy[c] EXCEPT !.away = TRUE]]
    /\ Goto(c, "held") /\ Returns(c)
    /\ UNCHANGED <<claimed, granted, opened, expired, ms, filled, tell, history,
                   faults>>

(* The failures answerToolCall goes on from: a list or a clear that failed   *)
(* leaves the question as it is, a question that could not be written is     *)
(* refused, and a mark that could not be written is left out.                *)
HookFileFails(c) ==
    /\ faults < MaxFaults /\ faults' = faults + 1
    /\ \/ /\ \/ pc[c] = "covers" /\ Goto(c, "answer")
             \/ pc[c] = "answer" /\ Goto(c, "hold")
             \/ pc[c] \in {"clear_claim", "clear_record"} /\ Goto(c, "settle")
          /\ UNCHANGED <<at, copy>>
       \/ /\ \/ pc[c] \in {"hold", "raise", "keep"} /\ Goto(c, "refused")
             \/ pc[c] = "also_keep" /\ Goto(c, "held")
          /\ Returns(c)
    /\ UNCHANGED <<files, expired, ms, filled, tell, history>>

-----------------------------------------------------------------------------
(* PendingApprovals.answer, step by step, for every giver. *)

AnswerRead(g) ==
    /\ pc[g] = "read"
    /\ LET r == record[at[g]] IN
         IF r = None \/ r.answer # None
         THEN Goto(g, "done") /\ UNCHANGED copy
         ELSE Goto(g, "claim") /\ copy' = [copy EXCEPT ![g] = r]
    /\ UNCHANGED <<files, expired, ms, at, filled, tell, history, faults>>

AnswerClaim(g) ==
    /\ pc[g] = "claim"
    /\ Goto(g, IF at[g] \in claimed THEN "done" ELSE "write")
    /\ claimed' = claimed \cup {at[g]}
    /\ UNCHANGED <<record, granted, opened, expired, ms, at, copy, filled,
                   tell, history, faults>>

(* A pause that answered tells the agent next, from the record it wrote. *)
AnswerWrite(g) ==
    /\ pc[g] = "write"
    /\ \E answer \in Answer :
         /\ copy' = [copy EXCEPT ![g].answer = answer, ![g].by = g]
         /\ said' = [said EXCEPT ![g] = IF g \in filled THEN None ELSE answer]
    /\ record' = [record EXCEPT ![at[g]] = copy'[g]]
    /\ Goto(g, "grant")
    /\ UNCHANGED <<claimed, granted, opened, expired, ms, at, filled, tell,
                   ranOn, heard, faults>>

AnswerGrant(g) ==
    /\ pc[g] = "grant"
    /\ granted' = (granted \/ copy[g].answer = "session")
    /\ IF g \in Pause
       THEN Goto(g, "tell") /\ tell' = [tell EXCEPT ![g] = {<<at[g], copy[g]>>}]
       ELSE Goto(g, "done") /\ UNCHANGED tell
    /\ UNCHANGED <<record, claimed, opened, expired, ms, at, copy, filled,
                   history, faults>>

(* A DM, the Mac or a phone shows whatever is not expired. *)
RemoteAnswers(r) ==
    /\ pc[r] = "idle"
    /\ \E i \in OpenInSession : at' = [at EXCEPT ![r] = i]
    /\ Goto(r, "read")
    /\ UNCHANGED <<files, expired, ms, copy, filled, tell, history, faults>>

-----------------------------------------------------------------------------
(* The hooks at a pause: in-session.ts and held-picker.ts. *)

PauseStarts(p) ==
    /\ pc[p] = "idle" /\ MayStart(p)
    /\ \/ \E next \in {"prompt", "listen"} : Goto(p, next) /\ UNCHANGED filled
       \/ Goto(p, "picking") /\ filled' \in {filled, filled \cup {p}}
    /\ UNCHANGED <<files, expired, ms, at, copy, tell, history, faults>>

(* answerInChat: a reply names a question, or there is only one. *)
AnswerInChat(p) ==
    /\ pc[p] = "prompt"
    /\ \/ \E i \in OpenInSession :
            at' = [at EXCEPT ![p] = i] /\ Goto(p, "read")
       \/ Goto(p, "done") /\ UNCHANGED at
    /\ UNCHANGED <<files, expired, ms, copy, filled, tell, history, faults>>

(* answersArrived: what nobody told the agent, else a bounded wait. *)
AnswersArrived(p) ==
    /\ pc[p] = "listen" /\ AnsweredUntold # {}
    /\ tell' = [tell EXCEPT ![p] = {<<i, record[i]>> : i \in AnsweredUntold}]
    /\ Goto(p, "tell")
    /\ UNCHANGED <<files, expired, ms, at, copy, filled, history, faults>>

ListenEnds(p) ==
    /\ pc[p] = "listen" /\ AnsweredUntold = {}
    /\ Goto(p, "done")
    /\ UNCHANGED <<files, expired, ms, at, copy, filled, tell, history, faults>>

(* answerPicker before the picker opens: one already answered is told, one  *)
(* with an answer filled in, or no longer open, is refused, else it is       *)
(* written down as opened.                                                   *)
PickerOpens(p) ==
    /\ pc[p] = "picking"
    /\ \E i \in Id :
         /\ record[i] # None
         /\ at' = [at EXCEPT ![p] = i]
         /\ \/ /\ record[i].answer # None
               /\ tell' = [tell EXCEPT ![p] = {<<i, record[i]>>}]
               /\ Goto(p, "tell") /\ UNCHANGED opened
            \/ /\ record[i].answer = None /\ (p \in filled \/ i \notin Listed)
               /\ Goto(p, "done") /\ UNCHANGED <<opened, tell>>
            \/ /\ record[i].answer = None /\ p \notin filled /\ i \in Listed
               /\ opened' = opened \cup {p}
               /\ Goto(p, "picked") /\ UNCHANGED tell
    /\ UNCHANGED <<record, claimed, granted, expired, ms, copy, filled,
                   history, faults>>

(* A picker whose opening no hook saw ends with its answers as they are. *)
PickerUnseen(p) ==
    /\ pc[p] = "picking"
    /\ \E i \in Id \cup {None} : at' = [at EXCEPT ![p] = i]
    /\ Goto(p, IF at'[p] = None THEN "done" ELSE "picked")
    /\ UNCHANGED <<files, expired, ms, copy, filled, tell, history, faults>>

(* answerPicker after it: an answer that came first stands; else the pick is *)
(* the answer, from a picker seen opening empty only; anything else they     *)
(* typed is none.                                                            *)
Picked(p) ==
    /\ pc[p] = "picked"
    /\ LET r == record[at[p]] IN
         \/ /\ r # None /\ r.answer # None
            /\ tell' = [tell EXCEPT ![p] = {<<at[p], r>>}]
            /\ Goto(p, "tell")
         \/ /\ r # None /\ r.answer = None /\ p \in opened /\ at[p] \in Listed
            /\ Goto(p, "read") /\ UNCHANGED tell
         \/ /\ r # None => r.answer = None
            /\ Goto(p, "done") /\ UNCHANGED tell
    /\ opened' = opened \ {p}
    /\ UNCHANGED <<record, claimed, granted, expired, ms, at, copy, filled,
                   history, faults>>

(* A reply, or the end of a turn, is what tells an answer; a picker refused  *)
(* because of one repeats it.                                                *)
Hears(p, t) == IF at[p] = None \/ t[2].by = p THEN 1 ELSE 0

TellUnmarked(p) ==
    /\ pc[p] = "tell"
    /\ \E t \in tell[p] :
         /\ heard' = [heard EXCEPT ![t[2].by] = @ + Hears(p, t)]
         /\ tell' = [tell EXCEPT ![p] = @ \ {t}]
    /\ Goto(p, IF tell'[p] = {} THEN "done" ELSE "tell")
    /\ UNCHANGED <<files, expired, ms, at, copy, filled, ranOn, said, faults>>

(* markTold, one record at a time, and the words the agent is given. *)
MarkTold(p) ==
    /\ pc[p] = "tell"
    /\ \E t \in tell[p] :
         /\ record' = [record EXCEPT ![t[1]] = [t[2] EXCEPT !.told = TRUE]]
         /\ heard' = [heard EXCEPT ![t[2].by] = @ + Hears(p, t)]
         /\ tell' = [tell EXCEPT ![p] = @ \ {t}]
    /\ Goto(p, IF tell'[p] = {} THEN "done" ELSE "tell")
    /\ UNCHANGED <<claimed, granted, opened, expired, ms, at, copy, filled,
                   ranOn, said, faults>>

(* CHAT_APPROVAL_MS passes. *)
Expire(i) ==
    /\ record[i] # None /\ i \notin expired
    /\ expired' = expired \cup {i}
    /\ UNCHANGED <<files, ms, hooks, history, faults>>

-----------------------------------------------------------------------------
CallStep(c) ==
    \/ WithSessionGrant(c) \/ WithChatAnswer(c) \/ ClearClaim(c) \/ ClearRecord(c)
    \/ Settle(c) \/ HoldInChat(c) \/ Raise(c) \/ Keep(c) \/ AnswerPlaces(c)
    \/ SpokenAnswer(c) \/ WaitOver(c) \/ AlsoOnRead(c) \/ AlsoOnKeep(c)

AnswerStep(g) ==
    AnswerRead(g) \/ AnswerClaim(g) \/ AnswerWrite(g) \/ AnswerGrant(g)

PauseStep(p) ==
    \/ AnswerInChat(p) \/ AnswersArrived(p) \/ ListenEnds(p)
    \/ PickerOpens(p) \/ PickerUnseen(p) \/ Picked(p) \/ MarkTold(p)

Next ==
    \/ \E c \in Call : Start(c) \/ CallStep(c) \/ HookFileFails(c)
    \/ \E g \in Giver : AnswerStep(g)
    \/ \E r \in Remote : RemoteAnswers(r)
    \/ \E p \in Pause : PauseStarts(p) \/ PauseStep(p)
    \/ \E i \in Id : Expire(i)

Spec == Init /\ [][Next]_vars

-----------------------------------------------------------------------------

(* What a hold promises (Consent), with none of its files: a person's answer *)
(* is given once and stands; each call runs on a yes given before; one       *)
(* "once" lets one call run, since the retry that acts on it has taken the   *)
(* question away before it runs (withChatAnswer clears first) and no hook    *)
(* that tells the agent, marks the question or answers late puts it back,    *)
(* unless a file operation failed.  For hooks that follow one another.       *)
Promise ==
    INSTANCE Consent WITH
        ran   <- {c \in Call : pc[c] = "ran"},
        lossy <- faults > 0

ImplementsConsent == Promise!Spec

(* "asking twice before an answer is one question" (chat-approval.ts:66):    *)
(* however calls, retries, expiries and answers follow one another, at most  *)
(* one question of the call waits for an answer.                             *)
OneOpenQuestion == Cardinality(OpenInSession) <= 1

(* "Kept so the agent hears each answer once, however many turns end after   *)
(* it" (chat-approval.ts:194): the end of a turn tells no answer that a      *)
(* reply or an earlier end of a turn told, though the record was rewritten   *)
(* by other hooks in between.                                                *)
ToldOnce == \A g \in Giver : heard[g] <= 1
=============================================================================
