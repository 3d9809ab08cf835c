------------------------------ MODULE Confirm ------------------------------
(***************************************************************************)
(* A person's answer arriving at the daemon: from the Mac's own socket or  *)
(* from a paired device, to a held call or to a proposal card, and what    *)
(* carrying it out comes to (cli/src/daemon/confirm.ts).                   *)
(*                                                                         *)
(* A Request is one call of confirmAnswer; the daemon handles any number   *)
(* at once, so an action is one file operation or the code between two     *)
(* awaits.  Cards are proposals (core/src/gate/proposals.ts): "given" is   *)
(* one a voice or an agent proposed earlier, with any change the code      *)
(* knows, and "always" is the rule card an "allow from now on" leaves.     *)
(* There is one held call; who else may answer it, and the grants its      *)
(* answer leaves behind, are the subject of HeldCalls.                     *)
(***************************************************************************)
EXTENDS Naturals, FiniteSets

CONSTANTS
    Request, Phone,
    None,
    Changes,     \* the changes the given card may be proposed with
    MaxFaults    \* bound: crashes, failed file operations, authority taken away

Mac == "this-mac"
Device == Phone \cup {Mac}

(* ProposedChange by what the code tells apart: a yes to a held call, a     *)
(* team's question with a yes or a no, rules for a policy file or aimed     *)
(* elsewhere, something shown on the Mac or a session started there, and a  *)
(* command by what its verb needs and how it runs.                          *)
Change == {"answer", "team_yes", "team_no", "rules", "rules_elsewhere",
           "resume", "rewind", "mac_show", "mac_start", "work", "account",
           "cmd_steer", "cmd_mac", "cmd_background", "cmd_never"}
Capability == {"answer", "steer", "rules", "rewind", "mac"}

ASSUME DeviceAssumption == Mac \notin Phone /\ None \notin Device
ASSUME ChangesAssumption == Changes \subseteq Change /\ None \notin Change
ASSUME FaultAssumption == MaxFaults \in Nat

Card == {"given", "always"}
CardAnswer == {"confirmed", "declined"}

(* PendingApproval; "once" stands for a session's yes too, which differs    *)
(* only in the grant it leaves.                                             *)
Held == [answer : {"once", "deny", None}, by : Request \cup {None}, within : BOOLEAN]
Proposal == [change : Change, answer : CardAnswer \cup {None}, ran : Request \cup {None}]

ASSUME RecordAssumption == /\ None \notin Proposal \cup Held
                           /\ None \notin CardAnswer \cup {"once", "deny"}

(* ConfirmInput.  signed names the key the signature verifies under; late   *)
(* compares its moment with the card's expiry; caps and driving are the     *)
(* RemotePrincipal the dispatch read, empty at the Mac.                     *)
InputWith(caps) ==
    [from : Device, subject : Card \cup {"held"},
     answer : {"once", "deny", "always", "team"} \cup CardAnswer,
     signed : Device \cup {None}, edited : BOOLEAN, late : BOOLEAN,
     caps : caps, driving : BOOLEAN]
Input == InputWith(SUBSET Capability)

PC == {"idle", "look", "consent", "mark_read", "mark_write", "apply",
       "merge", "register", "resume", "ran_read", "ran_write",
       "held_look", "held_read", "held_claim", "held_settled",
       "held_write", "offer", "done"}
Outcome == {"refused", "error", "already", "expired", "declined", "answered",
            "let-through", "confirmed", "failed", "lost", None}

VARIABLES
    card,        \* per card, its record or None
    expired,     \* the cards whose expiresAt has passed
    held,        \* the held call's record or None
    claim,       \* its claim file exists
    paused,      \* the session a resume card is about is paused
    rules,       \* the cards whose rule the machine's policy file holds
    registered,  \* that file is on the list every seam loads
    live,        \* devices trusted and not revoked
    may,         \* per device, the capabilities it holds
    background,  \* the confirmed commands still running on their own
    req,         \* per request: where it is, what it read, what it was told,
                 \* and, as history, who held what authority when it arrived
    crowded,     \* history: requests handled while another one was
    carried,     \* history: requests that carried out a card
    counted,     \* history: requests whose answer the held call took
    faults

files == <<card, held, claim, paused, rules, registered>>
devices == <<live, may>>
history == <<crowded, carried, counted>>
vars == <<files, devices, expired, background, req, history, faults>>

NoInput == [from |-> Mac, subject |-> "held", answer |-> "deny", signed |-> None,
            edited |-> FALSE, late |-> FALSE, caps |-> {}, driving |-> FALSE]
Idle == [pc |-> "idle", input |-> NoInput, copy |-> None, saw |-> {}, told |-> None,
         authority |-> {}]

TypeOK ==
    /\ card \in [Card -> Proposal \cup {None}]
    /\ expired \in SUBSET Card
    /\ held \in Held \cup {None}
    /\ claim \in BOOLEAN /\ paused \in BOOLEAN
    /\ rules \in SUBSET Card /\ registered \in BOOLEAN
    /\ live \in SUBSET Device
    /\ may \in [Device -> SUBSET Capability]
    /\ background \in SUBSET Request
    /\ req \in [Request -> [pc : PC, input : Input, saw : SUBSET Card,
                            copy : Proposal \cup Held \cup {None}, told : Outcome,
                            authority : SUBSET (Device \X (Capability \cup {None}))]]
    /\ crowded \in SUBSET Request
    /\ carried \in SUBSET Request
    /\ counted \in SUBSET Request
    /\ faults \in 0 .. MaxFaults

Proposed(change) == [change |-> change, answer |-> None, ran |-> None]

Init ==
    /\ \E given \in Changes, always \in {None, Proposed("rules")} :
          /\ card = [c \in Card |-> IF c = "given" THEN Proposed(given) ELSE always]
          /\ always # None => given = "rules"
          /\ held \in [answer : {None}, by : {None}, within : BOOLEAN] \cup {None}
          /\ (held = None) <=> (always # None)   \* a rule card's call was answered
          /\ given # "answer" /\ held # None => held.within
    /\ claim = FALSE /\ paused = TRUE
    /\ rules = {} /\ registered = FALSE
    /\ expired = {} /\ background = {}
    /\ live = Device
    /\ \E set \in {{"answer", "steer"}, Capability} :   \* PHONE_DEFAULT_CAPABILITIES, or all granted
          may = [d \in Device |-> IF d = Mac THEN Capability ELSE set]
    /\ req = [r \in Request |-> Idle]
    /\ carried = {} /\ crowded = {} /\ counted = {}
    /\ faults = 0

At(r, where) == req[r].pc = where
UnderWay(r) == req[r].pc \notin {"idle", "done"}
Goto(r, next) == req' = [req EXCEPT ![r].pc = next]
Reads(r, record, next) == req' = [req EXCEPT ![r].pc = next, ![r].copy = record]

(* The answer to the request; one that did nothing leaves nothing behind. *)
Ended(r, outcome) ==
    [Idle EXCEPT !.pc = "done", !.told = outcome, !.input = req[r].input,
                 !.authority = req[r].authority]
Ends(r, outcome) == req' = [req EXCEPT ![r] = Ended(r, outcome)]
Leaves(r, outcome) == req' = [req EXCEPT ![r] = [Idle EXCEPT !.pc = "done", !.told = outcome]]

InputOf(r) == req[r].input
Subject(r) == InputOf(r).subject
Confirming(r) == InputOf(r).answer # "declined"
ChangeOf(r) == IF req[r].copy = None THEN None ELSE req[r].copy.change

(* proposalCapability; a held call takes "answer" (answerHeld). *)
CapabilityOf(change) ==
    CASE change \in {"answer", "team_yes", "team_no", "work", "account"} -> "answer"
      [] change \in {"resume", "cmd_steer"} -> "steer"
      [] change \in {"rules", "rules_elsewhere"} -> "rules"
      [] change = "rewind" -> "rewind"
      [] change \in {"mac_show", "mac_start"} -> "mac"
      [] OTHER -> None

(* What a person can tap or say to each subject. *)
Yes == {"once", "always", "confirmed", "team"}
AnswersTo(subject) ==
    CASE subject = "held" -> {"once", "always", "deny"}
      [] subject = "given" -> {"confirmed", "declined"}
      [] OTHER -> {"confirmed", "team", "declined"}

(* The inputs that differ in what the code does with them. *)
Inputs ==
    {i \in InputWith({{}}) :
        /\ i.answer \in AnswersTo(i.subject)
        /\ i.answer \notin Yes => i.signed = None
        /\ i.edited => i.subject = "given" /\ i.answer = "confirmed"
        /\ i.from # Mac => i.signed \in {None, i.from}
        /\ i.driving => i.subject = "given" /\ i.from # Mac
        /\ i.late => i.subject # "held"}

(* Requests about subjects that share no state do not meet: the held call   *)
(* meets a card that answers it and the rule cards, and no other.           *)
Meets(change) ==
    CASE change = "answer" -> {"held", "given"}
      [] change = "rules" -> {"held", "given", "always"}
      [] OTHER -> {"given"}

(* RemoteEndpoint.dispatch and VoiceSurface.confirm: a device's request is  *)
(* let in only while the registry has it live, and carries its entry as     *)
(* read now and whether it drives, which takes "mac"; the Mac's own socket  *)
(* carries no principal.  An expiry shows only in what arrives after it.    *)
Arrive(r, i) ==
    /\ At(r, "idle")
    /\ i.from \in live
    /\ i.subject \in Meets(card["given"].change)
    /\ i.driving => "mac" \in may[i.from]
    /\ i.subject \in expired => i.late
    /\ expired' = IF i.late THEN expired \cup {i.subject} ELSE expired
    /\ req' = [req EXCEPT
          ![r].pc = IF i.subject = "held" THEN "held_look" ELSE "look",
          ![r].input = [i EXCEPT !.caps = IF i.from = Mac THEN {} ELSE may[i.from]],
          ![r].authority = {a \in live \X (Capability \cup {None}) :
                               a[2] \in may[a[1]] \cup {None}}]
    /\ LET others == {q \in Request : UnderWay(q)}
       IN  crowded' = IF others = {} THEN crowded ELSE crowded \cup others \cup {r}
    /\ UNCHANGED <<files, devices, background, carried, counted, faults>>

(* answerProposal: proposals.read, which every check before the mark goes   *)
(* by.                                                                      *)
Look(r) ==
    /\ At(r, "look")
    /\ Reads(r, card[Subject(r)], "consent")
    /\ UNCHANGED <<files, devices, expired, background, history, faults>>

(* Mutant: a call inside its session is let through unsigned from afar too. *)
ConsentsWithin(r, needs, refusing, within, driven) ==
    LET i == InputOf(r)
        remote == i.from # Mac
        signed == IF remote THEN i.signed = i.from ELSE i.signed \in live
    IN  /\ remote => needs # None /\ needs \in i.caps
        /\ \/ refusing
           \/ signed /\ (remote \/ needs = None \/ needs \in may[i.signed])
           \/ ~signed /\ (driven \/ within)

(* consentFor: a device from afar holds the capability or is refused; a     *)
(* refusal then needs nothing; a yes is signed, at the Mac by any live      *)
(* device that holds it and from afar by the sender alone; unsigned it      *)
(* counts only from the device that drives, or at the Mac inside a session. *)
Consents(r, needs, refusing, within, driven) ==
    LET i == InputOf(r)
        remote == i.from # Mac
        signed == IF remote THEN i.signed = i.from ELSE i.signed \in live
    IN  /\ remote => needs # None /\ needs \in i.caps
        /\ \/ refusing
           \/ signed /\ (remote \/ needs = None \/ needs \in may[i.signed])
           \/ ~signed /\ (IF remote THEN driven ELSE within)

(* driveCovers: an asker's own mac proposal that starts no session. *)
DriveCovers(r) == InputOf(r).driving /\ ChangeOf(r) = "mac_show"

(* proposalNeeds reads the held call again for its session; then consent,   *)
(* and the checks before the card is marked: it was proposed, it has words  *)
(* where some were rewritten, and it is aimed at a policy file.             *)
Consent(r) ==
    /\ At(r, "consent")
    /\ IF ~Consents(r, CapabilityOf(ChangeOf(r)),
                    ~Confirming(r) \/ ChangeOf(r) = "team_no",
                    ChangeOf(r) = "answer" /\ held # None /\ held.within,
                    DriveCovers(r))
       THEN Leaves(r, "refused")
       ELSE IF \/ ChangeOf(r) = None
               \/ Confirming(r) /\ InputOf(r).edited /\ ChangeOf(r) # "work"
               \/ Confirming(r) /\ ChangeOf(r) = "rules_elsewhere"
       THEN Leaves(r, "error")
       ELSE Goto(r, "mark_read")
    /\ UNCHANGED <<files, devices, expired, background, history, faults>>

(* Mutant: a card already answered is answered again. *)
MarkReadAgain(r) ==
    /\ At(r, "mark_read")
    /\ LET found == card[Subject(r)]
       IN  CASE found = None -> Leaves(r, "error")
             [] found # None /\ InputOf(r).late -> Leaves(r, "expired")
             [] OTHER -> Reads(r, found, "mark_write")
    /\ UNCHANGED <<files, devices, expired, background, history, faults>>

(* Proposals.answer up to its write: there is no claim to take. *)
MarkRead(r) ==
    /\ At(r, "mark_read")
    /\ LET found == card[Subject(r)]
       IN  CASE found = None -> Leaves(r, "error")
             [] found # None /\ found.answer # None -> Leaves(r, "already")
             [] found # None /\ found.answer = None /\ InputOf(r).late -> Leaves(r, "expired")
             [] OTHER -> Reads(r, found, "mark_write")
    /\ UNCHANGED <<files, devices, expired, background, history, faults>>

MarkWrite(r) ==
    /\ At(r, "mark_write")
    /\ card' = [card EXCEPT ![Subject(r)] = [req[r].copy EXCEPT
                   !.answer = IF Confirming(r) THEN "confirmed" ELSE "declined"]]
    /\ IF Confirming(r) THEN Goto(r, "apply") ELSE Ends(r, "declined")
    /\ UNCHANGED <<held, claim, paused, rules, registered, devices, expired,
                   background, history, faults>>

Carries(r) ==
    /\ carried' = carried \cup {r}
    /\ UNCHANGED <<crowded, counted>>

(* apply for a change that takes one step here: a tree is put back, a       *)
(* command runs, or a show is released to the Mac's screen; the workspace   *)
(* was answered by the device itself.  What is outside may fail.            *)
AlwaysApplies == {"team_yes", "team_no", "mac_show", "mac_start"}

ApplyAtOnce(r) ==
    /\ At(r, "apply")
    /\ ChangeOf(r) \in AlwaysApplies \cup {"rewind", "cmd_steer", "cmd_mac", "cmd_never"}
    /\ \/ ChangeOf(r) # "cmd_never" /\ Carries(r) /\ Ends(r, "confirmed")
       \/ ChangeOf(r) \notin AlwaysApplies /\ UNCHANGED history /\ Leaves(r, "failed")
    /\ UNCHANGED <<files, devices, expired, background, faults>>

(* A login or an onboarding is left running; its result is written over     *)
(* when it ends.                                                            *)
ApplyInBackground(r) ==
    /\ At(r, "apply") /\ ChangeOf(r) = "cmd_background"
    /\ background' = background \cup {r}
    /\ Carries(r) /\ Ends(r, "confirmed")
    /\ UNCHANGED <<files, devices, expired, faults>>

BackgroundEnds(r) ==
    /\ r \in background
    /\ background' = background \ {r}
    /\ UNCHANGED <<files, devices, expired, req, history, faults>>

(* applyPersonal: work goes out in the person's name, or an account is      *)
(* claimed, and what it came to is kept beside the answer.                  *)
ApplyPersonal(r) ==
    /\ At(r, "apply") /\ ChangeOf(r) \in {"work", "account"}
    /\ \/ Carries(r) /\ req' = [req EXCEPT ![r].pc = "ran_read", ![r].told = "confirmed"]
       \/ UNCHANGED history /\ req' = [req EXCEPT ![r].pc = "ran_read", ![r].told = "failed"]
    /\ UNCHANGED <<files, devices, expired, background, faults>>

(* Mutant: where the work failed the record is not read again, so the       *)
(* unanswered copy is kept.                                                 *)
RanReadSkipped(r) ==
    /\ At(r, "ran_read")
    /\ IF req[r].told = "failed" THEN Goto(r, "ran_write")
       ELSE Reads(r, card[Subject(r)], "ran_write")
    /\ UNCHANGED <<files, devices, expired, background, history, faults>>

(* Proposals.ran: the record is read again and written whole. *)
RanRead(r) ==
    /\ At(r, "ran_read")
    /\ Reads(r, card[Subject(r)], "ran_write")
    /\ UNCHANGED <<files, devices, expired, background, history, faults>>

RanWrite(r) ==
    /\ At(r, "ran_write")
    /\ card' = [card EXCEPT ![Subject(r)] = [req[r].copy EXCEPT !.ran = r]]
    /\ Ends(r, req[r].told)
    /\ UNCHANGED <<held, claim, paused, rules, registered, devices, expired,
                   background, history, faults>>

(* offerToTeam: written to no file here, and only where there is a team. *)
OfferToTeam(r) ==
    /\ At(r, "apply") /\ ChangeOf(r) = "rules" /\ InputOf(r).answer = "team"
    /\ \/ Carries(r) /\ Ends(r, "confirmed")
       \/ UNCHANGED history /\ Leaves(r, "failed")
    /\ UNCHANGED <<files, devices, expired, background, faults>>

(* mergeRules: the policy document is read, written whole with the rule in  *)
(* it, and the file put on the list.                                        *)
ApplyRules(r) ==
    /\ At(r, "apply") /\ ChangeOf(r) = "rules" /\ InputOf(r).answer # "team"
    /\ req' = [req EXCEPT ![r].pc = "merge", ![r].saw = rules]
    /\ UNCHANGED <<files, devices, expired, background, history, faults>>

(* Mutant: the file is written, and not put on the list. *)
MergeRulesUnlisted(r) ==
    /\ At(r, "merge")
    /\ rules' = req[r].saw \cup {Subject(r)}
    /\ Carries(r)
    /\ Ends(r, "confirmed")
    /\ UNCHANGED <<card, held, claim, paused, registered, devices, expired,
                   background, faults>>

MergeRules(r) ==
    /\ At(r, "merge")
    /\ rules' = req[r].saw \cup {Subject(r)}
    /\ Carries(r)
    /\ Goto(r, "register")
    /\ UNCHANGED <<card, held, claim, paused, registered, devices, expired,
                   background, faults>>

RegisterPolicyFile(r) ==
    /\ At(r, "register")
    /\ registered' = TRUE
    /\ Ends(r, "confirmed")
    /\ UNCHANGED <<card, held, claim, paused, rules, devices, expired,
                   background, history, faults>>

(* SessionPauses.resume: the pause in force is read, then written lifted. *)
ApplyResume(r) ==
    /\ At(r, "apply") /\ ChangeOf(r) = "resume"
    /\ IF paused THEN Goto(r, "resume") ELSE Leaves(r, "failed")
    /\ UNCHANGED <<files, devices, expired, background, history, faults>>

Resume(r) ==
    /\ At(r, "resume")
    /\ paused' = FALSE
    /\ Carries(r)
    /\ Ends(r, "confirmed")
    /\ UNCHANGED <<card, held, claim, rules, registered, devices, expired,
                   background, faults>>

(***************************************************************************)
(* The held call, answered itself or through a card.                       *)
(***************************************************************************)
(* answerHeld: the record is read for what it says of the session, and      *)
(* consent asked for.                                                       *)
HeldLook(r) ==
    /\ At(r, "held_look")
    /\ IF Consents(r, "answer", InputOf(r).answer = "deny",
                   held # None /\ held.within, FALSE)
       THEN Reads(r, held, "held_read")
       ELSE Leaves(r, "refused")
    /\ UNCHANGED <<files, devices, expired, background, history, faults>>

(* applyHeldAnswer reads the record for its row before it answers. *)
ApplyHeldAnswer(r) ==
    /\ At(r, "apply") /\ ChangeOf(r) = "answer"
    /\ Reads(r, held, "held_read")
    /\ UNCHANGED <<files, devices, expired, background, history, faults>>

(* PendingApprovals.answer found one there: a card is told let-through.     *)
HeldAlready(r) == IF Subject(r) = "held" THEN Leaves(r, "already") ELSE Ends(r, "let-through")

HeldRead(r) ==
    /\ At(r, "held_read")
    /\ CASE held = None -> Leaves(r, "error")
         [] held # None /\ held.answer # None /\ req[r].copy = None -> Leaves(r, "error")
         [] held # None /\ held.answer # None /\ req[r].copy # None -> HeldAlready(r)
         [] OTHER -> Reads(r, held, "held_claim")
    /\ UNCHANGED <<files, devices, expired, background, history, faults>>

HeldClaim(r) ==
    /\ At(r, "held_claim")
    /\ claim' = TRUE
    /\ Goto(r, IF claim THEN "held_settled" ELSE "held_write")
    /\ UNCHANGED <<card, held, paused, rules, registered, devices, expired,
                   background, history, faults>>

(* The claim was another's: what is on file now is what already happened. *)
HeldSettled(r) ==
    /\ At(r, "held_settled")
    /\ IF held = None THEN Leaves(r, "error") ELSE HeldAlready(r)
    /\ UNCHANGED <<files, devices, expired, background, history, faults>>

(* The answer is written whole over the copy, and its row appended. *)
HeldWrite(r) ==
    /\ At(r, "held_write")
    /\ held' = [req[r].copy EXCEPT !.by = r,
                   !.answer = IF InputOf(r).answer = "deny" THEN "deny" ELSE "once"]
    /\ counted' = counted \cup {r}
    /\ carried' = IF Subject(r) = "held" THEN carried ELSE carried \cup {r}
    /\ CASE Subject(r) # "held" -> Ends(r, "let-through")
         [] Subject(r) = "held" /\ InputOf(r).answer = "always" -> Goto(r, "offer")
         [] OTHER -> Ends(r, "answered")
    /\ UNCHANGED <<card, claim, paused, rules, registered, devices, expired,
                   background, crowded, faults>>

(* proposeFromNowOn: no card for a delete, a team's rule or an ask no rule  *)
(* made; otherwise a fresh rule card.                                       *)
ProposeFromNowOn(r) ==
    /\ At(r, "offer")
    /\ \/ UNCHANGED card
       \/ /\ card["always"] = None
          /\ card' = [card EXCEPT !["always"] = Proposed("rules")]
    /\ Ends(r, "answered")
    /\ UNCHANGED <<held, claim, paused, rules, registered, devices, expired,
                   background, crowded, carried, counted, faults>>

(***************************************************************************)
(* What happens around a request.                                          *)
(***************************************************************************)
(* PendingApprovals.clear, by the process that held the call, once it read  *)
(* an answer.                                                               *)
HeldClearClaim ==
    /\ held # None /\ held.answer # None /\ claim
    /\ claim' = FALSE
    /\ UNCHANGED <<card, held, paused, rules, registered, devices, expired,
                   background, req, history, faults>>

HeldClearRecord ==
    /\ held # None /\ held.answer # None /\ ~claim
    /\ held' = None
    /\ UNCHANGED <<card, claim, paused, rules, registered, devices, expired,
                   background, req, history, faults>>

(* RemoteEndpoint.revoke and ungrant. *)
Revoke(p) ==
    /\ faults < MaxFaults /\ faults' = faults + 1
    /\ p \in live
    /\ live' = live \ {p}
    /\ UNCHANGED <<files, may, expired, background, req, history>>

Ungrant(p, c) ==
    /\ faults < MaxFaults /\ faults' = faults + 1
    /\ p \in live /\ c \in may[p]
    /\ c \in {"answer", CapabilityOf(card["given"].change)}   \* the others decide nothing here
    /\ may' = [may EXCEPT ![p] = @ \ {c}]
    /\ UNCHANGED <<files, live, expired, background, req, history>>

(* A file operation fails: what was done before it stays done. *)
Fails(r) ==
    /\ faults < MaxFaults /\ faults' = faults + 1
    /\ UnderWay(r)
    /\ IF r \in carried \cup counted THEN Ends(r, "failed") ELSE Leaves(r, "failed")
    /\ UNCHANGED <<files, devices, expired, background, history>>

(* The daemon stops: the requests under way and the commands it was         *)
(* waiting for are gone.                                                    *)
Crash ==
    /\ faults < MaxFaults /\ faults' = faults + 1
    /\ req' = [r \in Request |->
                  CASE ~UnderWay(r) -> req[r]
                    [] UnderWay(r) /\ r \in carried \cup counted -> Ended(r, "lost")
                    [] OTHER -> [Idle EXCEPT !.pc = "done", !.told = "lost"]]
    /\ background' = {}
    /\ UNCHANGED <<files, devices, expired, history>>

Step(r) ==
    \/ Look(r) \/ Consent(r) \/ MarkRead(r) \/ MarkWrite(r)
    \/ ApplyAtOnce(r) \/ ApplyInBackground(r) \/ ApplyPersonal(r)
    \/ RanRead(r) \/ RanWrite(r)
    \/ OfferToTeam(r) \/ ApplyRules(r) \/ MergeRules(r) \/ RegisterPolicyFile(r)
    \/ ApplyResume(r) \/ Resume(r)
    \/ HeldLook(r) \/ ApplyHeldAnswer(r) \/ HeldRead(r) \/ HeldClaim(r)
    \/ HeldSettled(r) \/ HeldWrite(r) \/ ProposeFromNowOn(r)

Next ==
    \/ \E r \in Request :
          \/ \E i \in Inputs : Arrive(r, i)
          \/ Step(r)
          \/ BackgroundEnds(r)
          \/ Fails(r)
    \/ HeldClearClaim \/ HeldClearRecord
    \/ \E p \in Phone : Revoke(p) \/ \E c \in Capability : Ungrant(p, c)
    \/ Crash

Spec == Init /\ [][Next]_vars

(***************************************************************************)
(* Properties.                                                             *)
(***************************************************************************)
Did(r) == r \in carried \/ (r \in counted /\ InputOf(r).answer # "deny")
NeededBy(r) == IF Subject(r) = "held" THEN "answer"
               ELSE CapabilityOf(card[Subject(r)].change)

(* Nothing a person has to allow happens without one: what a request let    *)
(* through or carried out was signed by a device that, when the request     *)
(* arrived, was trusted and held the capability for it.  The exceptions are *)
(* the ones consentFor names: a no to a team's question, a yes at the Mac   *)
(* inside a session, and a show on the Mac asked for by the phone that      *)
(* drives it.                                                               *)
YesIsSigned ==
    \A r \in Request : Did(r) =>
        \/ <<InputOf(r).signed, NeededBy(r)>> \in req[r].authority
        \/ Subject(r) # "held" /\ card[Subject(r)].change = "team_no"
        \/ /\ InputOf(r).from = Mac /\ r \in counted
           /\ held # None => held.within
        \/ /\ Subject(r) = "given" /\ card["given"].change = "mac_show"
           /\ InputOf(r).driving /\ <<InputOf(r).from, "mac">> \in req[r].authority

(* Whatever is written over it, an answered card stays answered, so no      *)
(* request that arrives later can answer it again (Proposals.answer, ran).  *)
AnswerSticks ==
    [][\A c \in Card : card[c] # None /\ card[c].answer # None
          => card'[c] # None /\ card'[c].answer # None]_vars

(* What a request acted on: its card, by carrying it out or declining it,   *)
(* and the held call, by an answer that counted.                            *)
ActedOn(r) ==
    (IF r \in carried \/ req[r].told = "declined" THEN {Subject(r)} ELSE {})
    \cup (IF r \in counted THEN {"held"} ELSE {})

(* A card is acted on once, and a held call answered once, by whichever way *)
(* the answers came: two requests that both did were being handled at the   *)
(* same time.                                                               *)
OneActsUnlessCrowded ==
    \A r, s \in Request :
        r # s /\ ActedOn(r) \cap ActedOn(s) # {} => r \in crowded /\ s \in crowded

(* The requests told that their change was carried out, with no other       *)
(* request handled beside them.                                             *)
ToldAlone == {r \in carried \ crowded : At(r, "done") /\ req[r].told = "confirmed"}

(* A rule a person was told is in place is in the policy file and the file  *)
(* is one every seam loads: unless another request wrote the same file from *)
(* a copy it read before.                                                   *)
ConfirmedRuleHolds ==
    \A r \in ToldAlone :
        card[Subject(r)].change = "rules" /\ InputOf(r).answer # "team"
            => Subject(r) \in rules /\ registered

=============================================================================
