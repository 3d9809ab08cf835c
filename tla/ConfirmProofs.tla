--------------------------- MODULE ConfirmProofs ---------------------------
(***************************************************************************)
(* Theorems about Confirm, for any requests, phones, changes and faults.   *)
(*                                                                         *)
(* None of its properties is inductive.  That a yes was signed is known    *)
(* where consentFor lets a request past, and used where the change is      *)
(* carried out, with file operations of others between the two: YesInv     *)
(* carries the reason along, and rests on authority only shrinking         *)
(* (AuthorityInv), on every copy of the held call agreeing about its       *)
(* session (WithinInv) and on the card still being about the change that   *)
(* was consented to (CardInv).  That a card is acted on once extends what  *)
(* a request acted on to what it is about to act on (ActInv): the reading  *)
(* of an unanswered card excludes everyone who has come further            *)
(* (AnsweredInv), and the rest are still under way, so crowded (AloneInv). *)
(* RuleInv adds the copies of the policy file about to be written.         *)
(*                                                                         *)
(* The proofs go by kinds of step: every action is first shown to be of    *)
(* one (StepKinds), and each part is kept by each kind.  Nineteen ways to  *)
(* end without a change are one kind, Stops.                               *)
(***************************************************************************)
EXTENDS Confirm, TLAPS

(* What one request is, as it is handled. *)
Req == [pc : PC, input : Input, saw : SUBSET Card,
        copy : Proposal \cup Held \cup {None}, told : Outcome,
        authority : SUBSET (Device \X (Capability \cup {None}))]

(* The stages of a request about a card, before it is marked. *)
Unmarked == {"mark_read", "mark_write"}
(* The stages after the mark. *)
Marked == {"apply", "merge", "register", "resume", "ran_read", "ran_write"}
(* The stages of an answer to the held call. *)
HeldStage == {"held_read", "held_claim", "held_settled", "held_write"}

(* What a request holds where its next step uses it. *)
Staged(r) ==
    /\ req[r].pc \in {"look", "consent"} \cup Unmarked \cup Marked => Subject(r) \in Card
    /\ req[r].pc \in {"held_look", "offer"} => Subject(r) = "held"
    /\ req[r].pc = "consent" => req[r].copy \in Proposal \cup {None}
    /\ req[r].pc \in Unmarked \cup Marked => req[r].copy \in Proposal
    /\ req[r].pc = "held_read" => req[r].copy \in Held \cup {None}
    /\ req[r].pc \in HeldStage \ {"held_read"} => req[r].copy \in Held
    /\ req[r].pc \in {"merge", "register"}
          => req[r].copy.change = "rules" /\ InputOf(r).answer # "team"
    /\ req[r].pc = "resume" => req[r].copy.change = "resume"
    /\ req[r].pc \in {"ran_read", "ran_write"} => req[r].copy.change \in {"work", "account"}
(* Every request holds what it uses. *)
StageOK == \A r \in Request : Staged(r)

(* The types, and what each stage holds. *)
TypeInv == TypeOK /\ StageOK

(* A request's card is there, and is about what its copy says. *)
CardThere(r) ==
    /\ (req[r].pc = "consent" /\ req[r].copy # None) \/ req[r].pc \in Unmarked \cup Marked
          => card[Subject(r)] # None /\ card[Subject(r)].change = req[r].copy.change
    /\ req[r].pc \in HeldStage /\ Subject(r) # "held"
          => card[Subject(r)] # None /\ card[Subject(r)].change = "answer"
    /\ r \in carried \/ req[r].told = "declined"
          => Subject(r) \in Card /\ card[Subject(r)] # None
(* And so are the two cards. *)
CardInv ==
    /\ card["given"] # None
    /\ card["always"] # None => card["always"].change = "rules"
    /\ \A r \in Request : CardThere(r)

(* What was carried out or counted is behind its request for good. *)
Behind(r) ==
    /\ r \in carried \cup counted
          => req[r].pc \in {"register", "ran_read", "ran_write", "offer", "done"}
    /\ req[r].told = "declined" => req[r].pc = "done"
    /\ req[r].pc \in Marked => Confirming(r)
    /\ r \in carried /\ card[Subject(r)].change = "answer" => r \in counted
    /\ r \in counted /\ Subject(r) # "held" => r \in carried
(* For every request. *)
DoneInv == \A r \in Request : Behind(r)

(* A card marked, carried out or declined is an answered one. *)
Answered(r) ==
    /\ req[r].pc \in Marked \/ r \in carried \/ req[r].told = "declined"
          => card[Subject(r)].answer # None
    /\ req[r].pc \in HeldStage /\ Subject(r) # "held" => card[Subject(r)].answer # None
    /\ req[r].pc = "ran_write" => req[r].copy.answer # None
(* For every request. *)
AnsweredInv == \A r \in Request : Answered(r)

(* Authority is only taken away while a request is handled. *)
AuthorityInv ==
    \A r \in Request : UnderWay(r) =>
        /\ \A d \in live : \A c \in may[d] \cup {None} : <<d, c>> \in req[r].authority
        /\ InputOf(r).from # Mac
              => \A c \in InputOf(r).caps : <<InputOf(r).from, c>> \in req[r].authority

(* A copy of the held call says what it says of its session. *)
HasHeld(r) == req[r].pc \in HeldStage /\ req[r].copy # None
(* The copies agree with the record, and with each other. *)
WithinInv ==
    /\ \A r \in Request : HasHeld(r) /\ held # None => req[r].copy.within = held.within
    /\ \A r, s \in Request : HasHeld(r) /\ HasHeld(s) => req[r].copy.within = req[s].copy.within
(* The held call is inside its session, as far as anybody knows. *)
Inside ==
    /\ held # None => held.within
    /\ \A r \in Request : HasHeld(r) => req[r].copy.within

(* Why a request may do what it was let do. *)
Allowed(r) ==
    \/ <<InputOf(r).signed, NeededBy(r)>> \in req[r].authority
    \/ Subject(r) # "held" /\ card[Subject(r)].change = "team_no"
    \/ /\ InputOf(r).from = Mac /\ Inside
       /\ Subject(r) # "held" => card[Subject(r)].change = "answer"
    \/ /\ Subject(r) = "given" /\ card["given"].change = "mac_show"
       /\ InputOf(r).driving /\ <<InputOf(r).from, "mac">> \in req[r].authority

(* A request that consent let past, to do something or having done it. *)
LetPast(r) ==
    \/ req[r].pc \in Unmarked \cup Marked /\ Confirming(r)
    \/ req[r].pc \in HeldStage \cup {"offer"} /\ (Subject(r) = "held" => InputOf(r).answer # "deny")
    \/ Did(r)

(* Whatever was let past, was for a reason. *)
YesInv == \A r \in Request : LetPast(r) => Allowed(r)

(* Two requests handled at once are both crowded. *)
AloneInv ==
    \A r, s \in Request : r # s /\ UnderWay(r) /\ UnderWay(s) => r \in crowded /\ s \in crowded

(* A request about to act on its card, or on the held call. *)
ActsOn(r) ==
    (IF \/ req[r].pc \in {"mark_write"} \cup Marked
        \/ req[r].pc \in HeldStage /\ Subject(r) # "held"
     THEN {Subject(r)} ELSE {})
    \cup (IF req[r].pc \in {"held_claim", "held_write"} THEN {"held"} ELSE {})

(* What it acts on or acted on. *)
Touches(r) == ActedOn(r) \cup ActsOn(r)

(* Two requests that touch the same thing are handled at the same time. *)
ActInv ==
    /\ \A r \in Request : r \in counted => held = None \/ held.answer # None
    /\ \A r, s \in Request :
          r # s /\ Touches(r) \cap Touches(s) # {} => r \in crowded /\ s \in crowded

(* A request that merged its rule with no other beside it. *)
Merged(r) ==
    /\ r \in carried \ crowded
    /\ card[Subject(r)].change = "rules" /\ InputOf(r).answer # "team"
(* Its rule is on file and in every copy about to be written there. *)
RuleInv ==
    \A r \in Request : Merged(r) =>
        /\ Subject(r) \in rules
        /\ \A s \in Request : At(s, "merge") => Subject(r) \in req[s].saw
        /\ At(r, "done") /\ req[r].told = "confirmed" => registered

-----------------------------------------------------------------------------
(* The request r, and no other, moves to a stage. *)
Moves(r, to) ==
    /\ req' \in [Request -> Req]
    /\ \A q \in Request : q # r => req'[q] = req[q]
    /\ req'[r].pc = to
    /\ req'[r].input = req[r].input /\ req'[r].authority = req[r].authority

(* It keeps what it read. *)
GoesOn(r, to) ==
    /\ Moves(r, to)
    /\ req'[r].copy = req[r].copy /\ req'[r].saw = req[r].saw /\ req'[r].told = req[r].told

(* It ends and leaves nothing behind. *)
Forgets(r, outcome) ==
    /\ req' \in [Request -> Req]
    /\ \A q \in Request : q # r => req'[q] = req[q]
    /\ req'[r].pc = "done" /\ req'[r].told = outcome /\ req'[r].input = NoInput

(* What Goto does to a request. *)
LEMMA GotoGoes ==
    ASSUME TypeInv, NEW r \in Request, NEW to \in PC, Goto(r, to)
    PROVE  GoesOn(r, to)
  <1> DEFINE new == [req[r] EXCEPT !.pc = to]
  <1>1. req[r] \in Req /\ req \in [Request -> Req]
    BY DEF TypeInv, TypeOK, Req
  <1>2. /\ new \in Req /\ new.pc = to /\ new.input = req[r].input
        /\ new.authority = req[r].authority /\ new.copy = req[r].copy
        /\ new.saw = req[r].saw /\ new.told = req[r].told
    BY <1>1 DEF Req
  <1>3. req' = [req EXCEPT ![r] = new]
    BY <1>1 DEF Goto
  <1> HIDE DEF new
  <1> QED
    BY <1>1, <1>2, <1>3 DEF GoesOn, Moves

(* What Reads does to a request. *)
LEMMA ReadsGoes ==
    ASSUME TypeInv, NEW r \in Request, NEW to \in PC, NEW record \in Proposal \cup Held
           \cup {None},
           Reads(r, record, to)
    PROVE  Moves(r, to) /\ req'[r].copy = record /\ req'[r].told = req[r].told
  <1> DEFINE new == [req[r] EXCEPT !.pc = to, !.copy = record]
  <1>1. req[r] \in Req /\ req \in [Request -> Req]
    BY DEF TypeInv, TypeOK, Req
  <1>2. /\ new \in Req /\ new.pc = to /\ new.input = req[r].input
        /\ new.authority = req[r].authority /\ new.copy = record /\ new.told = req[r].told
    BY <1>1 DEF Req
  <1>3. req' = [req EXCEPT ![r] = new]
    BY <1>1 DEF Reads
  <1> HIDE DEF new
  <1> QED
    BY <1>1, <1>2, <1>3 DEF Moves

(* A request that has read nothing is well formed. *)
LEMMA IdleTyped ==
    /\ Idle \in Req /\ Idle.told = None /\ Idle.pc = "idle"
    /\ "done" \in PC /\ NoInput \in Input /\ NoInput.subject = "held" /\ NoInput.from = Mac
  <1>1. NoInput \in Input /\ NoInput.subject = "held" /\ NoInput.from = Mac
    BY DEF NoInput, Input, InputWith, Device, Card, CardAnswer
  <1> QED
    BY <1>1 DEF Idle, Req, PC, Outcome

(* What Ends does to a request. *)
LEMMA EndsGoes ==
    ASSUME TypeInv, NEW r \in Request, NEW outcome \in Outcome
    PROVE  /\ Ended(r, outcome) \in Req /\ Ended(r, outcome).pc = "done"
           /\ Ended(r, outcome).told = outcome /\ Ended(r, outcome).input = req[r].input
           /\ Ended(r, outcome).authority = req[r].authority
           /\ Ends(r, outcome) => Moves(r, "done") /\ req'[r].told = outcome
  <1> DEFINE new == Ended(r, outcome)
  <1>1. req[r] \in Req /\ req \in [Request -> Req]
    BY DEF TypeInv, TypeOK, Req
  <1>2. req[r].input \in Input /\ req[r].authority \in SUBSET (Device \X (Capability \cup {None}))
    BY <1>1 DEF Req
  <1>3. /\ new \in Req /\ new.pc = "done" /\ new.input = req[r].input
        /\ new.authority = req[r].authority /\ new.told = outcome
    BY <1>2, IdleTyped DEF Req, Ended, Idle
  <1>4. Ends(r, outcome) => req' = [req EXCEPT ![r] = new]
    BY DEF Ends
  <1> HIDE DEF new
  <1>5. Ends(r, outcome) => Moves(r, "done") /\ req'[r].told = outcome
    BY <1>1, <1>3, <1>4 DEF Moves
  <1> QED
    BY <1>3, <1>5 DEF new

(* What Leaves does to a request. *)
LEMMA LeavesGoes ==
    ASSUME TypeInv, NEW r \in Request, NEW outcome \in Outcome, Leaves(r, outcome)
    PROVE  Forgets(r, outcome)
  <1> DEFINE new == [Idle EXCEPT !.pc = "done", !.told = outcome]
  <1>1. req \in [Request -> Req]
    BY DEF TypeInv, TypeOK, Req
  <1>2. new \in Req /\ new.pc = "done" /\ new.told = outcome /\ new.input = NoInput
    BY IdleTyped DEF Req, Idle
  <1>3. req' = [req EXCEPT ![r] = new]
    BY DEF Leaves
  <1> HIDE DEF new
  <1> QED
    BY <1>1, <1>2, <1>3 DEF Forgets

-----------------------------------------------------------------------------
(* The kinds of step that the invariant tells apart, by their effect.       *)
KeepsFiles == UNCHANGED <<card, held, rules, registered>>
(* The trusted devices are left as they are. *)
KeepsDevices == UNCHANGED <<live, may>>
(* Only what no property reads is changed. *)
Nothing == KeepsFiles /\ KeepsDevices /\ UNCHANGED <<req, crowded, carried, counted>>

(* A request ends without its change, told neither a no nor a yes. *)
Stopped(q) ==
    /\ req'[q].pc = "done" /\ req'[q].told \in Outcome \ {"declined", "confirmed"}
    /\ \/ req'[q].input = req[q].input /\ req'[q].authority = req[q].authority
       \/ req'[q].input = NoInput /\ q \notin carried \cup counted
(* Requests under way end so: a refusal, a failure, a crash. *)
Stops ==
    /\ req' \in [Request -> Req]
    /\ \A q \in Request : req'[q] = req[q] \/ (UnderWay(q) /\ Stopped(q))
    /\ KeepsFiles /\ KeepsDevices /\ UNCHANGED <<crowded, carried, counted>>

(* A request arrives, with the authority there is now. *)
Begins(r) ==
    /\ req' \in [Request -> Req]
    /\ \A q \in Request : q # r => req'[q] = req[q]
    /\ req[r].pc = "idle"
    /\ \/ req'[r].pc = "held_look" /\ req'[r].input.subject = "held"
       \/ req'[r].pc = "look" /\ req'[r].input.subject \in Card
    /\ req'[r].told = req[r].told
    /\ \A d \in live : \A c \in may[d] \cup {None} : <<d, c>> \in req'[r].authority
    /\ req'[r].input.from # Mac
          => \A c \in req'[r].input.caps : <<req'[r].input.from, c>> \in req'[r].authority
    /\ crowded \subseteq crowded' /\ crowded' \subseteq Request
    /\ \A q \in Request : UnderWay(q) => q \in crowded' /\ r \in crowded'
    /\ KeepsFiles /\ KeepsDevices /\ UNCHANGED <<carried, counted>>

(* A request moves on and changes no file. *)
Passes(r, from, to) ==
    /\ req[r].pc = from /\ Moves(r, to) /\ req'[r].told = req[r].told
    /\ KeepsFiles /\ KeepsDevices /\ UNCHANGED <<crowded, carried, counted>>

(* The card is read. *)
LooksUp(r) == Passes(r, "look", "consent") /\ req'[r].copy = card[Subject(r)]
(* Consent was given. *)
Permitted(r) ==
    /\ Passes(r, "consent", "mark_read") /\ req'[r].copy = req[r].copy /\ req[r].copy # None
    /\ Consents(r, CapabilityOf(ChangeOf(r)), ~Confirming(r) \/ ChangeOf(r) = "team_no",
                ChangeOf(r) = "answer" /\ held # None /\ held.within, DriveCovers(r))
(* The card is read to be marked, unanswered. *)
ReadsMark(r) ==
    /\ Passes(r, "mark_read", "mark_write") /\ req'[r].copy = card[Subject(r)]
    /\ card[Subject(r)] # None /\ card[Subject(r)].answer = None

(* The card is marked, with a yes or a no. *)
Marks(r) ==
    /\ req[r].pc = "mark_write"
    /\ card' \in [Card -> Proposal \cup {None}]
    /\ \A c \in Card : c # Subject(r) => card'[c] = card[c]
    /\ card'[Subject(r)] \in Proposal /\ card'[Subject(r)].answer # None
    /\ card'[Subject(r)].change = req[r].copy.change
    /\ \/ Confirming(r) /\ GoesOn(r, "apply")
       \/ ~Confirming(r) /\ Moves(r, "done") /\ req'[r].told = "declined"
    /\ UNCHANGED <<held, rules, registered, crowded, carried, counted>> /\ KeepsDevices

(* A change that is one step here is carried out, and the request ends. *)
CarriesOut(r) ==
    /\ req[r].pc \in {"apply", "resume"}
    /\ req[r].copy.change # "answer"
    /\ req[r].copy.change = "rules" => InputOf(r).answer = "team"
    /\ Moves(r, "done") /\ req'[r].told = "confirmed"
    /\ KeepsFiles /\ KeepsDevices
    /\ carried' = carried \cup {r} /\ UNCHANGED <<crowded, counted>>

(* Work goes out, or fails to. *)
WorksOut(r) ==
    /\ req[r].pc = "apply" /\ req[r].copy.change \in {"work", "account"}
    /\ Moves(r, "ran_read") /\ req'[r].copy = req[r].copy
    /\ req'[r].told \in {"confirmed", "failed"}
    /\ carried' = carried \cup {r} \/ carried' = carried
    /\ KeepsFiles /\ KeepsDevices /\ UNCHANGED <<crowded, counted>>
(* The card is read again after the work. *)
ReadsRan(r) == Passes(r, "ran_read", "ran_write") /\ req'[r].copy = card[Subject(r)]
(* And written with what it came to. *)
WritesRan(r) ==
    /\ req[r].pc = "ran_write"
    /\ card' \in [Card -> Proposal \cup {None}]
    /\ \A c \in Card : c # Subject(r) => card'[c] = card[c]
    /\ card'[Subject(r)] \in Proposal /\ card'[Subject(r)].answer = req[r].copy.answer
    /\ card'[Subject(r)].change = req[r].copy.change
    /\ Moves(r, "done") /\ req'[r].told = req[r].told
    /\ UNCHANGED <<held, rules, registered, crowded, carried, counted>> /\ KeepsDevices

(* The rules are read. *)
ReadsRules(r) ==
    /\ Passes(r, "apply", "merge") /\ req'[r].copy = req[r].copy /\ req'[r].saw = rules
    /\ req[r].copy.change = "rules" /\ InputOf(r).answer # "team"
(* They are written with the card's rule. *)
Merges(r) ==
    /\ req[r].pc = "merge" /\ GoesOn(r, "register")
    /\ rules' = req[r].saw \cup {Subject(r)}
    /\ carried' = carried \cup {r}
    /\ UNCHANGED <<card, held, registered, crowded, counted>> /\ KeepsDevices
(* The file is put on the list. *)
Lists(r) ==
    /\ req[r].pc = "register" /\ Moves(r, "done")
    /\ req'[r].told = "confirmed" /\ registered' = TRUE
    /\ UNCHANGED <<card, held, rules, crowded, carried, counted>> /\ KeepsDevices

(* The pause is read. *)
ReadsPause(r) ==
    /\ Passes(r, "apply", "resume") /\ req'[r].copy = req[r].copy
    /\ req[r].copy.change = "resume"

(* The held call is read by a request let past. *)
LooksHeld(r) ==
    /\ Passes(r, "held_look", "held_read") /\ req'[r].copy = held
    /\ Consents(r, "answer", InputOf(r).answer = "deny", held # None /\ held.within, FALSE)
(* A request whose card answers the held call reads it. *)
AppliesHeld(r) ==
    /\ Passes(r, "apply", "held_read") /\ req'[r].copy = held /\ req[r].copy.change = "answer"
(* It is read again, unanswered, to be claimed. *)
ReadsHeld(r) ==
    /\ Passes(r, "held_read", "held_claim") /\ req'[r].copy = held
    /\ held # None /\ held.answer = None
(* It is claimed, or another has. *)
Claims(r) ==
    /\ Passes(r, "held_claim", "held_settled") \/ Passes(r, "held_claim", "held_write")
    /\ req'[r].copy = req[r].copy
(* The answer is written. *)
WritesHeld(r) ==
    /\ req[r].pc = "held_write"
    /\ held' \in Held /\ held'.answer # None /\ held'.within = req[r].copy.within
    /\ counted' = counted \cup {r}
    /\ carried' = IF Subject(r) = "held" THEN carried ELSE carried \cup {r}
    /\ \/ Moves(r, "done") /\ req'[r].told \in {"let-through", "answered"}
       \/ Moves(r, "offer") /\ req'[r].told = req[r].told /\ Subject(r) = "held"
    /\ UNCHANGED <<card, rules, registered, crowded>> /\ KeepsDevices
(* A rule card is left, or none. *)
Offers(r) ==
    /\ req[r].pc = "offer" /\ Moves(r, "done") /\ req'[r].told = "answered"
    /\ card' \in [Card -> Proposal \cup {None}]
    /\ card'["given"] = card["given"]
    /\ \/ card'["always"] = card["always"]
       \/ card["always"] = None /\ card'["always"] # None /\ card'["always"].change = "rules"
    /\ UNCHANGED <<held, rules, registered, crowded, carried, counted>> /\ KeepsDevices

(* The held call is cleared. *)
ClearsHeld ==
    /\ held' = None
    /\ UNCHANGED <<card, rules, registered, req, crowded, carried, counted>> /\ KeepsDevices
(* Authority is taken away. *)
TakesAway ==
    /\ live' \subseteq live /\ may' \in [Device -> SUBSET Capability]
    /\ \A d \in Device : may'[d] \subseteq may[d]
    /\ KeepsFiles /\ UNCHANGED <<req, crowded, carried, counted>>

(* What a request's own step is. *)
OwnStep(r) ==
    \/ LooksUp(r) \/ Permitted(r) \/ ReadsMark(r) \/ Marks(r) \/ CarriesOut(r)
    \/ WorksOut(r) \/ ReadsRan(r) \/ WritesRan(r) \/ ReadsRules(r) \/ Merges(r) \/ Lists(r)
    \/ ReadsPause(r) \/ LooksHeld(r) \/ AppliesHeld(r) \/ ReadsHeld(r) \/ Claims(r)
    \/ WritesHeld(r) \/ Offers(r)
(* What any step is. *)
Kinds ==
    \/ Nothing \/ Stops \/ ClearsHeld \/ TakesAway
    \/ \E r \in Request : Begins(r) \/ OwnStep(r)

-----------------------------------------------------------------------------
(* What a request and the files are made of. *)
LEMMA Parts ==
    ASSUME TypeInv, NEW r \in Request
    PROVE  /\ req \in [Request -> Req] /\ req[r] \in Req
           /\ req[r].pc \in PC /\ req[r].input \in Input /\ req[r].told \in Outcome
           /\ req[r].authority \in SUBSET (Device \X (Capability \cup {None}))
           /\ Subject(r) \in Card \cup {"held"}
           /\ req[r].copy \in Proposal \cup Held \cup {None}
  <1>1. req \in [Request -> Req] /\ req[r] \in Req
    BY DEF TypeInv, TypeOK, Req
  <1>2. req[r].input \in Input
    BY <1>1 DEF Req
  <1>3. Subject(r) \in Card \cup {"held"}
    BY <1>2 DEF Subject, InputOf, Input, InputWith
  <1> QED
    BY <1>1, <1>2, <1>3 DEF Req

(* A refusal or a failure of a request that did nothing yet. *)
LEMMA LeavesStops ==
    ASSUME TypeInv, NEW r \in Request, UnderWay(r), r \notin carried \cup counted,
           NEW o \in Outcome \ {"declined", "confirmed"}, Leaves(r, o),
           UNCHANGED files, UNCHANGED devices, UNCHANGED history
    PROVE  Stops
  BY LeavesGoes DEF Forgets, Stops, Stopped, KeepsFiles, KeepsDevices, files, devices,
     history

(* The end of a request told that another's answer counted. *)
LEMMA EndsStops ==
    ASSUME TypeInv, NEW r \in Request, UnderWay(r),
           NEW o \in Outcome \ {"declined", "confirmed"}, Ends(r, o),
           UNCHANGED files, UNCHANGED devices, UNCHANGED history
    PROVE  Stops
  BY EndsGoes DEF Moves, Stops, Stopped, KeepsFiles, KeepsDevices, files, devices, history

(* A request that has not come to its change has done nothing. *)
LEMMA NotDone ==
    ASSUME DoneInv, NEW r \in Request,
           req[r].pc \notin {"register", "ran_read", "ran_write", "offer", "done"}
    PROVE  r \notin carried \cup counted
  BY DEF DoneInv, Behind

(* A record with one field changed. *)
LEMMA Answering ==
    ASSUME NEW p \in Proposal, NEW a \in CardAnswer, NEW r \in Request
    PROVE  /\ [p EXCEPT !.answer = a] \in Proposal /\ [p EXCEPT !.answer = a].answer = a
           /\ [p EXCEPT !.answer = a].change = p.change
           /\ [p EXCEPT !.ran = r] \in Proposal /\ [p EXCEPT !.ran = r].answer = p.answer
           /\ [p EXCEPT !.ran = r].change = p.change
  BY DEF Proposal

(* A request that is let in carries the authority of that moment. *)
LEMMA ArriveBegins ==
    ASSUME TypeInv, NEW r \in Request, NEW i \in Inputs, Arrive(r, i)
    PROVE  Begins(r)
  <1> DEFINE in == [i EXCEPT !.caps = IF i.from = Mac THEN {} ELSE may[i.from]]
             auth == {a \in live \X (Capability \cup {None}) : a[2] \in may[a[1]] \cup {None}}
             to == IF i.subject = "held" THEN "held_look" ELSE "look"
             new == [req[r] EXCEPT !.pc = to, !.input = in, !.authority = auth]
  <1>1. req[r] \in Req /\ req \in [Request -> Req] /\ live \subseteq Device
        /\ may \in [Device -> SUBSET Capability] /\ crowded \subseteq Request
    BY Parts DEF TypeInv, TypeOK
  <1>2. i.from \in live /\ req[r].pc = "idle"
    BY DEF Arrive, At
  <1>3. i \in InputWith({{}}) /\ i.subject \in Card \cup {"held"}
    BY DEF Inputs, InputWith
  <1>4. in \in Input /\ in.from = i.from /\ in.subject = i.subject
        /\ in.caps = IF i.from = Mac THEN {} ELSE may[i.from]
    BY <1>1, <1>2, <1>3 DEF Input, InputWith
  <1>5. auth \in SUBSET (Device \X (Capability \cup {None}))
        /\ \A d \in live : \A c \in may[d] \cup {None} : <<d, c>> \in auth
    BY <1>1
  <1>6. to \in PC
    BY DEF PC
  <1> HIDE DEF in, auth, to
  <1>7. /\ new \in Req /\ new.pc = to /\ new.input = in /\ new.authority = auth
        /\ new.told = req[r].told
    BY <1>1, <1>4, <1>5, <1>6 DEF Req
  <1>8. req' = [req EXCEPT ![r] = new]
    BY <1>1 DEF Arrive, in, auth, to
  <1> HIDE DEF new
  <1>9. /\ req' \in [Request -> Req] /\ \A q \in Request : q # r => req'[q] = req[q]
        /\ req'[r] = new
    BY <1>1, <1>7, <1>8
  <1>10. \/ req'[r].pc = "held_look" /\ req'[r].input.subject = "held"
         \/ req'[r].pc = "look" /\ req'[r].input.subject \in Card
    BY <1>9, <1>7, <1>4, <1>3 DEF to
  <1>11. req'[r].input.from # Mac
            => \A c \in req'[r].input.caps : <<req'[r].input.from, c>> \in req'[r].authority
    BY <1>9, <1>7, <1>4, <1>5, <1>2
  <1>12. crowded \subseteq crowded' /\ crowded' \subseteq Request
         /\ \A q \in Request : UnderWay(q) => q \in crowded' /\ r \in crowded'
    <2>1. crowded' = IF {q \in Request : UnderWay(q)} = {} THEN crowded
                     ELSE crowded \cup {q \in Request : UnderWay(q)} \cup {r}
      BY DEF Arrive
    <2> QED
      BY <2>1, <1>1
  <1>13. KeepsFiles /\ KeepsDevices /\ UNCHANGED <<carried, counted>>
    BY DEF Arrive, KeepsFiles, KeepsDevices, files, devices
  <1> QED
    BY <1>2, <1>5, <1>7, <1>9, <1>10, <1>11, <1>12, <1>13 DEF Begins

(* answerProposal reads the card before it asks for consent. *)
LEMMA LookKind ==
    ASSUME TypeInv, NEW r \in Request, Look(r)
    PROVE  LooksUp(r)
  <1>1. req[r].pc = "look" /\ Subject(r) \in Card
    BY DEF Look, At, TypeInv, StageOK, Staged
  <1>2. card[Subject(r)] \in Proposal \cup Held \cup {None} /\ "consent" \in PC
    BY <1>1 DEF TypeInv, TypeOK, PC
  <1>3. Moves(r, "consent") /\ req'[r].copy = card[Subject(r)] /\ req'[r].told = req[r].told
    BY <1>2, ReadsGoes DEF Look
  <1> QED
    BY <1>1, <1>3 DEF Look, LooksUp, Passes, KeepsFiles, KeepsDevices, files, devices,
       history

(* A request passes consentFor and the checks after it, or ends. *)
LEMMA ConsentKind ==
    ASSUME TypeInv, DoneInv, NEW r \in Request, Consent(r)
    PROVE  Stops \/ Permitted(r)
  <1>1. req[r].pc = "consent" /\ UnderWay(r)
    BY DEF Consent, At, UnderWay
  <1>2. /\ UNCHANGED files /\ UNCHANGED devices /\ UNCHANGED history
    BY DEF Consent
  <1>3. CASE Leaves(r, "refused") \/ Leaves(r, "error")
    BY <1>1, <1>2, <1>3, NotDone, LeavesStops DEF Outcome
  <1>4. CASE ~(Leaves(r, "refused") \/ Leaves(r, "error"))
    <2>1. Goto(r, "mark_read") /\ ChangeOf(r) # None
          /\ Consents(r, CapabilityOf(ChangeOf(r)), ~Confirming(r) \/ ChangeOf(r) = "team_no",
                ChangeOf(r) = "answer" /\ held # None /\ held.within, DriveCovers(r))
      BY <1>4 DEF Consent
    <2>2. GoesOn(r, "mark_read")
      BY <2>1, GotoGoes DEF PC
    <2> QED
      BY <1>1, <1>2, <2>1, <2>2
         DEF Permitted, Passes, GoesOn, ChangeOf, KeepsFiles, KeepsDevices, files, devices, history
  <1> QED
    BY <1>3, <1>4

(* Proposals.answer goes on from an unanswered card alone. *)
LEMMA MarkReadKind ==
    ASSUME TypeInv, DoneInv, NEW r \in Request, MarkRead(r)
    PROVE  Stops \/ ReadsMark(r)
  <1>1. req[r].pc = "mark_read" /\ UnderWay(r)
    BY DEF MarkRead, At, UnderWay
  <1>2. /\ UNCHANGED files /\ UNCHANGED devices /\ UNCHANGED history
    BY DEF MarkRead
  <1>3. CASE Leaves(r, "error") \/ Leaves(r, "already") \/ Leaves(r, "expired")
    BY <1>1, <1>2, <1>3, NotDone, LeavesStops DEF Outcome
  <1>4. CASE ~(Leaves(r, "error") \/ Leaves(r, "already") \/ Leaves(r, "expired"))
    <2>1. Reads(r, card[Subject(r)], "mark_write") /\ card[Subject(r)] # None
          /\ card[Subject(r)].answer = None
      BY <1>4 DEF MarkRead
    <2>2. Subject(r) \in Card
      BY <1>1 DEF TypeInv, StageOK, Staged, Unmarked
    <2>3. card[Subject(r)] \in Proposal \cup Held \cup {None} /\ "mark_write" \in PC
      BY <2>2 DEF TypeInv, TypeOK, PC
    <2>4. Moves(r, "mark_write") /\ req'[r].copy = card[Subject(r)] /\ req'[r].told = req[r].told
      BY <2>1, <2>3, ReadsGoes
    <2> QED
      BY <1>1, <1>2, <2>1, <2>4
         DEF ReadsMark, Passes, KeepsFiles, KeepsDevices, files, devices, history
  <1> QED
    BY <1>3, <1>4

(* Proposals.answer writes the answer over the copy it read. *)
LEMMA MarkWriteKind ==
    ASSUME TypeInv, NEW r \in Request, MarkWrite(r)
    PROVE  Marks(r)
  <1> DEFINE a == IF Confirming(r) THEN "confirmed" ELSE "declined"
             new == [req[r].copy EXCEPT !.answer = a]
  <1>1. req[r].pc = "mark_write"
    BY DEF MarkWrite, At
  <1>2. Subject(r) \in Card /\ req[r].copy \in Proposal /\ card \in [Card -> Proposal \cup {None}]
    BY <1>1 DEF TypeInv, TypeOK, StageOK, Staged, Unmarked
  <1>3. a \in CardAnswer /\ a # None
    BY RecordAssumption DEF CardAnswer
  <1>4. card' = [card EXCEPT ![Subject(r)] = new]
    BY DEF MarkWrite
  <1> HIDE DEF a
  <1>5. new \in Proposal /\ new.answer = a /\ new.change = req[r].copy.change
    BY <1>2, <1>3, Answering
  <1> HIDE DEF new
  <1>6. /\ card' \in [Card -> Proposal \cup {None}] /\ card'[Subject(r)] = new
        /\ \A c \in Card : c # Subject(r) => card'[c] = card[c]
    BY <1>2, <1>4, <1>5
  <1>7. \/ Confirming(r) /\ GoesOn(r, "apply")
        \/ ~Confirming(r) /\ Moves(r, "done") /\ req'[r].told = "declined"
    BY GotoGoes, EndsGoes DEF MarkWrite, PC, Outcome
  <1> QED
    BY <1>1, <1>3, <1>5, <1>6, <1>7 DEF Marks, MarkWrite, KeepsDevices, devices, history

(* A card's copy while it is carried out. *)
LEMMA MarkedCopy ==
    ASSUME TypeInv, NEW r \in Request, req[r].pc \in Marked
    PROVE  req[r].copy \in Proposal /\ ChangeOf(r) = req[r].copy.change /\ Subject(r) \in Card
  BY RecordAssumption DEF TypeInv, StageOK, Staged, ChangeOf

(* A change of one step is carried out, or fails. *)
LEMMA AtOnceKind ==
    ASSUME TypeInv, DoneInv, NEW r \in Request, ApplyAtOnce(r)
    PROVE  Stops \/ CarriesOut(r)
  <1>1. req[r].pc = "apply" /\ UnderWay(r)
    BY DEF ApplyAtOnce, At, UnderWay
  <1>2. UNCHANGED files /\ UNCHANGED devices
    BY DEF ApplyAtOnce
  <1>3. CASE UNCHANGED history /\ Leaves(r, "failed")
    BY <1>1, <1>2, <1>3, NotDone, LeavesStops DEF Outcome
  <1>4. CASE Carries(r) /\ Ends(r, "confirmed")
    <2>1. req[r].copy.change \notin {"answer", "rules"}
      BY <1>1, MarkedCopy DEF ApplyAtOnce, AlwaysApplies, Marked
    <2>2. Moves(r, "done") /\ req'[r].told = "confirmed"
      BY <1>4, EndsGoes DEF Outcome
    <2> QED
      BY <1>1, <1>2, <1>4, <2>1, <2>2
         DEF CarriesOut, Carries, KeepsFiles, KeepsDevices, files, devices
  <1> QED
    BY <1>3, <1>4 DEF ApplyAtOnce

(* A command left running counts as carried out. *)
LEMMA InBackgroundKind ==
    ASSUME TypeInv, NEW r \in Request, ApplyInBackground(r)
    PROVE  CarriesOut(r)
  <1>1. req[r].pc = "apply"
    BY DEF ApplyInBackground, At
  <1>2. req[r].copy.change \notin {"answer", "rules"}
    BY <1>1, MarkedCopy DEF ApplyInBackground, Marked
  <1>3. Moves(r, "done") /\ req'[r].told = "confirmed"
    BY EndsGoes DEF ApplyInBackground, Outcome
  <1> QED
    BY <1>1, <1>2, <1>3
       DEF ApplyInBackground, CarriesOut, Carries, KeepsFiles, KeepsDevices, files, devices

(* applyPersonal leads to the result being kept, either way. *)
LEMMA PersonalKind ==
    ASSUME TypeInv, NEW r \in Request, ApplyPersonal(r)
    PROVE  WorksOut(r)
  <1>1. req[r].pc = "apply"
    BY DEF ApplyPersonal, At
  <1>2. req[r].copy.change \in {"work", "account"}
    BY <1>1, MarkedCopy DEF ApplyPersonal, Marked
  <1>3. PICK o \in {"confirmed", "failed"} :
            req' = [req EXCEPT ![r].pc = "ran_read", ![r].told = o]
    BY DEF ApplyPersonal
  <1> DEFINE new == [req[r] EXCEPT !.pc = "ran_read", !.told = o]
  <1>4. req[r] \in Req /\ req \in [Request -> Req] /\ "ran_read" \in PC /\ o \in Outcome
    BY Parts DEF PC, Outcome
  <1>5. /\ new \in Req /\ new.pc = "ran_read" /\ new.told = o /\ new.copy = req[r].copy
        /\ new.input = req[r].input /\ new.authority = req[r].authority
    BY <1>4 DEF Req
  <1>6. req' = [req EXCEPT ![r] = new]
    BY <1>3, <1>4
  <1> HIDE DEF new
  <1>7. Moves(r, "ran_read") /\ req'[r].copy = req[r].copy /\ req'[r].told = o
    BY <1>4, <1>5, <1>6 DEF Moves
  <1>8. /\ carried' = carried \cup {r} \/ carried' = carried
        /\ UNCHANGED <<crowded, counted>> /\ KeepsFiles /\ KeepsDevices
    BY DEF ApplyPersonal, Carries, KeepsFiles, KeepsDevices, files, devices, history
  <1> QED
    BY <1>1, <1>2, <1>7, <1>8 DEF WorksOut

(* Proposals.ran reads the card again. *)
LEMMA RanReadKind ==
    ASSUME TypeInv, NEW r \in Request, RanRead(r)
    PROVE  ReadsRan(r)
  <1>1. req[r].pc = "ran_read" /\ Subject(r) \in Card
    BY DEF RanRead, At, TypeInv, StageOK, Staged, Marked
  <1>2. card[Subject(r)] \in Proposal \cup Held \cup {None} /\ "ran_write" \in PC
    BY <1>1 DEF TypeInv, TypeOK, PC
  <1>3. Moves(r, "ran_write") /\ req'[r].copy = card[Subject(r)] /\ req'[r].told = req[r].told
    BY <1>2, ReadsGoes DEF RanRead
  <1> QED
    BY <1>1, <1>3 DEF RanRead, ReadsRan, Passes, KeepsFiles, KeepsDevices, files, devices,
       history

(* Proposals.ran writes it whole, with the answer it read. *)
LEMMA RanWriteKind ==
    ASSUME TypeInv, NEW r \in Request, RanWrite(r)
    PROVE  WritesRan(r)
  <1> DEFINE new == [req[r].copy EXCEPT !.ran = r]
  <1>1. req[r].pc = "ran_write"
    BY DEF RanWrite, At
  <1>2. Subject(r) \in Card /\ req[r].copy \in Proposal /\ card \in [Card -> Proposal \cup {None}]
    BY <1>1 DEF TypeInv, TypeOK, StageOK, Staged, Marked
  <1>3. card' = [card EXCEPT ![Subject(r)] = new]
    BY DEF RanWrite
  <1>4. new \in Proposal /\ new.answer = req[r].copy.answer /\ new.change = req[r].copy.change
    BY <1>2, Answering DEF CardAnswer
  <1> HIDE DEF new
  <1>5. /\ card' \in [Card -> Proposal \cup {None}] /\ card'[Subject(r)] = new
        /\ \A c \in Card : c # Subject(r) => card'[c] = card[c]
    BY <1>2, <1>3, <1>4
  <1>6. Moves(r, "done") /\ req'[r].told = req[r].told
    BY EndsGoes, Parts DEF RanWrite
  <1> QED
    BY <1>1, <1>4, <1>5, <1>6 DEF WritesRan, RanWrite, KeepsDevices, devices, history

(* A rule offered to the team is written to no file. *)
LEMMA OfferToTeamKind ==
    ASSUME TypeInv, DoneInv, NEW r \in Request, OfferToTeam(r)
    PROVE  Stops \/ CarriesOut(r)
  <1>1. req[r].pc = "apply" /\ UnderWay(r)
    BY DEF OfferToTeam, At, UnderWay
  <1>2. UNCHANGED files /\ UNCHANGED devices
    BY DEF OfferToTeam
  <1>3. CASE UNCHANGED history /\ Leaves(r, "failed")
    BY <1>1, <1>2, <1>3, NotDone, LeavesStops DEF Outcome
  <1>4. CASE Carries(r) /\ Ends(r, "confirmed")
    <2>1. req[r].copy.change = "rules" /\ InputOf(r).answer = "team"
      BY <1>1, MarkedCopy DEF OfferToTeam, Marked
    <2>2. Moves(r, "done") /\ req'[r].told = "confirmed"
      BY <1>4, EndsGoes DEF Outcome
    <2> QED
      BY <1>1, <1>2, <1>4, <2>1, <2>2
         DEF CarriesOut, Carries, KeepsFiles, KeepsDevices, files, devices
  <1> QED
    BY <1>3, <1>4 DEF OfferToTeam

(* mergeRules reads the policy document. *)
LEMMA ApplyRulesKind ==
    ASSUME TypeInv, NEW r \in Request, ApplyRules(r)
    PROVE  ReadsRules(r)
  <1> DEFINE new == [req[r] EXCEPT !.pc = "merge", !.saw = rules]
  <1>1. req[r].pc = "apply"
    BY DEF ApplyRules, At
  <1>2. req[r].copy.change = "rules" /\ InputOf(r).answer # "team"
    BY <1>1, MarkedCopy DEF ApplyRules, Marked
  <1>3. req[r] \in Req /\ req \in [Request -> Req] /\ "merge" \in PC /\ rules \in SUBSET Card
    BY Parts DEF PC, TypeInv, TypeOK
  <1>4. /\ new \in Req /\ new.pc = "merge" /\ new.saw = rules /\ new.copy = req[r].copy
        /\ new.input = req[r].input /\ new.authority = req[r].authority /\ new.told = req[r].told
    BY <1>3 DEF Req
  <1>5. req' = [req EXCEPT ![r] = new]
    BY <1>3 DEF ApplyRules
  <1> HIDE DEF new
  <1>6. Moves(r, "merge") /\ req'[r].copy = req[r].copy /\ req'[r].saw = rules
        /\ req'[r].told = req[r].told
    BY <1>3, <1>4, <1>5 DEF Moves
  <1> QED
    BY <1>1, <1>2, <1>6
       DEF ApplyRules, ReadsRules, Passes, KeepsFiles, KeepsDevices, files, devices, history

(* It writes the document whole, with the card's rule in it. *)
LEMMA MergeRulesKind ==
    ASSUME TypeInv, NEW r \in Request, MergeRules(r)
    PROVE  Merges(r)
  <1>1. GoesOn(r, "register")
    BY GotoGoes DEF MergeRules, PC
  <1> QED
    BY <1>1 DEF MergeRules, At, Merges, Carries, KeepsDevices, devices

(* It puts the file on the list before the request is told. *)
LEMMA RegisterKind ==
    ASSUME TypeInv, NEW r \in Request, RegisterPolicyFile(r)
    PROVE  Lists(r)
  <1>1. Moves(r, "done") /\ req'[r].told = "confirmed"
    BY EndsGoes DEF RegisterPolicyFile, Outcome
  <1> QED
    BY <1>1 DEF RegisterPolicyFile, At, Lists, KeepsDevices, devices, history

(* A pause in force is read before it is lifted. *)
LEMMA ApplyResumeKind ==
    ASSUME TypeInv, DoneInv, NEW r \in Request, ApplyResume(r)
    PROVE  Stops \/ ReadsPause(r)
  <1>1. req[r].pc = "apply" /\ UnderWay(r)
    BY DEF ApplyResume, At, UnderWay
  <1>2. UNCHANGED files /\ UNCHANGED devices /\ UNCHANGED history
    BY DEF ApplyResume
  <1>3. CASE Leaves(r, "failed")
    BY <1>1, <1>2, <1>3, NotDone, LeavesStops DEF Outcome
  <1>4. CASE Goto(r, "resume")
    <2>1. req[r].copy.change = "resume"
      BY <1>1, MarkedCopy DEF ApplyResume, Marked
    <2>2. GoesOn(r, "resume")
      BY <1>4, GotoGoes DEF PC
    <2> QED
      BY <1>1, <1>2, <2>1, <2>2
         DEF ReadsPause, Passes, GoesOn, KeepsFiles, KeepsDevices, files, devices, history
  <1> QED
    BY <1>3, <1>4 DEF ApplyResume

(* A pause lifted is a change carried out. *)
LEMMA ResumeKind ==
    ASSUME TypeInv, NEW r \in Request, Resume(r)
    PROVE  CarriesOut(r)
  <1>1. req[r].pc = "resume"
    BY DEF Resume, At
  <1>2. req[r].copy.change = "resume"
    BY <1>1 DEF TypeInv, StageOK, Staged
  <1>3. Moves(r, "done") /\ req'[r].told = "confirmed"
    BY EndsGoes DEF Resume, Outcome
  <1> QED
    BY <1>1, <1>2, <1>3 DEF Resume, CarriesOut, Carries, KeepsFiles, KeepsDevices, devices

(* What a reading of the held call leaves with its request. *)
LEMMA HeldIsRead ==
    ASSUME TypeInv, NEW r \in Request, NEW to \in PC, Reads(r, held, to)
    PROVE  Moves(r, to) /\ req'[r].copy = held /\ req'[r].told = req[r].told
  <1>1. held \in Proposal \cup Held \cup {None}
    BY DEF TypeInv, TypeOK
  <1> QED
    BY <1>1, ReadsGoes

(* answerHeld reads the record and asks for consent. *)
LEMMA HeldLookKind ==
    ASSUME TypeInv, DoneInv, NEW r \in Request, HeldLook(r)
    PROVE  Stops \/ LooksHeld(r)
  <1>1. req[r].pc = "held_look" /\ UnderWay(r)
    BY DEF HeldLook, At, UnderWay
  <1>2. UNCHANGED files /\ UNCHANGED devices /\ UNCHANGED history
    BY DEF HeldLook
  <1>3. CASE Leaves(r, "refused")
    BY <1>1, <1>2, <1>3, NotDone, LeavesStops DEF Outcome
  <1>4. CASE ~Leaves(r, "refused")
    <2>1. /\ Reads(r, held, "held_read")
          /\ Consents(r, "answer", InputOf(r).answer = "deny", held # None /\ held.within, FALSE)
      BY <1>4 DEF HeldLook
    <2>2. Moves(r, "held_read") /\ req'[r].copy = held /\ req'[r].told = req[r].told
      BY <2>1, HeldIsRead DEF PC
    <2> QED
      BY <1>1, <1>2, <2>1, <2>2
         DEF LooksHeld, Passes, KeepsFiles, KeepsDevices, files, devices, history
  <1> QED
    BY <1>3, <1>4

(* applyHeldAnswer reads the record for a card that answers it. *)
LEMMA ApplyHeldKind ==
    ASSUME TypeInv, NEW r \in Request, ApplyHeldAnswer(r)
    PROVE  AppliesHeld(r)
  <1>1. req[r].pc = "apply"
    BY DEF ApplyHeldAnswer, At
  <1>2. req[r].copy.change = "answer"
    BY <1>1, MarkedCopy DEF ApplyHeldAnswer, Marked
  <1>3. Moves(r, "held_read") /\ req'[r].copy = held /\ req'[r].told = req[r].told
    BY HeldIsRead DEF ApplyHeldAnswer, PC
  <1> QED
    BY <1>1, <1>2, <1>3
       DEF ApplyHeldAnswer, AppliesHeld, Passes, KeepsFiles, KeepsDevices, files, devices, history

(* The end of a request whose held call had an answer. *)
LEMMA AlreadyStops ==
    ASSUME TypeInv, DoneInv, NEW r \in Request, HeldAlready(r),
           req[r].pc \in {"held_read", "held_settled"},
           UNCHANGED files, UNCHANGED devices, UNCHANGED history
    PROVE  Stops
  <1>1. UnderWay(r) /\ r \notin carried \cup counted
    BY NotDone DEF UnderWay
  <1>2. CASE Leaves(r, "already")
    BY <1>1, <1>2, LeavesStops DEF Outcome
  <1>3. CASE Ends(r, "let-through")
    BY <1>1, <1>3, EndsStops DEF Outcome
  <1> QED
    BY <1>2, <1>3 DEF HeldAlready

(* PendingApprovals.answer goes on from an unanswered record alone. *)
LEMMA HeldReadKind ==
    ASSUME TypeInv, DoneInv, NEW r \in Request, HeldRead(r)
    PROVE  Stops \/ ReadsHeld(r)
  <1>1. req[r].pc = "held_read" /\ UnderWay(r)
    BY DEF HeldRead, At, UnderWay
  <1>2. UNCHANGED files /\ UNCHANGED devices /\ UNCHANGED history
    BY DEF HeldRead
  <1>3. CASE Leaves(r, "error")
    BY <1>1, <1>2, <1>3, NotDone, LeavesStops DEF Outcome
  <1>4. CASE HeldAlready(r)
    BY <1>1, <1>2, <1>4, AlreadyStops
  <1>5. CASE ~Leaves(r, "error") /\ ~HeldAlready(r)
    <2>1. Reads(r, held, "held_claim") /\ held # None /\ held.answer = None
      BY <1>5 DEF HeldRead
    <2>2. Moves(r, "held_claim") /\ req'[r].copy = held /\ req'[r].told = req[r].told
      BY <2>1, HeldIsRead DEF PC
    <2> QED
      BY <1>1, <1>2, <2>1, <2>2
         DEF ReadsHeld, Passes, KeepsFiles, KeepsDevices, files, devices, history
  <1> QED
    BY <1>3, <1>4, <1>5

(* The claim decides between writing and looking again. *)
LEMMA HeldClaimKind ==
    ASSUME TypeInv, NEW r \in Request, HeldClaim(r)
    PROVE  Claims(r)
  <1>1. req[r].pc = "held_claim"
    BY DEF HeldClaim, At
  <1>2. GoesOn(r, "held_settled") \/ GoesOn(r, "held_write")
    BY GotoGoes DEF HeldClaim, PC
  <1> QED
    BY <1>1, <1>2
       DEF HeldClaim, Claims, Passes, GoesOn, KeepsFiles, KeepsDevices, files, devices, history

(* A request whose claim was another's ends. *)
LEMMA HeldSettledKind ==
    ASSUME TypeInv, DoneInv, NEW r \in Request, HeldSettled(r)
    PROVE  Stops
  <1>1. req[r].pc = "held_settled" /\ UnderWay(r)
    BY DEF HeldSettled, At, UnderWay
  <1>2. UNCHANGED files /\ UNCHANGED devices /\ UNCHANGED history
    BY DEF HeldSettled
  <1>3. CASE Leaves(r, "error")
    BY <1>1, <1>2, <1>3, NotDone, LeavesStops DEF Outcome
  <1>4. CASE HeldAlready(r)
    BY <1>1, <1>2, <1>4, AlreadyStops
  <1> QED
    BY <1>3, <1>4 DEF HeldSettled

(* The answer is written whole over the copy, and counts. *)
LEMMA HeldWriteKind ==
    ASSUME TypeInv, NEW r \in Request, HeldWrite(r)
    PROVE  WritesHeld(r)
  <1> DEFINE a == IF InputOf(r).answer = "deny" THEN "deny" ELSE "once"
             new == [req[r].copy EXCEPT !.by = r, !.answer = a]
  <1>1. req[r].pc = "held_write"
    BY DEF HeldWrite, At
  <1>2. req[r].copy \in Held
    BY <1>1 DEF TypeInv, StageOK, Staged, HeldStage
  <1>3. a \in {"once", "deny"} /\ a # None
    BY RecordAssumption
  <1>4. held' = new
    BY DEF HeldWrite
  <1> HIDE DEF a
  <1>5. held' \in Held /\ held'.answer # None /\ held'.within = req[r].copy.within
    <2>1. new \in Held /\ new.answer = a /\ new.within = req[r].copy.within
      BY <1>2, <1>3 DEF Held
    <2> QED
      BY <1>3, <1>4, <2>1
  <1>6. \/ Moves(r, "done") /\ req'[r].told \in {"let-through", "answered"}
        \/ Moves(r, "offer") /\ req'[r].told = req[r].told /\ Subject(r) = "held"
    <2>1. \/ Ends(r, "let-through") \/ Ends(r, "answered")
          \/ Goto(r, "offer") /\ Subject(r) = "held"
      <3>1. CASE Subject(r) # "held"
        BY <3>1 DEF HeldWrite
      <3>2. CASE Subject(r) = "held" /\ InputOf(r).answer = "always"
        BY <3>2 DEF HeldWrite
      <3>3. CASE Subject(r) = "held" /\ InputOf(r).answer # "always"
        BY <3>3 DEF HeldWrite
      <3> QED
        BY <3>1, <3>2, <3>3
    <2>2. CASE Ends(r, "let-through")
      BY <2>2, EndsGoes DEF Outcome
    <2>3. CASE Ends(r, "answered")
      BY <2>3, EndsGoes DEF Outcome
    <2>4. CASE Goto(r, "offer") /\ Subject(r) = "held"
      BY <2>4, GotoGoes DEF PC, GoesOn
    <2> QED
      BY <2>1, <2>2, <2>3, <2>4
  <1> QED
    BY <1>1, <1>5, <1>6 DEF HeldWrite, WritesHeld, KeepsDevices, devices

(* proposeFromNowOn leaves a rule card where there was none. *)
LEMMA OfferKind ==
    ASSUME TypeInv, NEW r \in Request, ProposeFromNowOn(r)
    PROVE  Offers(r)
  <1>1. Moves(r, "done") /\ req'[r].told = "answered"
    BY EndsGoes DEF ProposeFromNowOn, Outcome
  <1>2. card \in [Card -> Proposal \cup {None}]
    BY DEF TypeInv, TypeOK
  <1>3. Proposed("rules") \in Proposal /\ Proposed("rules").change = "rules"
    BY DEF Proposed, Proposal, Change
  <1>4. /\ card' \in [Card -> Proposal \cup {None}] /\ card'["given"] = card["given"]
        /\ \/ card'["always"] = card["always"]
           \/ card["always"] = None /\ card'["always"] # None /\ card'["always"].change = "rules"
    <2>1. CASE UNCHANGED card
      BY <2>1, <1>2
    <2>2. CASE card["always"] = None /\ card' = [card EXCEPT !["always"] = Proposed("rules")]
      <3>1. card'["always"] = Proposed("rules") /\ card'["given"] = card["given"]
            /\ card' \in [Card -> Proposal \cup {None}]
        BY <2>2, <1>2, <1>3 DEF Card
      <3> QED
        BY <3>1, <2>2, <1>3, RecordAssumption
    <2> QED
      BY <2>1, <2>2 DEF ProposeFromNowOn
  <1> QED
    BY <1>1, <1>4 DEF ProposeFromNowOn, At, Offers, KeepsDevices, devices

(* A failed file operation ends its request. *)
LEMMA FailsKind ==
    ASSUME TypeInv, NEW r \in Request, Fails(r)
    PROVE  Stops
  <1>1. UNCHANGED files /\ UNCHANGED devices /\ UNCHANGED history /\ UnderWay(r)
    BY DEF Fails
  <1>2. CASE Ends(r, "failed")
    BY <1>1, <1>2, EndsStops DEF Outcome
  <1>3. CASE Leaves(r, "failed") /\ r \notin carried \cup counted
    BY <1>1, <1>3, LeavesStops DEF Outcome
  <1> QED
    BY <1>2, <1>3 DEF Fails

(* A crash ends every request under way. *)
LEMMA CrashKind ==
    ASSUME TypeInv, Crash
    PROVE  Stops
  <1> DEFINE gone == [Idle EXCEPT !.pc = "done", !.told = "lost"]
  <1>1. /\ gone \in Req /\ gone.pc = "done" /\ gone.told = "lost" /\ gone.input = NoInput
    BY IdleTyped DEF Req, Idle, Outcome
  <1> HIDE DEF gone
  <1>2. ASSUME NEW q \in Request
        PROVE  req'[q] \in Req /\ (req'[q] = req[q] \/ (UnderWay(q) /\ Stopped(q)))
    <2>1. req'[q] = CASE ~UnderWay(q) -> req[q]
                      [] UnderWay(q) /\ q \in carried \cup counted -> Ended(q, "lost")
                      [] OTHER -> gone
      BY DEF Crash, gone
    <2>2. req[q] \in Req
      BY Parts
    <2>3. CASE ~UnderWay(q)
      BY <2>1, <2>2, <2>3
    <2>4. CASE UnderWay(q) /\ q \in carried \cup counted
      BY <2>1, <2>4, EndsGoes DEF Stopped, Outcome
    <2>5. CASE UnderWay(q) /\ q \notin carried \cup counted
      BY <2>1, <2>5, <1>1 DEF Stopped, Outcome
    <2> QED
      BY <2>3, <2>4, <2>5
  <1>3. req' \in [Request -> Req]
    <2> DEFINE f(q) == CASE ~UnderWay(q) -> req[q]
                         [] UnderWay(q) /\ q \in carried \cup counted -> Ended(q, "lost")
                         [] OTHER -> gone
    <2>1. req' = [q \in Request |-> f(q)]
      BY DEF Crash, gone
    <2> HIDE DEF f
    <2> QED
      BY <2>1, <1>2
  <1> QED
    BY <1>2, <1>3 DEF Stops, Crash, KeepsFiles, KeepsDevices, files, devices, history

(* A revocation takes authority away. *)
LEMMA RevokeKind ==
    ASSUME TypeInv, NEW p \in Phone, Revoke(p)
    PROVE  TakesAway
  BY DEF Revoke, TakesAway, TypeInv, TypeOK, KeepsFiles, files, history

(* So does a capability taken back. *)
LEMMA UngrantKind ==
    ASSUME TypeInv, NEW p \in Phone, NEW c \in Capability, Ungrant(p, c)
    PROVE  TakesAway
  <1>1. may' = [may EXCEPT ![p] = may[p] \ {c}] /\ may \in [Device -> SUBSET Capability]
    BY DEF Ungrant, TypeInv, TypeOK
  <1>2. may' \in [Device -> SUBSET Capability] /\ \A d \in Device : may'[d] \subseteq may[d]
    BY <1>1
  <1> QED
    BY <1>2 DEF Ungrant, TakesAway, KeepsFiles, files, history

(* Every step of the specification is of one of the kinds. *)
LEMMA StepKinds ==
    ASSUME TypeInv, DoneInv, [Next]_vars
    PROVE  Kinds
  <1>1. ASSUME NEW r \in Request, NEW i \in Inputs, Arrive(r, i) PROVE Kinds
    BY <1>1, ArriveBegins DEF Kinds
  <1>2. ASSUME NEW r \in Request, Look(r) PROVE Kinds
    BY <1>2, LookKind DEF Kinds, OwnStep
  <1>3. ASSUME NEW r \in Request, Consent(r) PROVE Kinds
    BY <1>3, ConsentKind DEF Kinds, OwnStep
  <1>4. ASSUME NEW r \in Request, MarkRead(r) PROVE Kinds
    BY <1>4, MarkReadKind DEF Kinds, OwnStep
  <1>5. ASSUME NEW r \in Request, MarkWrite(r) PROVE Kinds
    BY <1>5, MarkWriteKind DEF Kinds, OwnStep
  <1>6. ASSUME NEW r \in Request, ApplyAtOnce(r) PROVE Kinds
    BY <1>6, AtOnceKind DEF Kinds, OwnStep
  <1>7. ASSUME NEW r \in Request, ApplyInBackground(r) PROVE Kinds
    BY <1>7, InBackgroundKind DEF Kinds, OwnStep
  <1>8. ASSUME NEW r \in Request, ApplyPersonal(r) PROVE Kinds
    BY <1>8, PersonalKind DEF Kinds, OwnStep
  <1>9. ASSUME NEW r \in Request, RanRead(r) PROVE Kinds
    BY <1>9, RanReadKind DEF Kinds, OwnStep
  <1>10. ASSUME NEW r \in Request, RanWrite(r) PROVE Kinds
    BY <1>10, RanWriteKind DEF Kinds, OwnStep
  <1>11. ASSUME NEW r \in Request, OfferToTeam(r) PROVE Kinds
    BY <1>11, OfferToTeamKind DEF Kinds, OwnStep
  <1>12. ASSUME NEW r \in Request, ApplyRules(r) PROVE Kinds
    BY <1>12, ApplyRulesKind DEF Kinds, OwnStep
  <1>13. ASSUME NEW r \in Request, MergeRules(r) PROVE Kinds
    BY <1>13, MergeRulesKind DEF Kinds, OwnStep
  <1>14. ASSUME NEW r \in Request, RegisterPolicyFile(r) PROVE Kinds
    BY <1>14, RegisterKind DEF Kinds, OwnStep
  <1>15. ASSUME NEW r \in Request, ApplyResume(r) PROVE Kinds
    BY <1>15, ApplyResumeKind DEF Kinds, OwnStep
  <1>16. ASSUME NEW r \in Request, Resume(r) PROVE Kinds
    BY <1>16, ResumeKind DEF Kinds, OwnStep
  <1>17. ASSUME NEW r \in Request, HeldLook(r) PROVE Kinds
    BY <1>17, HeldLookKind DEF Kinds, OwnStep
  <1>18. ASSUME NEW r \in Request, ApplyHeldAnswer(r) PROVE Kinds
    BY <1>18, ApplyHeldKind DEF Kinds, OwnStep
  <1>19. ASSUME NEW r \in Request, HeldRead(r) PROVE Kinds
    BY <1>19, HeldReadKind DEF Kinds, OwnStep
  <1>20. ASSUME NEW r \in Request, HeldClaim(r) PROVE Kinds
    BY <1>20, HeldClaimKind DEF Kinds, OwnStep
  <1>21. ASSUME NEW r \in Request, HeldSettled(r) PROVE Kinds
    BY <1>21, HeldSettledKind DEF Kinds, OwnStep
  <1>22. ASSUME NEW r \in Request, HeldWrite(r) PROVE Kinds
    BY <1>22, HeldWriteKind DEF Kinds, OwnStep
  <1>23. ASSUME NEW r \in Request, ProposeFromNowOn(r) PROVE Kinds
    BY <1>23, OfferKind DEF Kinds, OwnStep
  <1>24. ASSUME NEW r \in Request, BackgroundEnds(r) PROVE Kinds
    BY <1>24 DEF BackgroundEnds, Kinds, Nothing, KeepsFiles, KeepsDevices, files, devices,
       history
  <1>25. ASSUME NEW r \in Request, Fails(r) PROVE Kinds
    BY <1>25, FailsKind DEF Kinds
  <1>26. ASSUME HeldClearClaim PROVE Kinds
    BY <1>26 DEF HeldClearClaim, Kinds, Nothing, KeepsFiles, KeepsDevices, files, devices,
       history
  <1>27. ASSUME HeldClearRecord PROVE Kinds
    BY <1>27 DEF HeldClearRecord, Kinds, ClearsHeld, KeepsDevices, devices, history
  <1>28. ASSUME NEW p \in Phone, Revoke(p) PROVE Kinds
    BY <1>28, RevokeKind DEF Kinds
  <1>29. ASSUME NEW p \in Phone, NEW c \in Capability, Ungrant(p, c) PROVE Kinds
    BY <1>29, UngrantKind DEF Kinds
  <1>30. ASSUME Crash PROVE Kinds
    BY <1>30, CrashKind DEF Kinds
  <1>31. CASE UNCHANGED vars
    BY <1>31 DEF vars, files, devices, history, Kinds, Nothing, KeepsFiles, KeepsDevices
  <1> QED
    BY <1>1, <1>2, <1>3, <1>4, <1>5, <1>6, <1>7, <1>8, <1>9, <1>10, <1>11, <1>12, <1>13,
       <1>14, <1>15, <1>16, <1>17, <1>18, <1>19, <1>20, <1>21, <1>22, <1>23, <1>24, <1>25,
       <1>26, <1>27, <1>28, <1>29, <1>30, <1>31 DEF Next, Step

-----------------------------------------------------------------------------
(* The four parts every other one rests on. *)
BaseInv == TypeInv /\ CardInv /\ DoneInv /\ AnsweredInv

(* The request r, and no other, moves; it adds itself to the histories. *)
OneMoves(r) ==
    /\ UnderWay(r) /\ req' \in [Request -> Req]
    /\ \A q \in Request : q # r => req'[q] = req[q]
    /\ req'[r].input = req[r].input /\ req'[r].authority = req[r].authority
    /\ UNCHANGED crowded
    /\ carried \subseteq carried' /\ carried' \subseteq carried \cup {r}
    /\ counted \subseteq counted' /\ counted' \subseteq counted \cup {r}
    /\ KeepsDevices

(* A card there stays there, about the same change, and answered if it was. *)
CardKept(c) ==
    card[c] # None =>
        /\ card'[c] # None /\ card'[c].change = card[c].change
        /\ card[c].answer # None => card'[c].answer # None
(* Every card is kept. *)
CardsKept == card' \in [Card -> Proposal \cup {None}] /\ \A c \in Card : CardKept(c)

(* A request's own step moves that request alone. *)
LEMMA OwnMoves ==
    ASSUME TypeInv, NEW r \in Request, OwnStep(r)
    PROVE  OneMoves(r)
  <1>1. CASE LooksUp(r)
    BY <1>1 DEF LooksUp, Passes, OneMoves, Moves, UnderWay, KeepsDevices
  <1>2. CASE Permitted(r)
    BY <1>2 DEF Permitted, Passes, OneMoves, Moves, UnderWay, KeepsDevices
  <1>3. CASE ReadsMark(r)
    BY <1>3 DEF ReadsMark, Passes, OneMoves, Moves, UnderWay, KeepsDevices
  <1>4. CASE Marks(r)
    BY <1>4 DEF Marks, GoesOn, OneMoves, Moves, UnderWay, KeepsDevices
  <1>5. CASE CarriesOut(r)
    BY <1>5 DEF CarriesOut, OneMoves, Moves, UnderWay, KeepsDevices
  <1>6. CASE WorksOut(r)
    BY <1>6 DEF WorksOut, OneMoves, Moves, UnderWay, KeepsDevices
  <1>7. CASE ReadsRan(r)
    BY <1>7 DEF ReadsRan, Passes, OneMoves, Moves, UnderWay, KeepsDevices
  <1>8. CASE WritesRan(r)
    BY <1>8 DEF WritesRan, OneMoves, Moves, UnderWay, KeepsDevices
  <1>9. CASE ReadsRules(r)
    BY <1>9 DEF ReadsRules, Passes, OneMoves, Moves, UnderWay, KeepsDevices
  <1>10. CASE Merges(r)
    BY <1>10 DEF Merges, GoesOn, OneMoves, Moves, UnderWay, KeepsDevices
  <1>11. CASE Lists(r)
    BY <1>11 DEF Lists, OneMoves, Moves, UnderWay, KeepsDevices
  <1>12. CASE ReadsPause(r)
    BY <1>12 DEF ReadsPause, Passes, OneMoves, Moves, UnderWay, KeepsDevices
  <1>13. CASE LooksHeld(r)
    BY <1>13 DEF LooksHeld, Passes, OneMoves, Moves, UnderWay, KeepsDevices
  <1>14. CASE AppliesHeld(r)
    BY <1>14 DEF AppliesHeld, Passes, OneMoves, Moves, UnderWay, KeepsDevices
  <1>15. CASE ReadsHeld(r)
    BY <1>15 DEF ReadsHeld, Passes, OneMoves, Moves, UnderWay, KeepsDevices
  <1>16. CASE Claims(r)
    BY <1>16 DEF Claims, Passes, OneMoves, Moves, UnderWay, KeepsDevices
  <1>17. CASE WritesHeld(r)
    BY <1>17 DEF WritesHeld, OneMoves, Moves, UnderWay, KeepsDevices
  <1>18. CASE Offers(r)
    BY <1>18 DEF Offers, OneMoves, Moves, UnderWay, KeepsDevices
  <1> QED
    BY <1>1, <1>2, <1>3, <1>4, <1>5, <1>6, <1>7, <1>8, <1>9, <1>10, <1>11, <1>12, <1>13,
       <1>14, <1>15, <1>16, <1>17, <1>18 DEF OwnStep

(* No write of a card takes back what another wrote of its answer. *)
LEMMA OwnKeepsCards ==
    ASSUME BaseInv, NEW r \in Request, OwnStep(r)
    PROVE  CardsKept
  <1>a. card \in [Card -> Proposal \cup {None}] /\ CardThere(r) /\ Answered(r) /\ Staged(r)
    BY DEF BaseInv, TypeInv, TypeOK, StageOK, CardInv, AnsweredInv
  <1>b. card' = card => CardsKept
    BY <1>a DEF CardsKept, CardKept
  <1>1. CASE LooksUp(r)
    BY <1>1, <1>b DEF LooksUp, Passes, KeepsFiles
  <1>2. CASE Permitted(r)
    BY <1>2, <1>b DEF Permitted, Passes, KeepsFiles
  <1>3. CASE ReadsMark(r)
    BY <1>3, <1>b DEF ReadsMark, Passes, KeepsFiles
  <1>4. CASE Marks(r)
    <2>1. Subject(r) \in Card /\ card[Subject(r)] # None
          /\ card[Subject(r)].change = req[r].copy.change
      BY <1>4, <1>a DEF Marks, CardThere, Staged, Unmarked
    <2>2. card'[Subject(r)] # None
      BY <1>4, RecordAssumption DEF Marks
    <2>3. CardKept(Subject(r))
      BY <1>4, <2>1, <2>2 DEF Marks, CardKept
    <2>4. ASSUME NEW c \in Card, c # Subject(r) PROVE CardKept(c)
      BY <1>4, <2>4 DEF Marks, CardKept
    <2> QED
      BY <1>4, <2>3, <2>4 DEF Marks, CardsKept
  <1>5. CASE CarriesOut(r)
    BY <1>5, <1>b DEF CarriesOut, KeepsFiles
  <1>6. CASE WorksOut(r)
    BY <1>6, <1>b DEF WorksOut, KeepsFiles
  <1>7. CASE ReadsRan(r)
    BY <1>7, <1>b DEF ReadsRan, Passes, KeepsFiles
  <1>8. CASE WritesRan(r)
    <2>1. Subject(r) \in Card /\ card[Subject(r)] # None /\ req[r].copy.answer # None
          /\ card[Subject(r)].change = req[r].copy.change
      BY <1>8, <1>a DEF WritesRan, CardThere, Staged, Marked, Answered
    <2>2. card'[Subject(r)] # None
      BY <1>8, RecordAssumption DEF WritesRan
    <2>3. CardKept(Subject(r))
      BY <1>8, <2>1, <2>2 DEF WritesRan, CardKept
    <2>4. ASSUME NEW c \in Card, c # Subject(r) PROVE CardKept(c)
      BY <1>8, <2>4 DEF WritesRan, CardKept
    <2> QED
      BY <1>8, <2>3, <2>4 DEF WritesRan, CardsKept
  <1>9. CASE ReadsRules(r)
    BY <1>9, <1>b DEF ReadsRules, Passes, KeepsFiles
  <1>10. CASE Merges(r)
    BY <1>10, <1>b DEF Merges, GoesOn, KeepsFiles
  <1>11. CASE Lists(r)
    BY <1>11, <1>b DEF Lists, KeepsFiles
  <1>12. CASE ReadsPause(r)
    BY <1>12, <1>b DEF ReadsPause, Passes, KeepsFiles
  <1>13. CASE LooksHeld(r)
    BY <1>13, <1>b DEF LooksHeld, Passes, KeepsFiles
  <1>14. CASE AppliesHeld(r)
    BY <1>14, <1>b DEF AppliesHeld, Passes, KeepsFiles
  <1>15. CASE ReadsHeld(r)
    BY <1>15, <1>b DEF ReadsHeld, Passes, KeepsFiles
  <1>16. CASE Claims(r)
    BY <1>16, <1>b DEF Claims, Passes, KeepsFiles
  <1>17. CASE WritesHeld(r)
    BY <1>17, <1>b DEF WritesHeld, KeepsFiles
  <1>18. CASE Offers(r)
    <2>1. CardKept("given") /\ CardKept("always")
      BY <1>18 DEF Offers, CardKept
    <2> QED
      BY <1>18, <2>1 DEF Offers, CardsKept, Card
  <1> QED
    BY <1>1, <1>2, <1>3, <1>4, <1>5, <1>6, <1>7, <1>8, <1>9, <1>10, <1>11, <1>12, <1>13,
       <1>14, <1>15, <1>16, <1>17, <1>18 DEF OwnStep

(* The cards are kept by every step. *)
LEMMA StepKeepsCards ==
    ASSUME BaseInv, Kinds
    PROVE  CardsKept
  <1>1. card \in [Card -> Proposal \cup {None}]
    BY DEF BaseInv, TypeInv, TypeOK
  <1>2. card' = card => CardsKept
    BY <1>1 DEF CardsKept, CardKept
  <1>3. CASE Nothing \/ Stops \/ ClearsHeld \/ TakesAway
    BY <1>2, <1>3 DEF Nothing, Stops, ClearsHeld, TakesAway, KeepsFiles
  <1>4. CASE \E r \in Request : Begins(r)
    BY <1>2, <1>4 DEF Begins, KeepsFiles
  <1>5. CASE \E r \in Request : OwnStep(r)
    BY <1>5, OwnKeepsCards
  <1> QED
    BY <1>3, <1>4, <1>5 DEF Kinds

(* What no other part reads stays well typed. *)
RestOK ==
    /\ expired \in SUBSET Card /\ claim \in BOOLEAN /\ paused \in BOOLEAN
    /\ background \in SUBSET Request /\ faults \in 0 .. MaxFaults
(* Every action keeps their types. *)
LEMMA RestStep ==
    ASSUME TypeInv, [Next]_vars
    PROVE  RestOK'
  <1>a. RestOK
    BY DEF TypeInv, TypeOK, RestOK
  <1>1. ASSUME NEW r \in Request, NEW i \in Inputs, Arrive(r, i) PROVE RestOK'
    <2>1. i.late => i.subject \in Card
      BY <1>1 DEF Inputs, InputWith
    <2> QED
      BY <1>1, <2>1, <1>a DEF Arrive, RestOK, files
  <1>2. ASSUME NEW r \in Request, Look(r) PROVE RestOK'
    BY <1>2, <1>a DEF Look, RestOK, files, devices, history
  <1>3. ASSUME NEW r \in Request, Consent(r) PROVE RestOK'
    BY <1>3, <1>a DEF Consent, RestOK, files, devices, history
  <1>4. ASSUME NEW r \in Request, MarkRead(r) PROVE RestOK'
    BY <1>4, <1>a DEF MarkRead, RestOK, files, devices, history
  <1>5. ASSUME NEW r \in Request, MarkWrite(r) PROVE RestOK'
    BY <1>5, <1>a DEF MarkWrite, RestOK, files, devices, history
  <1>6. ASSUME NEW r \in Request, ApplyAtOnce(r) PROVE RestOK'
    BY <1>6, <1>a DEF ApplyAtOnce, RestOK, files, devices, history
  <1>7. ASSUME NEW r \in Request, ApplyInBackground(r) PROVE RestOK'
    BY <1>7, <1>a DEF ApplyInBackground, RestOK, files, devices, history
  <1>8. ASSUME NEW r \in Request, ApplyPersonal(r) PROVE RestOK'
    BY <1>8, <1>a DEF ApplyPersonal, RestOK, files, devices, history
  <1>9. ASSUME NEW r \in Request, RanRead(r) PROVE RestOK'
    BY <1>9, <1>a DEF RanRead, RestOK, files, devices, history
  <1>10. ASSUME NEW r \in Request, RanWrite(r) PROVE RestOK'
    BY <1>10, <1>a DEF RanWrite, RestOK, files, devices, history
  <1>11. ASSUME NEW r \in Request, OfferToTeam(r) PROVE RestOK'
    BY <1>11, <1>a DEF OfferToTeam, RestOK, files, devices, history
  <1>12. ASSUME NEW r \in Request, ApplyRules(r) PROVE RestOK'
    BY <1>12, <1>a DEF ApplyRules, RestOK, files, devices, history
  <1>13. ASSUME NEW r \in Request, MergeRules(r) PROVE RestOK'
    BY <1>13, <1>a DEF MergeRules, RestOK, files, devices, history
  <1>14. ASSUME NEW r \in Request, RegisterPolicyFile(r) PROVE RestOK'
    BY <1>14, <1>a DEF RegisterPolicyFile, RestOK, files, devices, history
  <1>15. ASSUME NEW r \in Request, ApplyResume(r) PROVE RestOK'
    BY <1>15, <1>a DEF ApplyResume, RestOK, files, devices, history
  <1>16. ASSUME NEW r \in Request, Resume(r) PROVE RestOK'
    BY <1>16, <1>a DEF Resume, RestOK, files, devices, history
  <1>17. ASSUME NEW r \in Request, HeldLook(r) PROVE RestOK'
    BY <1>17, <1>a DEF HeldLook, RestOK, files, devices, history
  <1>18. ASSUME NEW r \in Request, ApplyHeldAnswer(r) PROVE RestOK'
    BY <1>18, <1>a DEF ApplyHeldAnswer, RestOK, files, devices, history
  <1>19. ASSUME NEW r \in Request, HeldRead(r) PROVE RestOK'
    BY <1>19, <1>a DEF HeldRead, RestOK, files, devices, history
  <1>20. ASSUME NEW r \in Request, HeldClaim(r) PROVE RestOK'
    BY <1>20, <1>a DEF HeldClaim, RestOK, files, devices, history
  <1>21. ASSUME NEW r \in Request, HeldSettled(r) PROVE RestOK'
    BY <1>21, <1>a DEF HeldSettled, RestOK, files, devices, history
  <1>22. ASSUME NEW r \in Request, HeldWrite(r) PROVE RestOK'
    BY <1>22, <1>a DEF HeldWrite, RestOK, files, devices, history
  <1>23. ASSUME NEW r \in Request, ProposeFromNowOn(r) PROVE RestOK'
    BY <1>23, <1>a DEF ProposeFromNowOn, RestOK, files, devices, history
  <1>24. ASSUME NEW r \in Request, BackgroundEnds(r) PROVE RestOK'
    BY <1>24, <1>a DEF BackgroundEnds, RestOK, files, devices, history
  <1>25. ASSUME NEW r \in Request, Fails(r) PROVE RestOK'
    BY <1>25, <1>a, FaultAssumption DEF Fails, RestOK, files, devices
  <1>26. ASSUME HeldClearClaim PROVE RestOK'
    BY <1>26, <1>a DEF HeldClearClaim, RestOK, files, devices, history
  <1>27. ASSUME HeldClearRecord PROVE RestOK'
    BY <1>27, <1>a DEF HeldClearRecord, RestOK, files, devices, history
  <1>28. ASSUME NEW p \in Phone, Revoke(p) PROVE RestOK'
    BY <1>28, <1>a, FaultAssumption DEF Revoke, RestOK, files, devices
  <1>29. ASSUME NEW p \in Phone, NEW c \in Capability, Ungrant(p, c) PROVE RestOK'
    BY <1>29, <1>a, FaultAssumption DEF Ungrant, RestOK, files, devices
  <1>30. ASSUME Crash PROVE RestOK'
    BY <1>30, <1>a, FaultAssumption DEF Crash, RestOK, files, devices
  <1>31. CASE UNCHANGED vars
    BY <1>31, <1>a DEF vars, files, devices, history, RestOK
  <1> QED
    BY <1>1, <1>2, <1>3, <1>4, <1>5, <1>6, <1>7, <1>8, <1>9, <1>10, <1>11, <1>12, <1>13,
       <1>14, <1>15, <1>16, <1>17, <1>18, <1>19, <1>20, <1>21, <1>22, <1>23, <1>24, <1>25,
       <1>26, <1>27, <1>28, <1>29, <1>30, <1>31 DEF Next, Step

(* The files and histories every other part reads stay well typed. *)
CoreOK ==
    /\ held \in Held \cup {None} /\ rules \in SUBSET Card /\ registered \in BOOLEAN
    /\ live \in SUBSET Device /\ may \in [Device -> SUBSET Capability]
    /\ req \in [Request -> Req]
    /\ crowded \in SUBSET Request /\ carried \in SUBSET Request /\ counted \in SUBSET Request
(* Every kind of step keeps their types. *)
LEMMA CoreStep ==
    ASSUME BaseInv, Kinds
    PROVE  CoreOK'
  <1>a. CoreOK /\ StageOK
    BY DEF BaseInv, TypeInv, TypeOK, CoreOK, Req
  <1>b. CASE Nothing \/ Stops \/ ClearsHeld \/ TakesAway
    BY <1>a, <1>b DEF Nothing, Stops, ClearsHeld, TakesAway, KeepsFiles, KeepsDevices,
       CoreOK
  <1>c. CASE \E r \in Request : Begins(r)
    BY <1>a, <1>c DEF Begins, KeepsFiles, KeepsDevices, CoreOK
  <1>d. CASE \E r \in Request : OwnStep(r)
    <2>1. PICK r \in Request : OwnStep(r)
      BY <1>d
    <2>2. OneMoves(r)
      BY <2>1, OwnMoves DEF BaseInv
    <2>3. held' \in Held \cup {None} /\ rules' \in SUBSET Card /\ registered' \in BOOLEAN
      <3>a. KeepsFiles => held' \in Held \cup {None} /\ rules' \in SUBSET Card /\ registered' \in BOOLEAN
        BY <1>a DEF KeepsFiles, CoreOK
      <3>b. Merges(r) => req[r].saw \in SUBSET Card /\ Subject(r) \in Card
        BY <1>a DEF Merges, StageOK, Staged, Marked, CoreOK, Req
      <3>1. CASE LooksUp(r)
        BY <3>1, <3>a DEF LooksUp, Passes, KeepsFiles
      <3>2. CASE Permitted(r)
        BY <3>2, <3>a DEF Permitted, Passes, KeepsFiles
      <3>3. CASE ReadsMark(r)
        BY <3>3, <3>a DEF ReadsMark, Passes, KeepsFiles
      <3>4. CASE Marks(r)
        BY <3>4, <1>a DEF Marks, CoreOK
      <3>5. CASE CarriesOut(r)
        BY <3>5, <3>a DEF CarriesOut, KeepsFiles
      <3>6. CASE WorksOut(r)
        BY <3>6, <3>a DEF WorksOut, KeepsFiles
      <3>7. CASE ReadsRan(r)
        BY <3>7, <3>a DEF ReadsRan, Passes, KeepsFiles
      <3>8. CASE WritesRan(r)
        BY <3>8, <1>a DEF WritesRan, CoreOK
      <3>9. CASE ReadsRules(r)
        BY <3>9, <3>a DEF ReadsRules, Passes, KeepsFiles
      <3>10. CASE Merges(r)
        BY <3>10, <3>b, <1>a DEF Merges, CoreOK
      <3>11. CASE Lists(r)
        BY <3>11, <1>a DEF Lists, CoreOK
      <3>12. CASE ReadsPause(r)
        BY <3>12, <3>a DEF ReadsPause, Passes, KeepsFiles
      <3>13. CASE LooksHeld(r)
        BY <3>13, <3>a DEF LooksHeld, Passes, KeepsFiles
      <3>14. CASE AppliesHeld(r)
        BY <3>14, <3>a DEF AppliesHeld, Passes, KeepsFiles
      <3>15. CASE ReadsHeld(r)
        BY <3>15, <3>a DEF ReadsHeld, Passes, KeepsFiles
      <3>16. CASE Claims(r)
        BY <3>16, <3>a DEF Claims, Passes, KeepsFiles
      <3>17. CASE WritesHeld(r)
        BY <3>17, <1>a DEF WritesHeld, CoreOK
      <3>18. CASE Offers(r)
        BY <3>18, <1>a DEF Offers, CoreOK
      <3> QED
        BY <2>1, <3>1, <3>2, <3>3, <3>4, <3>5, <3>6, <3>7, <3>8, <3>9, <3>10, <3>11,
           <3>12, <3>13, <3>14, <3>15, <3>16, <3>17, <3>18 DEF OwnStep
    <2> QED
      BY <1>a, <2>2, <2>3 DEF CoreOK, OneMoves, KeepsDevices
  <1> QED
    BY <1>b, <1>c, <1>d DEF Kinds

(* The base facts about one request. *)
ReqOK(q) == Staged(q) /\ CardThere(q) /\ Behind(q) /\ Answered(q)

(* Whatever keeps the cards keeps them of a request it does not touch. *)
LEMMA OthersKeep ==
    ASSUME TypeInv, NEW q \in Request, ReqOK(q), CardsKept, req'[q] = req[q],
           q \in carried' <=> q \in carried, q \in counted' <=> q \in counted
    PROVE  ReqOK(q)'
  <1>1. Subject(q)' = Subject(q) /\ InputOf(q)' = InputOf(q) /\ (Confirming(q)' <=> Confirming(q))
    BY DEF Subject, InputOf, Confirming
  <1>2. Staged(q)'
    BY <1>1 DEF ReqOK, Staged
  <1>3. Subject(q) \in Card \/ Subject(q) = "held"
    BY Parts
  <1>4. CardThere(q)'
    <2>1. Subject(q) \in Card => CardKept(Subject(q))
      BY DEF CardsKept
    <2> QED
      BY <1>1, <1>3, <2>1 DEF ReqOK, CardThere, CardKept, Staged
  <1>5. Behind(q)'
    BY <1>1 DEF ReqOK, Behind, CardThere, CardsKept, CardKept
  <1>6. Answered(q)'
    <2>1. Subject(q) \in Card => CardKept(Subject(q))
      BY DEF CardsKept
    <2> QED
      BY <1>1, <1>3, <2>1 DEF ReqOK, Answered, CardThere, CardKept, Staged
  <1> QED
    BY <1>2, <1>4, <1>5, <1>6 DEF ReqOK

(* They hold of a request that ends without its change. *)
LEMMA StoppedKeeps ==
    ASSUME TypeInv, NEW q \in Request, ReqOK(q), CardsKept, Stopped(q),
           UNCHANGED <<carried, counted>>
    PROVE  ReqOK(q)'
  <1>1. req'[q].pc = "done" /\ req'[q].told # "declined"
    BY DEF Stopped
  <1>2. q \in carried \cup counted => Subject(q)' = Subject(q)
    BY DEF Stopped, Subject, InputOf
  <1>3. Staged(q)' /\ CardThere(q)' /\ Answered(q)'
    BY <1>1, <1>2 DEF ReqOK, Staged, CardThere, Answered, CardsKept, CardKept, Unmarked,
       Marked,
                      HeldStage
  <1>4. Behind(q)'
    BY <1>1, <1>2 DEF ReqOK, Behind, CardThere, CardsKept, CardKept, Marked
  <1> QED
    BY <1>3, <1>4 DEF ReqOK

(* They hold of a request that arrives. *)
LEMMA BegunKeeps ==
    ASSUME TypeInv, NEW r \in Request, ReqOK(r), Begins(r)
    PROVE  ReqOK(r)'
  <1>1. r \notin carried' \cup counted' /\ req'[r].told # "declined"
    BY DEF ReqOK, Behind, Begins
  <1> QED
    BY <1>1 DEF ReqOK, Staged, CardThere, Answered, Behind, Begins, Subject, InputOf,
                Unmarked, Marked, HeldStage

(* They hold of a request after its own step. *)
LEMMA OwnKeeps ==
    ASSUME BaseInv, NEW r \in Request, OwnStep(r)
    PROVE  ReqOK(r)'
  <1>a. ReqOK(r) /\ TypeInv /\ CardsKept
    BY OwnKeepsCards DEF BaseInv, ReqOK, TypeInv, StageOK, CardInv, DoneInv, AnsweredInv
  <1>b. Subject(r)' = Subject(r) /\ InputOf(r)' = InputOf(r) /\ (Confirming(r)' <=> Confirming(r))
    BY OwnMoves, <1>a DEF OneMoves, Subject, InputOf, Confirming
  <1>c. Subject(r) \in Card => CardKept(Subject(r)) /\ card[Subject(r)] \in Proposal \cup {None}
    BY <1>a DEF CardsKept, TypeInv, TypeOK
  <1>d. held \in Held \cup {None} /\ Subject(r) \in Card \cup {"held"} /\ "held" \notin Card
    BY <1>a, Parts DEF TypeInv, TypeOK, Card
  <1>1. CASE LooksUp(r)
    BY <1>1, <1>a, <1>b, <1>c, <1>d, RecordAssumption DEF LooksUp, Passes, Moves,
       KeepsFiles, ReqOK, Staged, CardThere, Behind, Answered, CardKept, Unmarked, Marked,
       HeldStage
  <1>2. CASE Permitted(r)
    BY <1>2, <1>a, <1>b, <1>c, <1>d, RecordAssumption DEF Permitted, Passes, Moves,
       KeepsFiles, ReqOK, Staged, CardThere, Behind, Answered, CardKept, Unmarked, Marked,
       HeldStage
  <1>3. CASE ReadsMark(r)
    BY <1>3, <1>a, <1>b, <1>c, <1>d, RecordAssumption DEF ReadsMark, Passes, Moves,
       KeepsFiles, ReqOK, Staged, CardThere, Behind, Answered, CardKept, Unmarked, Marked,
       HeldStage
  <1>4. CASE Marks(r)
    BY <1>4, <1>a, <1>b, <1>c, <1>d, RecordAssumption DEF Marks, GoesOn, Moves,
       KeepsFiles, ReqOK, Staged, CardThere, Behind, Answered, CardKept, Unmarked, Marked,
       HeldStage
  <1>5. CASE CarriesOut(r)
    BY <1>5, <1>a, <1>b, <1>c, <1>d, RecordAssumption DEF CarriesOut, Moves, KeepsFiles,
       ReqOK, Staged, CardThere, Behind, Answered, CardKept, Unmarked, Marked, HeldStage
  <1>6. CASE WorksOut(r)
    BY <1>6, <1>a, <1>b, <1>c, <1>d, RecordAssumption DEF WorksOut, Moves, KeepsFiles,
       ReqOK, Staged, CardThere, Behind, Answered, CardKept, Unmarked, Marked, HeldStage
  <1>7. CASE ReadsRan(r)
    BY <1>7, <1>a, <1>b, <1>c, <1>d, RecordAssumption DEF ReadsRan, Passes, Moves,
       KeepsFiles, ReqOK, Staged, CardThere, Behind, Answered, CardKept, Unmarked, Marked,
       HeldStage
  <1>8. CASE WritesRan(r)
    BY <1>8, <1>a, <1>b, <1>c, <1>d, RecordAssumption DEF WritesRan, Moves, KeepsFiles,
       ReqOK, Staged, CardThere, Behind, Answered, CardKept, Unmarked, Marked, HeldStage
  <1>9. CASE ReadsRules(r)
    BY <1>9, <1>a, <1>b, <1>c, <1>d, RecordAssumption DEF ReadsRules, Passes, Moves,
       KeepsFiles, ReqOK, Staged, CardThere, Behind, Answered, CardKept, Unmarked, Marked,
       HeldStage
  <1>10. CASE Merges(r)
    BY <1>10, <1>a, <1>b, <1>c, <1>d, RecordAssumption DEF Merges, GoesOn, Moves,
       KeepsFiles, ReqOK, Staged, CardThere, Behind, Answered, CardKept, Unmarked, Marked,
       HeldStage
  <1>11. CASE Lists(r)
    BY <1>11, <1>a, <1>b, <1>c, <1>d, RecordAssumption DEF Lists, Moves, KeepsFiles,
       ReqOK, Staged, CardThere, Behind, Answered, CardKept, Unmarked, Marked, HeldStage
  <1>12. CASE ReadsPause(r)
    BY <1>12, <1>a, <1>b, <1>c, <1>d, RecordAssumption DEF ReadsPause, Passes, Moves,
       KeepsFiles, ReqOK, Staged, CardThere, Behind, Answered, CardKept, Unmarked, Marked,
       HeldStage
  <1>13. CASE LooksHeld(r)
    BY <1>13, <1>a, <1>b, <1>c, <1>d, RecordAssumption DEF LooksHeld, Passes, Moves,
       KeepsFiles, ReqOK, Staged, CardThere, Behind, Answered, CardKept, Unmarked, Marked,
       HeldStage
  <1>14. CASE AppliesHeld(r)
    BY <1>14, <1>a, <1>b, <1>c, <1>d, RecordAssumption DEF AppliesHeld, Passes, Moves,
       KeepsFiles, ReqOK, Staged, CardThere, Behind, Answered, CardKept, Unmarked, Marked,
       HeldStage
  <1>15. CASE ReadsHeld(r)
    BY <1>15, <1>a, <1>b, <1>c, <1>d, RecordAssumption DEF ReadsHeld, Passes, Moves,
       KeepsFiles, ReqOK, Staged, CardThere, Behind, Answered, CardKept, Unmarked, Marked,
       HeldStage
  <1>16. CASE Claims(r)
    BY <1>16, <1>a, <1>b, <1>c, <1>d, RecordAssumption DEF Claims, Passes, Moves,
       KeepsFiles, ReqOK, Staged, CardThere, Behind, Answered, CardKept, Unmarked, Marked,
       HeldStage
  <1>17. CASE WritesHeld(r)
    BY <1>17, <1>a, <1>b, <1>c, <1>d, RecordAssumption DEF WritesHeld, Moves, KeepsFiles,
       ReqOK, Staged, CardThere, Behind, Answered, CardKept, Unmarked, Marked, HeldStage
  <1>18. CASE Offers(r)
    BY <1>18, <1>a, <1>b, <1>c, <1>d, RecordAssumption DEF Offers, Moves, KeepsFiles,
       ReqOK, Staged, CardThere, Behind, Answered, CardKept, Unmarked, Marked, HeldStage
  <1> QED
    BY <1>1, <1>2, <1>3, <1>4, <1>5, <1>6, <1>7, <1>8, <1>9, <1>10, <1>11, <1>12, <1>13,
       <1>14, <1>15, <1>16, <1>17, <1>18 DEF OwnStep

(* The base facts are kept by every step. *)
LEMMA BaseStep ==
    ASSUME BaseInv, [Next]_vars
    PROVE  BaseInv'
  <1>1. Kinds /\ RestOK' /\ TypeInv
    BY StepKinds, RestStep DEF BaseInv
  <1>2. CardsKept /\ CoreOK'
    BY <1>1, StepKeepsCards, CoreStep
  <1>3. \A q \in Request : ReqOK(q)
    BY DEF BaseInv, ReqOK, TypeInv, StageOK, CardInv, DoneInv, AnsweredInv
  <1>4. TypeOK'
    BY <1>1, <1>2 DEF RestOK, CoreOK, CardsKept, TypeOK, Req
  <1>5. (card["given"] # None)' /\ (card["always"] # None => card["always"].change = "rules")'
    <2>1. card["given"] # None /\ (card["always"] # None => card["always"].change = "rules")
      BY DEF BaseInv, CardInv
    <2>2. CardKept("given") /\ CardKept("always")
      BY <1>2 DEF CardsKept, Card
    <2>3. CASE card["always"] # None
      BY <2>1, <2>2, <2>3 DEF CardKept
    <2>4. CASE card["always"] = None
      <3>1. card'["always"] = None \/ card'["always"].change = "rules"
        <4>1. CASE Nothing \/ Stops \/ ClearsHeld \/ TakesAway
          BY <4>1, <2>4 DEF Nothing, Stops, ClearsHeld, TakesAway, KeepsFiles
        <4>2. CASE \E r \in Request : Begins(r)
          BY <4>2, <2>4 DEF Begins, KeepsFiles
        <4>3. CASE \E r \in Request : OwnStep(r)
          <5>1. PICK r \in Request : OwnStep(r)
            BY <4>3
          <5>2. \/ card' = card
                \/ Offers(r)
                \/ /\ \A c \in Card : c # Subject(r) => card'[c] = card[c]
                   /\ card[Subject(r)] # None
            <6>a. ReqOK(r)
              BY <1>3
            <6>1. CASE LooksUp(r)
              BY <6>1 DEF LooksUp, Passes, KeepsFiles
            <6>2. CASE Permitted(r)
              BY <6>2 DEF Permitted, Passes, KeepsFiles
            <6>3. CASE ReadsMark(r)
              BY <6>3 DEF ReadsMark, Passes, KeepsFiles
            <6>4. CASE Marks(r)
              BY <6>4, <6>a DEF Marks, ReqOK, CardThere, Unmarked
            <6>5. CASE CarriesOut(r)
              BY <6>5 DEF CarriesOut, KeepsFiles
            <6>6. CASE WorksOut(r)
              BY <6>6 DEF WorksOut, KeepsFiles
            <6>7. CASE ReadsRan(r)
              BY <6>7 DEF ReadsRan, Passes, KeepsFiles
            <6>8. CASE WritesRan(r)
              BY <6>8, <6>a DEF WritesRan, ReqOK, CardThere, Marked
            <6>9. CASE ReadsRules(r)
              BY <6>9 DEF ReadsRules, Passes, KeepsFiles
            <6>10. CASE Merges(r)
              BY <6>10 DEF Merges, GoesOn, KeepsFiles
            <6>11. CASE Lists(r)
              BY <6>11 DEF Lists, KeepsFiles
            <6>12. CASE ReadsPause(r)
              BY <6>12 DEF ReadsPause, Passes, KeepsFiles
            <6>13. CASE LooksHeld(r)
              BY <6>13 DEF LooksHeld, Passes, KeepsFiles
            <6>14. CASE AppliesHeld(r)
              BY <6>14 DEF AppliesHeld, Passes, KeepsFiles
            <6>15. CASE ReadsHeld(r)
              BY <6>15 DEF ReadsHeld, Passes, KeepsFiles
            <6>16. CASE Claims(r)
              BY <6>16 DEF Claims, Passes, KeepsFiles
            <6>17. CASE WritesHeld(r)
              BY <6>17 DEF WritesHeld, KeepsFiles
            <6>18. CASE Offers(r)
              BY <6>18
            <6> QED
              BY <5>1, <6>1, <6>2, <6>3, <6>4, <6>5, <6>6, <6>7, <6>8, <6>9, <6>10, <6>11,
                 <6>12, <6>13, <6>14, <6>15, <6>16, <6>17, <6>18 DEF OwnStep
          <5> QED
            BY <5>2, <2>4 DEF Offers, Card
        <4> QED
          BY <1>1, <4>1, <4>2, <4>3 DEF Kinds
      <3> QED
        BY <3>1, <2>1, <2>2 DEF CardKept
    <2> QED
      BY <2>3, <2>4
  <1>6. ASSUME NEW q \in Request PROVE ReqOK(q)'
    <2>0. TypeInv /\ ReqOK(q) /\ CardsKept
      BY <1>1, <1>2, <1>3
    <2>1. CASE Nothing \/ ClearsHeld \/ TakesAway
      BY <2>0, <2>1, OthersKeep DEF Nothing, ClearsHeld, TakesAway
    <2>2. CASE Stops
      <3>1. CASE req'[q] = req[q]
        BY <2>0, <2>2, <3>1, OthersKeep DEF Stops
      <3>2. CASE Stopped(q)
        BY <2>0, <2>2, <3>2, StoppedKeeps DEF Stops
      <3> QED
        BY <2>2, <3>1, <3>2 DEF Stops
    <2>3. ASSUME NEW r \in Request, Begins(r) PROVE ReqOK(q)'
      <3>1. CASE q = r
        BY <2>0, <2>3, <3>1, BegunKeeps
      <3>2. CASE q # r
        BY <2>0, <2>3, <3>2, OthersKeep DEF Begins
      <3> QED
        BY <3>1, <3>2
    <2>4. ASSUME NEW r \in Request, OwnStep(r) PROVE ReqOK(q)'
      <3>1. CASE q = r
        BY <2>4, <3>1, OwnKeeps
      <3>2. CASE q # r
        <4>1. OneMoves(r)
          BY <2>0, <2>4, OwnMoves
        <4> QED
          BY <2>0, <4>1, <3>2, OthersKeep DEF OneMoves
      <3> QED
        BY <3>1, <3>2
    <2> QED
      BY <1>1, <2>1, <2>2, <2>3, <2>4 DEF Kinds
  <1> QED
    BY <1>4, <1>5, <1>6 DEF BaseInv, TypeInv, StageOK, CardInv, DoneInv, AnsweredInv,
       ReqOK

-----------------------------------------------------------------------------
(* A request is under way only if it was, unless it arrives. *)
LEMMA NoneBegins ==
    ASSUME TypeInv, Kinds, NEW q \in Request, UnderWay(q)', ~Begins(q)
    PROVE  UnderWay(q) /\ req'[q].input = req[q].input /\ req'[q].authority = req[q].authority
  <1>1. CASE Nothing \/ ClearsHeld \/ TakesAway
    BY <1>1 DEF Nothing, ClearsHeld, TakesAway, UnderWay
  <1>2. CASE Stops
    BY <1>2 DEF Stops, Stopped, UnderWay
  <1>3. ASSUME NEW r \in Request, Begins(r)
        PROVE  UnderWay(q) /\ req'[q].input = req[q].input /\ req'[q].authority = req[q].authority
    BY <1>3 DEF Begins, UnderWay
  <1>4. ASSUME NEW r \in Request, OwnStep(r)
        PROVE  UnderWay(q) /\ req'[q].input = req[q].input /\ req'[q].authority = req[q].authority
    BY <1>4, OwnMoves DEF OneMoves, UnderWay
  <1> QED
    BY <1>1, <1>2, <1>3, <1>4 DEF Kinds

(* Nobody gains authority while a request is handled. *)
LEMMA AuthorityStep ==
    ASSUME TypeInv, AuthorityInv, Kinds
    PROVE  AuthorityInv'
  <1>1. live' \subseteq live /\ \A d \in live' : may'[d] \subseteq may[d]
    <2>0. live \subseteq Device
      BY DEF TypeInv, TypeOK
    <2>1. CASE Nothing \/ Stops \/ ClearsHeld
      BY <2>1 DEF Nothing, Stops, ClearsHeld, KeepsDevices
    <2>2. CASE TakesAway
      BY <2>0, <2>2 DEF TakesAway
    <2>3. CASE \E r \in Request : Begins(r)
      BY <2>3 DEF Begins, KeepsDevices
    <2>4. CASE \E r \in Request : OwnStep(r)
      BY <2>4, OwnMoves DEF OneMoves, KeepsDevices
    <2> QED
      BY <2>1, <2>2, <2>3, <2>4 DEF Kinds
  <1>2. ASSUME NEW q \in Request, UnderWay(q)'
        PROVE  /\ \A d \in live' : \A c \in may'[d] \cup {None} : <<d, c>> \in req'[q].authority
               /\ req'[q].input.from # Mac
                     => \A c \in req'[q].input.caps : <<req'[q].input.from, c>> \in req'[q].authority
    <2>1. CASE Begins(q)
      BY <1>1, <2>1 DEF Begins
    <2>2. CASE ~Begins(q)
      <3>1. UnderWay(q) /\ req'[q].input = req[q].input /\ req'[q].authority = req[q].authority
        BY <1>2, <2>2, NoneBegins
      <3> QED
        BY <1>1, <3>1 DEF AuthorityInv, InputOf
    <2> QED
      BY <2>1, <2>2
  <1> QED
    BY <1>2 DEF AuthorityInv, InputOf

(* Two handled at once are crowded by the one that arrived last. *)
LEMMA AloneStep ==
    ASSUME TypeInv, AloneInv, Kinds
    PROVE  AloneInv'
  <1>1. crowded \subseteq crowded'
    <2>1. CASE Nothing \/ Stops \/ ClearsHeld \/ TakesAway
      BY <2>1 DEF Nothing, Stops, ClearsHeld, TakesAway
    <2>2. CASE \E r \in Request : Begins(r)
      BY <2>2 DEF Begins
    <2>3. CASE \E r \in Request : OwnStep(r)
      BY <2>3, OwnMoves DEF OneMoves
    <2> QED
      BY <2>1, <2>2, <2>3 DEF Kinds
  <1>2. ASSUME NEW q \in Request, NEW s \in Request, q # s, Begins(q), UnderWay(s)'
        PROVE  q \in crowded' /\ s \in crowded'
    BY <1>2 DEF Begins, UnderWay
  <1>3. ASSUME NEW q \in Request, NEW s \in Request, q # s, UnderWay(q)', UnderWay(s)'
        PROVE  q \in crowded' /\ s \in crowded'
    <2>1. CASE Begins(q)
      BY <1>2, <1>3, <2>1
    <2>2. CASE Begins(s)
      BY <1>2, <1>3, <2>2
    <2>3. CASE ~Begins(q) /\ ~Begins(s)
      <3>1. UnderWay(q) /\ UnderWay(s)
        BY <1>3, <2>3, NoneBegins
      <3> QED
        BY <1>1, <1>3, <3>1 DEF AloneInv
    <2> QED
      BY <2>1, <2>2, <2>3
  <1> QED
    BY <1>3 DEF AloneInv

(* A request that holds a copy of the held call held it before, or reads it. *)
LEMMA HeldCopies ==
    ASSUME BaseInv, Kinds, NEW q \in Request, HasHeld(q)'
    PROVE  \/ HasHeld(q) /\ req'[q].copy = req[q].copy
           \/ held # None /\ held' = held /\ req'[q].copy = held
  <1>0. Staged(q)
    BY DEF BaseInv, TypeInv, StageOK
  <1>1. CASE Nothing \/ ClearsHeld \/ TakesAway
    BY <1>1 DEF Nothing, ClearsHeld, TakesAway, HasHeld
  <1>2. CASE Stops
    BY <1>2 DEF Stops, Stopped, HasHeld, HeldStage
  <1>3. ASSUME NEW r \in Request, Begins(r)
        PROVE  HasHeld(q) /\ req'[q].copy = req[q].copy
    BY <1>3 DEF Begins, HasHeld, HeldStage
  <1>4. ASSUME NEW r \in Request, OwnStep(r)
        PROVE  \/ HasHeld(q) /\ req'[q].copy = req[q].copy
               \/ held # None /\ held' = held /\ req'[q].copy = held
    <2>a. CASE q # r
      BY <1>4, <2>a, OwnMoves DEF BaseInv, OneMoves, HasHeld
    <2>b. CASE q = r
      <3>1. CASE LooksUp(r)
        BY <3>1, <2>b DEF LooksUp, Passes, Moves, KeepsFiles, HasHeld, HeldStage
      <3>2. CASE Permitted(r)
        BY <3>2, <2>b DEF Permitted, Passes, Moves, KeepsFiles, HasHeld, HeldStage
      <3>3. CASE ReadsMark(r)
        BY <3>3, <2>b DEF ReadsMark, Passes, Moves, KeepsFiles, HasHeld, HeldStage
      <3>4. CASE Marks(r)
        BY <3>4, <2>b DEF Marks, GoesOn, Moves, KeepsFiles, HasHeld, HeldStage
      <3>5. CASE CarriesOut(r)
        BY <3>5, <2>b DEF CarriesOut, Moves, KeepsFiles, HasHeld, HeldStage
      <3>6. CASE WorksOut(r)
        BY <3>6, <2>b DEF WorksOut, Moves, KeepsFiles, HasHeld, HeldStage
      <3>7. CASE ReadsRan(r)
        BY <3>7, <2>b DEF ReadsRan, Passes, Moves, KeepsFiles, HasHeld, HeldStage
      <3>8. CASE WritesRan(r)
        BY <3>8, <2>b DEF WritesRan, Moves, KeepsFiles, HasHeld, HeldStage
      <3>9. CASE ReadsRules(r)
        BY <3>9, <2>b DEF ReadsRules, Passes, Moves, KeepsFiles, HasHeld, HeldStage
      <3>10. CASE Merges(r)
        BY <3>10, <2>b DEF Merges, GoesOn, Moves, KeepsFiles, HasHeld, HeldStage
      <3>11. CASE Lists(r)
        BY <3>11, <2>b DEF Lists, Moves, KeepsFiles, HasHeld, HeldStage
      <3>12. CASE ReadsPause(r)
        BY <3>12, <2>b DEF ReadsPause, Passes, Moves, KeepsFiles, HasHeld, HeldStage
      <3>13. CASE LooksHeld(r)
        BY <3>13, <2>b DEF LooksHeld, Passes, Moves, KeepsFiles, HasHeld, HeldStage
      <3>14. CASE AppliesHeld(r)
        BY <3>14, <2>b DEF AppliesHeld, Passes, Moves, KeepsFiles, HasHeld, HeldStage
      <3>15. CASE ReadsHeld(r)
        BY <3>15, <2>b DEF ReadsHeld, Passes, Moves, KeepsFiles, HasHeld, HeldStage
      <3>16. CASE Claims(r)
        BY <3>16, <2>b, <1>0, RecordAssumption DEF Claims, Passes, HasHeld, HeldStage,
           Staged
      <3>17. CASE WritesHeld(r)
        BY <3>17, <2>b DEF WritesHeld, Moves, KeepsFiles, HasHeld, HeldStage
      <3>18. CASE Offers(r)
        BY <3>18, <2>b DEF Offers, Moves, KeepsFiles, HasHeld, HeldStage
      <3> QED
        BY <1>4, <3>1, <3>2, <3>3, <3>4, <3>5, <3>6, <3>7, <3>8, <3>9, <3>10, <3>11,
           <3>12, <3>13, <3>14, <3>15, <3>16, <3>17, <3>18 DEF OwnStep
    <2> QED
      BY <2>a, <2>b
  <1> QED
    BY <1>1, <1>2, <1>3, <1>4 DEF Kinds

(* The record of the held call says what it said, or what a copy says. *)
LEMMA HeldRecords ==
    ASSUME BaseInv, Kinds, held' # None
    PROVE  \/ held' = held
           \/ \E q \in Request : HasHeld(q) /\ held'.within = req[q].copy.within
  <1>1. CASE Nothing \/ Stops \/ ClearsHeld \/ TakesAway
    BY <1>1 DEF Nothing, Stops, ClearsHeld, TakesAway, KeepsFiles
  <1>2. CASE \E r \in Request : Begins(r)
    BY <1>2 DEF Begins, KeepsFiles
  <1>3. ASSUME NEW r \in Request, OwnStep(r)
        PROVE  held' = held \/ (HasHeld(r) /\ held'.within = req[r].copy.within)
    <2>0. Staged(r)
      BY DEF BaseInv, TypeInv, StageOK
    <2>1. CASE LooksUp(r)
      BY <2>1 DEF LooksUp, Passes, KeepsFiles
    <2>2. CASE Permitted(r)
      BY <2>2 DEF Permitted, Passes, KeepsFiles
    <2>3. CASE ReadsMark(r)
      BY <2>3 DEF ReadsMark, Passes, KeepsFiles
    <2>4. CASE Marks(r)
      BY <2>4 DEF Marks, GoesOn, KeepsFiles
    <2>5. CASE CarriesOut(r)
      BY <2>5 DEF CarriesOut, KeepsFiles
    <2>6. CASE WorksOut(r)
      BY <2>6 DEF WorksOut, KeepsFiles
    <2>7. CASE ReadsRan(r)
      BY <2>7 DEF ReadsRan, Passes, KeepsFiles
    <2>8. CASE WritesRan(r)
      BY <2>8 DEF WritesRan, KeepsFiles
    <2>9. CASE ReadsRules(r)
      BY <2>9 DEF ReadsRules, Passes, KeepsFiles
    <2>10. CASE Merges(r)
      BY <2>10 DEF Merges, GoesOn, KeepsFiles
    <2>11. CASE Lists(r)
      BY <2>11 DEF Lists, KeepsFiles
    <2>12. CASE ReadsPause(r)
      BY <2>12 DEF ReadsPause, Passes, KeepsFiles
    <2>13. CASE LooksHeld(r)
      BY <2>13 DEF LooksHeld, Passes, KeepsFiles
    <2>14. CASE AppliesHeld(r)
      BY <2>14 DEF AppliesHeld, Passes, KeepsFiles
    <2>15. CASE ReadsHeld(r)
      BY <2>15 DEF ReadsHeld, Passes, KeepsFiles
    <2>16. CASE Claims(r)
      BY <2>16 DEF Claims, Passes, KeepsFiles
    <2>17. CASE WritesHeld(r)
      BY <2>17, <2>0, RecordAssumption DEF WritesHeld, Moves, HasHeld, HeldStage, Staged
    <2>18. CASE Offers(r)
      BY <2>18 DEF Offers, KeepsFiles
    <2> QED
      BY <1>3, <2>1, <2>2, <2>3, <2>4, <2>5, <2>6, <2>7, <2>8, <2>9, <2>10, <2>11, <2>12,
         <2>13, <2>14, <2>15, <2>16, <2>17, <2>18 DEF OwnStep
  <1> QED
    BY <1>1, <1>2, <1>3 DEF Kinds

(* Every copy of the held call agrees with it on its session. *)
LEMMA WithinStep ==
    ASSUME BaseInv, WithinInv, Kinds
    PROVE  WithinInv'
  <1>1. ASSUME NEW q \in Request, HasHeld(q)', held' # None
        PROVE  req'[q].copy.within = held'.within
    <2>1. CASE held' = held
      BY <1>1, <2>1, HeldCopies DEF WithinInv
    <2>2. CASE held' # held
      <3>1. PICK s \in Request : HasHeld(s) /\ held'.within = req[s].copy.within
        BY <1>1, <2>2, HeldRecords
      <3>2. HasHeld(q) /\ req'[q].copy = req[q].copy
        BY <1>1, <2>2, HeldCopies
      <3> QED
        BY <3>1, <3>2 DEF WithinInv
    <2> QED
      BY <2>1, <2>2
  <1>2. ASSUME NEW q \in Request, NEW s \in Request, HasHeld(q)', HasHeld(s)'
        PROVE  req'[q].copy.within = req'[s].copy.within
    BY <1>2, HeldCopies DEF WithinInv
  <1> QED
    BY <1>1, <1>2 DEF WithinInv

(* A held call inside its session stays so. *)
LEMMA InsideStays ==
    ASSUME BaseInv, Inside, Kinds
    PROVE  Inside'
  <1>1. held' # None => held'.within
    BY HeldRecords DEF Inside
  <1>2. ASSUME NEW q \in Request, HasHeld(q)' PROVE req'[q].copy.within
    BY <1>2, HeldCopies DEF Inside
  <1> QED
    BY <1>1, <1>2 DEF Inside

-----------------------------------------------------------------------------
(* A request past consent was past it before, or is let past now. *)
LEMMA PastBefore ==
    ASSUME BaseInv, Kinds, NEW q \in Request, LetPast(q)'
    PROVE  \/ LetPast(q) /\ req'[q].input = req[q].input /\ req'[q].authority = req[q].authority
           \/ Permitted(q) \/ LooksHeld(q)
  <1>0. Staged(q) /\ CardThere(q) /\ Behind(q) /\ Subject(q) \in Card \cup {"held"} /\ "held" \notin Card
    BY Parts DEF BaseInv, TypeInv, StageOK, CardInv, DoneInv, Card
  <1>1. CASE Nothing \/ ClearsHeld \/ TakesAway
    BY <1>1 DEF Nothing, ClearsHeld, TakesAway, LetPast, Did, Subject, InputOf, Confirming
  <1>2. CASE Stops
    <2>1. CASE req'[q] = req[q]
      BY <1>2, <2>1 DEF Stops, LetPast, Did, Subject, InputOf, Confirming
    <2>2. CASE Stopped(q)
      BY <1>2, <2>2 DEF Stops, Stopped, LetPast, Did, Subject, InputOf, Unmarked, Marked,
         HeldStage
    <2> QED
      BY <1>2, <2>1, <2>2 DEF Stops
  <1>3. ASSUME NEW r \in Request, Begins(r)
        PROVE  LetPast(q) /\ req'[q].input = req[q].input /\ req'[q].authority = req[q].authority
    <2>1. CASE q = r
      <3>1. q \notin carried' \cup counted'
        BY <1>0, <1>3, <2>1 DEF Begins, Behind
      <3> QED
        BY <1>3, <2>1, <3>1 DEF Begins, LetPast, Did, Unmarked, Marked, HeldStage
    <2>2. CASE q # r
      BY <1>3, <2>2 DEF Begins, LetPast, Did, Subject, InputOf, Confirming
    <2> QED
      BY <2>1, <2>2
  <1>4. ASSUME NEW r \in Request, OwnStep(r)
        PROVE  \/ LetPast(q) /\ req'[q].input = req[q].input /\ req'[q].authority = req[q].authority
               \/ Permitted(q) \/ LooksHeld(q)
    <2>0. OneMoves(r)
      BY <1>4, OwnMoves DEF BaseInv
    <2>1. CASE q # r
      BY <2>0, <2>1 DEF OneMoves, LetPast, Did, Subject, InputOf, Confirming
    <2>2. CASE q = r
      <3>a. InputOf(q)' = InputOf(q) /\ Subject(q)' = Subject(q) /\ (Confirming(q)' <=> Confirming(q))
        BY <2>0, <2>2 DEF OneMoves, InputOf, Subject, Confirming
      <3>b. LetPast(q) => LetPast(q) /\ req'[q].input = req[q].input
                                     /\ req'[q].authority = req[q].authority
        BY <2>0, <2>2 DEF OneMoves
      <3>1. CASE LooksUp(r)
        BY <3>1, <2>2, <3>a, <3>b, <1>0 DEF LooksUp, Passes, Moves, LetPast, Did,
           Unmarked, Marked, HeldStage, Staged, Behind
      <3>2. CASE Permitted(r)
        BY <3>2, <2>2
      <3>3. CASE ReadsMark(r)
        BY <3>3, <2>2, <3>a, <3>b, <1>0 DEF ReadsMark, Passes, Moves, LetPast, Did,
           Unmarked, Marked, HeldStage, Staged, Behind
      <3>4. CASE Marks(r)
        BY <3>4, <2>2, <3>a, <3>b, <1>0 DEF Marks, GoesOn, Moves, LetPast, Did, Unmarked,
           Marked, HeldStage, Staged, Behind
      <3>5. CASE CarriesOut(r)
        BY <3>5, <2>2, <3>a, <3>b, <1>0 DEF CarriesOut, Moves, LetPast, Did, Unmarked,
           Marked, HeldStage, Staged, Behind
      <3>6. CASE WorksOut(r)
        BY <3>6, <2>2, <3>a, <3>b, <1>0 DEF WorksOut, Moves, LetPast, Did, Unmarked,
           Marked, HeldStage, Staged, Behind
      <3>7. CASE ReadsRan(r)
        BY <3>7, <2>2, <3>a, <3>b, <1>0 DEF ReadsRan, Passes, Moves, LetPast, Did,
           Unmarked, Marked, HeldStage, Staged, Behind
      <3>8. CASE WritesRan(r)
        BY <3>8, <2>2, <3>a, <3>b, <1>0 DEF WritesRan, Moves, LetPast, Did, Unmarked,
           Marked, HeldStage, Staged, Behind
      <3>9. CASE ReadsRules(r)
        BY <3>9, <2>2, <3>a, <3>b, <1>0 DEF ReadsRules, Passes, Moves, LetPast, Did,
           Unmarked, Marked, HeldStage, Staged, Behind
      <3>10. CASE Merges(r)
        BY <3>10, <2>2, <3>a, <3>b, <1>0 DEF Merges, GoesOn, Moves, LetPast, Did,
           Unmarked, Marked, HeldStage, Staged, Behind
      <3>11. CASE Lists(r)
        BY <3>11, <2>2, <3>a, <3>b, <1>0 DEF Lists, Moves, LetPast, Did, Unmarked, Marked,
           HeldStage, Staged, Behind
      <3>12. CASE ReadsPause(r)
        BY <3>12, <2>2, <3>a, <3>b, <1>0 DEF ReadsPause, Passes, Moves, LetPast, Did,
           Unmarked, Marked, HeldStage, Staged, Behind
      <3>13. CASE LooksHeld(r)
        BY <3>13, <2>2
      <3>14. CASE AppliesHeld(r)
        BY <3>14, <2>2, <3>a, <3>b, <1>0 DEF AppliesHeld, Passes, Moves, LetPast, Did,
           Unmarked, Marked, HeldStage, Staged, Behind
      <3>15. CASE ReadsHeld(r)
        BY <3>15, <2>2, <3>a, <3>b, <1>0 DEF ReadsHeld, Passes, Moves, LetPast, Did,
           Unmarked, Marked, HeldStage, Staged, Behind
      <3>16. CASE Claims(r)
        BY <3>16, <2>2, <3>a, <3>b, <1>0 DEF Claims, Passes, Moves, LetPast, Did,
           Unmarked, Marked, HeldStage, Staged, Behind
      <3>17. CASE WritesHeld(r)
        BY <3>17, <2>2, <3>a, <3>b, <1>0 DEF WritesHeld, Moves, LetPast, Did, Unmarked,
           Marked, HeldStage, Staged, Behind
      <3>18. CASE Offers(r)
        BY <3>18, <2>2, <3>a, <3>b, <1>0 DEF Offers, Moves, LetPast, Did, Unmarked,
           Marked, HeldStage, Staged, Behind
      <3> QED
        BY <1>4, <3>1, <3>2, <3>3, <3>4, <3>5, <3>6, <3>7, <3>8, <3>9, <3>10, <3>11,
           <3>12, <3>13, <3>14, <3>15, <3>16, <3>17, <3>18 DEF OwnStep
    <2> QED
      BY <2>1, <2>2
  <1> QED
    BY <1>1, <1>2, <1>3, <1>4 DEF Kinds

(* A request past consent has a card, or is about the held call. *)
LEMMA PastHasCard ==
    ASSUME BaseInv, NEW q \in Request, LetPast(q), Subject(q) # "held"
    PROVE  Subject(q) \in Card /\ card[Subject(q)] # None
  BY Parts DEF BaseInv, TypeInv, StageOK, CardInv, DoneInv, LetPast, Did, Staged,
     CardThere, Behind

(* The reason it was let past stays one. *)
LEMMA AllowedStays ==
    ASSUME BaseInv, Kinds, NEW q \in Request, LetPast(q), Allowed(q),
           req'[q].input = req[q].input, req'[q].authority = req[q].authority
    PROVE  Allowed(q)'
  <1>1. InputOf(q)' = InputOf(q) /\ Subject(q)' = Subject(q)
    BY DEF InputOf, Subject
  <1>2. Subject(q) # "held" => card'[Subject(q)].change = card[Subject(q)].change
    BY PastHasCard, StepKeepsCards DEF CardsKept, CardKept
  <1>3. NeededBy(q)' = NeededBy(q)
    BY <1>1, <1>2 DEF NeededBy
  <1>4. Inside => Inside'
    BY InsideStays
  <1>5. Subject(q) = "given" => Subject(q) # "held"
    OBVIOUS
  <1> QED
    BY <1>1, <1>2, <1>3, <1>4, <1>5 DEF Allowed

(* What consent checks, where nothing is refused. *)
LEMMA ConsentSigned ==
    ASSUME TypeInv, AuthorityInv, NEW q \in Request, UnderWay(q),
           NEW needs \in Capability \cup {None}, NEW refusing \in BOOLEAN,
           NEW within \in BOOLEAN, NEW driven \in BOOLEAN,
           Consents(q, needs, refusing, within, driven)
    PROVE  \/ refusing
           \/ <<InputOf(q).signed, needs>> \in req[q].authority
           \/ InputOf(q).from # Mac /\ driven /\ needs \in InputOf(q).caps
           \/ InputOf(q).from = Mac /\ within
  <1>1. /\ \A d \in live : \A c \in may[d] \cup {None} : <<d, c>> \in req[q].authority
        /\ InputOf(q).from # Mac
              => \A c \in InputOf(q).caps : <<InputOf(q).from, c>> \in req[q].authority
    BY DEF AuthorityInv
  <1>2. CASE InputOf(q).from # Mac
    BY <1>1, <1>2 DEF Consents
  <1>3. CASE InputOf(q).from = Mac
    BY <1>1, <1>3 DEF Consents
  <1> QED
    BY <1>2, <1>3

(* A held call inside its session makes every copy of it so. *)
LEMMA InsideNow ==
    ASSUME WithinInv, held # None, held.within
    PROVE  Inside
  BY DEF WithinInv, Inside

(* A yes to the held call is let past for one of consentFor's reasons. *)
LEMMA LooksHeldAllowed ==
    ASSUME BaseInv, AuthorityInv, WithinInv, Kinds, NEW q \in Request, LooksHeld(q),
           LetPast(q)'
    PROVE  Allowed(q)'
  <1>1. Staged(q) /\ Behind(q) /\ TypeInv
    BY DEF BaseInv, TypeInv, StageOK, DoneInv
  <1>2. /\ Subject(q) = "held" /\ UnderWay(q) /\ Subject(q)' = Subject(q) /\ InputOf(q)' = InputOf(q)
        /\ req'[q].authority = req[q].authority /\ req'[q].pc = "held_read" /\ q \notin carried' \cup counted'
    BY <1>1 DEF LooksHeld, Passes, Moves, Staged, Behind, UnderWay, Subject, InputOf
  <1>3. InputOf(q).answer # "deny"
    BY <1>2 DEF LetPast, Did, Unmarked, Marked, HeldStage
  <1>4. \/ <<InputOf(q).signed, "answer">> \in req[q].authority
        \/ InputOf(q).from = Mac /\ held # None /\ held.within
    <2>2. (held # None /\ held.within) \in BOOLEAN
      OBVIOUS
    <2>3. Consents(q, "answer", InputOf(q).answer = "deny", held # None /\ held.within, FALSE)
      BY DEF LooksHeld
    <2> QED
      BY <1>1, <1>2, <1>3, <2>2, <2>3, ConsentSigned DEF Capability
  <1>5. held # None /\ held.within => Inside'
    BY InsideNow, InsideStays
  <1> QED
    BY <1>2, <1>4, <1>5 DEF Allowed, NeededBy

(* Every capability a change needs is one, or none. *)
LEMMA CapabilityTyped ==
    ASSUME NEW change
    PROVE  /\ CapabilityOf(change) \in Capability \cup {None}
           /\ change = "mac_show" => CapabilityOf(change) = "mac"
  BY DEF CapabilityOf, Capability

(* And so is a yes to a card. *)
LEMMA PermittedAllowed ==
    ASSUME BaseInv, AuthorityInv, WithinInv, Kinds, NEW q \in Request, Permitted(q),
           LetPast(q)'
    PROVE  Allowed(q)'
  <1>1. Staged(q) /\ Behind(q) /\ CardThere(q) /\ TypeInv
    BY DEF BaseInv, TypeInv, StageOK, DoneInv, CardInv
  <1>2. /\ UnderWay(q) /\ Subject(q)' = Subject(q) /\ InputOf(q)' = InputOf(q)
        /\ (Confirming(q)' <=> Confirming(q)) /\ card' = card
        /\ req'[q].authority = req[q].authority /\ req'[q].pc = "mark_read" /\ q \notin carried' \cup counted'
    BY <1>1 DEF Permitted, Passes, Moves, KeepsFiles, Behind, UnderWay, Subject, InputOf,
       Confirming
  <1>3. Confirming(q)
    BY <1>2 DEF LetPast, Did, HeldStage
  <1>4. /\ Subject(q) \in Card /\ Subject(q) # "held" /\ card[Subject(q)] # None
        /\ card[Subject(q)].change = ChangeOf(q)
    BY <1>1 DEF Permitted, Passes, Staged, CardThere, ChangeOf, Card
  <1>5. \/ ChangeOf(q) = "team_no"
        \/ <<InputOf(q).signed, CapabilityOf(ChangeOf(q))>> \in req[q].authority
        \/ InputOf(q).from # Mac /\ DriveCovers(q) /\ CapabilityOf(ChangeOf(q)) \in InputOf(q).caps
        \/ InputOf(q).from = Mac /\ ChangeOf(q) = "answer" /\ held # None /\ held.within
    <2> DEFINE refusing == ~Confirming(q) \/ ChangeOf(q) = "team_no"
               within == ChangeOf(q) = "answer" /\ held # None /\ held.within
               driven == DriveCovers(q)
               needs == CapabilityOf(ChangeOf(q))
    <2>1. Consents(q, needs, refusing, within, driven)
      BY DEF Permitted
    <2>2. refusing \in BOOLEAN /\ within \in BOOLEAN
      OBVIOUS
    <2>3. driven \in BOOLEAN
      <3>1. InputOf(q).driving \in BOOLEAN
        BY <1>1, Parts DEF InputOf, Input, InputWith
      <3> QED
        BY <3>1 DEF DriveCovers
    <2>4. needs \in Capability \cup {None}
      BY CapabilityTyped
    <2>5. refusing => ChangeOf(q) = "team_no"
      BY <1>3
    <2> HIDE DEF refusing, within, driven, needs
    <2>6. \/ refusing
          \/ <<InputOf(q).signed, needs>> \in req[q].authority
          \/ InputOf(q).from # Mac /\ driven /\ needs \in InputOf(q).caps
          \/ InputOf(q).from = Mac /\ within
      BY <1>1, <1>2, <2>1, <2>2, <2>3, <2>4, ConsentSigned
    <2> QED
      BY <2>5, <2>6 DEF within, driven, needs
  <1>6. held # None /\ held.within => Inside'
    BY InsideNow, InsideStays
  <1>7. NeededBy(q)' = CapabilityOf(ChangeOf(q))
    BY <1>2, <1>4 DEF NeededBy
  <1>8. CASE ChangeOf(q) = "team_no"
    BY <1>2, <1>4, <1>8 DEF Allowed
  <1>9. CASE <<InputOf(q).signed, CapabilityOf(ChangeOf(q))>> \in req[q].authority
    BY <1>2, <1>7, <1>9 DEF Allowed
  <1>10. CASE InputOf(q).from # Mac /\ DriveCovers(q) /\ CapabilityOf(ChangeOf(q)) \in InputOf(q).caps
    <2>1. ChangeOf(q) = "mac_show" /\ InputOf(q).driving /\ CapabilityOf(ChangeOf(q)) = "mac"
      BY <1>10, CapabilityTyped DEF DriveCovers
    <2>2. Subject(q) = "given"
      BY <1>4, <2>1 DEF BaseInv, CardInv, Card
    <2>3. <<InputOf(q).from, "mac">> \in req[q].authority
      BY <1>2, <1>10, <2>1 DEF AuthorityInv
    <2> QED
      BY <1>2, <1>4, <2>1, <2>2, <2>3 DEF Allowed
  <1>11. CASE InputOf(q).from = Mac /\ ChangeOf(q) = "answer" /\ held # None /\ held.within
    BY <1>2, <1>4, <1>6, <1>11 DEF Allowed
  <1> QED
    BY <1>5, <1>8, <1>9, <1>10, <1>11

(* Whatever was let past, was for a reason that lasts. *)
LEMMA YesStep ==
    ASSUME BaseInv, AuthorityInv, WithinInv, YesInv, Kinds
    PROVE  YesInv'
  <1>1. ASSUME NEW q \in Request, LetPast(q)' PROVE Allowed(q)'
    BY <1>1, PastBefore, AllowedStays, PermittedAllowed, LooksHeldAllowed DEF YesInv
  <1> QED
    BY <1>1 DEF YesInv

-----------------------------------------------------------------------------
(* Nobody touches more than it did, but for two steps that read first. *)
LEMMA TouchesNoMore ==
    ASSUME BaseInv, Kinds, NEW q \in Request
    PROVE  \/ Touches(q)' \subseteq Touches(q)
           \/ ReadsMark(q) /\ Touches(q)' \subseteq {Subject(q)}
           \/ ReadsHeld(q) /\ Touches(q)' \subseteq Touches(q) \cup {"held"}
  <1>0. Staged(q) /\ Behind(q) /\ Subject(q) \in Card \cup {"held"} /\ "held" \notin Card
    BY Parts DEF BaseInv, TypeInv, StageOK, DoneInv, Card
  <1>1. CASE Nothing \/ ClearsHeld \/ TakesAway
    BY <1>1 DEF Nothing, ClearsHeld, TakesAway, Touches, ActedOn, ActsOn, Subject, InputOf
  <1>2. CASE Stops
    <2>1. CASE req'[q] = req[q]
      BY <1>2, <2>1 DEF Stops, Touches, ActedOn, ActsOn, Subject, InputOf
    <2>2. CASE Stopped(q)
      <3>1. /\ req'[q].pc = "done" /\ req'[q].told # "declined"
            /\ carried' = carried /\ counted' = counted
            /\ q \in carried \cup counted => Subject(q)' = Subject(q)
        BY <1>2, <2>2 DEF Stops, Stopped, Subject, InputOf
      <3> QED
        BY <3>1 DEF Touches, ActedOn, ActsOn, Marked, HeldStage
    <2> QED
      BY <1>2, <2>1, <2>2 DEF Stops
  <1>3. ASSUME NEW r \in Request, Begins(r)
        PROVE  Touches(q)' \subseteq Touches(q)
    <2>1. CASE q = r
      <3>1. q \notin carried' \cup counted' /\ req'[q].told # "declined"
            /\ req'[q].pc \in {"look", "held_look"}
        BY <1>0, <1>3, <2>1 DEF Begins, Behind
      <3> QED
        BY <3>1 DEF Touches, ActedOn, ActsOn, Marked, HeldStage
    <2>2. CASE q # r
      BY <1>3, <2>2 DEF Begins, Touches, ActedOn, ActsOn, Subject, InputOf
    <2> QED
      BY <2>1, <2>2
  <1>4. ASSUME NEW r \in Request, OwnStep(r)
        PROVE  \/ Touches(q)' \subseteq Touches(q)
               \/ ReadsMark(q) /\ Touches(q)' \subseteq {Subject(q)}
               \/ ReadsHeld(q) /\ Touches(q)' \subseteq Touches(q) \cup {"held"}
    <2>0. OneMoves(r)
      BY <1>4, OwnMoves DEF BaseInv
    <2>1. CASE q # r
      <3>1. req'[q] = req[q] /\ (q \in carried' <=> q \in carried) /\ (q \in counted' <=> q \in counted)
        BY <2>0, <2>1 DEF OneMoves
      <3> QED
        BY <3>1 DEF Touches, ActedOn, ActsOn, Subject, InputOf
    <2>2. CASE q = r
      <3>a. Subject(q)' = Subject(q)
        BY <2>0, <2>2 DEF OneMoves, InputOf, Subject
      <3>b. req[q].pc # "done" => req[q].told # "declined"
        BY <1>0 DEF Behind
      <3>1. CASE LooksUp(r)
        BY <3>1, <2>2, <3>a, <3>b, <1>0 DEF LooksUp, Passes, Moves, Touches, ActedOn,
           ActsOn, Marked, HeldStage, Staged, Behind
      <3>2. CASE Permitted(r)
        BY <3>2, <2>2, <3>a, <3>b, <1>0 DEF Permitted, Passes, Moves, Touches, ActedOn,
           ActsOn, Marked, HeldStage, Staged, Behind
      <3>3. CASE ReadsMark(r)
        BY <3>3, <2>2, <3>a, <3>b, <1>0 DEF ReadsMark, Passes, Moves, Touches, ActedOn,
           ActsOn, Marked, HeldStage, Staged, Behind
      <3>4. CASE Marks(r)
        BY <3>4, <2>2, <3>a, <3>b, <1>0 DEF Marks, GoesOn, Moves, Touches, ActedOn,
           ActsOn, Marked, HeldStage, Staged, Behind
      <3>5. CASE CarriesOut(r)
        BY <3>5, <2>2, <3>a, <3>b, <1>0 DEF CarriesOut, Moves, Touches, ActedOn, ActsOn,
           Marked, HeldStage, Staged, Behind
      <3>6. CASE WorksOut(r)
        BY <3>6, <2>2, <3>a, <3>b, <1>0 DEF WorksOut, Moves, Touches, ActedOn, ActsOn,
           Marked, HeldStage, Staged, Behind
      <3>7. CASE ReadsRan(r)
        BY <3>7, <2>2, <3>a, <3>b, <1>0 DEF ReadsRan, Passes, Moves, Touches, ActedOn,
           ActsOn, Marked, HeldStage, Staged, Behind
      <3>8. CASE WritesRan(r)
        BY <3>8, <2>2, <3>a, <3>b, <1>0 DEF WritesRan, Moves, Touches, ActedOn, ActsOn,
           Marked, HeldStage, Staged, Behind
      <3>9. CASE ReadsRules(r)
        BY <3>9, <2>2, <3>a, <3>b, <1>0 DEF ReadsRules, Passes, Moves, Touches, ActedOn,
           ActsOn, Marked, HeldStage, Staged, Behind
      <3>10. CASE Merges(r)
        BY <3>10, <2>2, <3>a, <3>b, <1>0 DEF Merges, GoesOn, Moves, Touches, ActedOn,
           ActsOn, Marked, HeldStage, Staged, Behind
      <3>11. CASE Lists(r)
        BY <3>11, <2>2, <3>a, <3>b, <1>0 DEF Lists, Moves, Touches, ActedOn, ActsOn,
           Marked, HeldStage, Staged, Behind
      <3>12. CASE ReadsPause(r)
        BY <3>12, <2>2, <3>a, <3>b, <1>0 DEF ReadsPause, Passes, Moves, Touches, ActedOn,
           ActsOn, Marked, HeldStage, Staged, Behind
      <3>13. CASE LooksHeld(r)
        BY <3>13, <2>2, <3>a, <3>b, <1>0 DEF LooksHeld, Passes, Moves, Touches, ActedOn,
           ActsOn, Marked, HeldStage, Staged, Behind
      <3>14. CASE AppliesHeld(r)
        BY <3>14, <2>2, <3>a, <3>b, <1>0 DEF AppliesHeld, Passes, Moves, Touches, ActedOn,
           ActsOn, Marked, HeldStage, Staged, Behind
      <3>15. CASE ReadsHeld(r)
        BY <3>15, <2>2, <3>a, <3>b, <1>0 DEF ReadsHeld, Passes, Moves, Touches, ActedOn,
           ActsOn, Marked, HeldStage, Staged, Behind
      <3>16. CASE Claims(r)
        BY <3>16, <2>2, <3>a, <3>b, <1>0 DEF Claims, Passes, Moves, Touches, ActedOn,
           ActsOn, Marked, HeldStage, Staged, Behind
      <3>17. CASE WritesHeld(r)
        BY <3>17, <2>2, <3>a, <3>b, <1>0 DEF WritesHeld, Moves, Touches, ActedOn, ActsOn,
           Marked, HeldStage, Staged, Behind
      <3>18. CASE Offers(r)
        BY <3>18, <2>2, <3>a, <3>b, <1>0 DEF Offers, Moves, Touches, ActedOn, ActsOn,
           Marked, HeldStage, Staged, Behind
      <3> QED
        BY <1>4, <3>1, <3>2, <3>3, <3>4, <3>5, <3>6, <3>7, <3>8, <3>9, <3>10, <3>11,
           <3>12, <3>13, <3>14, <3>15, <3>16, <3>17, <3>18 DEF OwnStep
    <2> QED
      BY <2>1, <2>2
  <1> QED
    BY <1>1, <1>2, <1>3, <1>4 DEF Kinds

(* An answer that counted is on file until the call is cleared. *)
LEMMA CountedStep ==
    ASSUME TypeInv, ActInv, Kinds, NEW q \in Request, q \in counted'
    PROVE  held' = None \/ held'.answer # None
  <1>1. CASE Nothing \/ Stops \/ ClearsHeld \/ TakesAway
    BY <1>1 DEF Nothing, Stops, ClearsHeld, TakesAway, KeepsFiles, ActInv
  <1>2. CASE \E r \in Request : Begins(r)
    BY <1>2 DEF Begins, KeepsFiles, ActInv
  <1>3. ASSUME NEW r \in Request, OwnStep(r)
        PROVE  held' = None \/ held'.answer # None
    <2>1. CASE LooksUp(r)
      BY <2>1 DEF LooksUp, Passes, KeepsFiles, ActInv
    <2>2. CASE Permitted(r)
      BY <2>2 DEF Permitted, Passes, KeepsFiles, ActInv
    <2>3. CASE ReadsMark(r)
      BY <2>3 DEF ReadsMark, Passes, KeepsFiles, ActInv
    <2>4. CASE Marks(r)
      BY <2>4 DEF Marks, GoesOn, KeepsFiles, ActInv
    <2>5. CASE CarriesOut(r)
      BY <2>5 DEF CarriesOut, KeepsFiles, ActInv
    <2>6. CASE WorksOut(r)
      BY <2>6 DEF WorksOut, KeepsFiles, ActInv
    <2>7. CASE ReadsRan(r)
      BY <2>7 DEF ReadsRan, Passes, KeepsFiles, ActInv
    <2>8. CASE WritesRan(r)
      BY <2>8 DEF WritesRan, KeepsFiles, ActInv
    <2>9. CASE ReadsRules(r)
      BY <2>9 DEF ReadsRules, Passes, KeepsFiles, ActInv
    <2>10. CASE Merges(r)
      BY <2>10 DEF Merges, GoesOn, KeepsFiles, ActInv
    <2>11. CASE Lists(r)
      BY <2>11 DEF Lists, KeepsFiles, ActInv
    <2>12. CASE ReadsPause(r)
      BY <2>12 DEF ReadsPause, Passes, KeepsFiles, ActInv
    <2>13. CASE LooksHeld(r)
      BY <2>13 DEF LooksHeld, Passes, KeepsFiles, ActInv
    <2>14. CASE AppliesHeld(r)
      BY <2>14 DEF AppliesHeld, Passes, KeepsFiles, ActInv
    <2>15. CASE ReadsHeld(r)
      BY <2>15 DEF ReadsHeld, Passes, KeepsFiles, ActInv
    <2>16. CASE Claims(r)
      BY <2>16 DEF Claims, Passes, KeepsFiles, ActInv
    <2>17. CASE WritesHeld(r)
      BY <2>17 DEF WritesHeld, KeepsFiles, ActInv
    <2>18. CASE Offers(r)
      BY <2>18 DEF Offers, KeepsFiles, ActInv
    <2> QED
      BY <1>3, <2>1, <2>2, <2>3, <2>4, <2>5, <2>6, <2>7, <2>8, <2>9, <2>10, <2>11, <2>12,
         <2>13, <2>14, <2>15, <2>16, <2>17, <2>18 DEF OwnStep
  <1> QED
    BY <1>1, <1>2, <1>3 DEF Kinds

(* Whoever touches something before a request reads it is still under way. *)
LEMMA ReadFirst ==
    ASSUME BaseInv, ActInv, NEW q \in Request, NEW s \in Request,
           \/ ReadsMark(q) /\ Subject(q) \in Touches(s)
           \/ ReadsHeld(q) /\ "held" \in Touches(s)
    PROVE  UnderWay(q) /\ UnderWay(s)
  <1>0. /\ Staged(s) /\ Answered(s) /\ Staged(q) /\ CardThere(s) /\ "held" \notin Card
        /\ Subject(s) \in Card \cup {"held"}
    BY Parts DEF BaseInv, TypeInv, StageOK, AnsweredInv, CardInv, Card
  <1>1. CASE ReadsMark(q) /\ Subject(q) \in Touches(s)
    <2>1. Subject(q) \in Card /\ card[Subject(q)].answer = None
      BY <1>0, <1>1 DEF ReadsMark, Passes, Staged, Unmarked
    <2>2. Subject(s) = Subject(q)
      BY <1>0, <1>1, <2>1 DEF Touches, ActedOn, ActsOn
    <2>3. s \notin carried /\ req[s].told # "declined" /\ req[s].pc \notin Marked
          /\ req[s].pc \notin HeldStage
      BY <1>0, <2>1, <2>2 DEF Answered
    <2>4. req[s].pc = "mark_write"
      BY <1>0, <1>1, <2>1, <2>3 DEF Touches, ActedOn, ActsOn
    <2> QED
      BY <1>1, <2>4 DEF ReadsMark, Passes, UnderWay
  <1>2. CASE ReadsHeld(q) /\ "held" \in Touches(s)
    <2>1. s \notin counted
      BY <1>2 DEF ReadsHeld, ActInv
    <2>2. req[s].pc \in {"held_claim", "held_write"}
      BY <1>0, <1>2, <2>1 DEF Touches, ActedOn, ActsOn, CardThere, Staged, Marked,
         Unmarked
    <2> QED
      BY <1>2, <2>2 DEF ReadsHeld, Passes, UnderWay
  <1> QED
    BY <1>1, <1>2

(* Whoever comes to touch what another touches is crowded by it. *)
LEMMA ActStep ==
    ASSUME BaseInv, AloneInv, ActInv, Kinds
    PROVE  ActInv'
  <1>1. crowded \subseteq crowded'
    <2>1. CASE Nothing \/ Stops \/ ClearsHeld \/ TakesAway
      BY <2>1 DEF Nothing, Stops, ClearsHeld, TakesAway
    <2>2. CASE \E r \in Request : Begins(r)
      BY <2>2 DEF Begins
    <2>3. CASE \E r \in Request : OwnStep(r)
      BY <2>3, OwnMoves DEF OneMoves, BaseInv
    <2> QED
      BY <2>1, <2>2, <2>3 DEF Kinds
  <1>2. ASSUME NEW q \in Request, NEW s \in Request, q # s, NEW x, x \in Touches(q)', x \in Touches(s)'
        PROVE  q \in crowded' /\ s \in crowded'
    <2>1. CASE x \in Touches(q) /\ x \in Touches(s)
      BY <1>1, <1>2, <2>1 DEF ActInv
    <2>2. CASE x \notin Touches(q) /\ x \in Touches(s)
      <3>1. \/ ReadsMark(q) /\ Subject(q) \in Touches(s)
            \/ ReadsHeld(q) /\ "held" \in Touches(s)
        BY <1>2, <2>2, TouchesNoMore
      <3>2. UnderWay(q) /\ UnderWay(s)
        BY <3>1, ReadFirst
      <3> QED
        BY <1>1, <1>2, <3>2 DEF AloneInv
    <2>3. CASE x \in Touches(q) /\ x \notin Touches(s)
      <3>1. \/ ReadsMark(s) /\ Subject(s) \in Touches(q)
            \/ ReadsHeld(s) /\ "held" \in Touches(q)
        BY <1>2, <2>3, TouchesNoMore
      <3>2. UnderWay(q) /\ UnderWay(s)
        BY <3>1, ReadFirst
      <3> QED
        BY <1>1, <1>2, <3>2 DEF AloneInv
    <2>4. CASE x \notin Touches(q) /\ x \notin Touches(s)
      <3>1. (ReadsMark(q) \/ ReadsHeld(q)) /\ (ReadsMark(s) \/ ReadsHeld(s))
        BY <1>2, <2>4, TouchesNoMore
      <3>2. UnderWay(q) /\ UnderWay(s)
        BY <3>1 DEF ReadsMark, ReadsHeld, Passes, UnderWay
      <3> QED
        BY <1>1, <1>2, <3>2 DEF AloneInv
    <2> QED
      BY <2>1, <2>2, <2>3, <2>4
  <1>3. ASSUME NEW q \in Request, NEW s \in Request, q # s, (Touches(q) \cap Touches(s) # {})'
        PROVE  q \in crowded' /\ s \in crowded'
    <2>1. PICK x : x \in Touches(q)' /\ x \in Touches(s)'
      BY <1>3
    <2> QED
      BY <1>2, <1>3, <2>1
  <1>4. \A q \in Request : q \in counted' => held' = None \/ held'.answer # None
    BY CountedStep DEF BaseInv
  <1> QED
    BY <1>3, <1>4 DEF ActInv

-----------------------------------------------------------------------------
(* A request that merged alone did before, or does now. *)
LEMMA MergedBefore ==
    ASSUME BaseInv, Kinds, NEW q \in Request, Merged(q)'
    PROVE  Subject(q)' = Subject(q) /\ (Merged(q) \/ Merges(q))
  <1>0. Staged(q) /\ CardThere(q) /\ Behind(q) /\ CardsKept
    BY StepKeepsCards DEF BaseInv, TypeInv, StageOK, CardInv, DoneInv
  <1>1. ASSUME q \in carried, q \notin crowded, Subject(q)' = Subject(q), InputOf(q)' = InputOf(q)
        PROVE  Merged(q)
    <2>1. Subject(q) \in Card /\ card[Subject(q)] # None
      BY <1>0, <1>1 DEF CardThere
    <2>2. card'[Subject(q)].change = card[Subject(q)].change
      BY <1>0, <2>1 DEF CardsKept, CardKept
    <2> QED
      BY <1>1, <2>2 DEF Merged
  <1>2. CASE Nothing \/ ClearsHeld \/ TakesAway
    BY <1>1, <1>2 DEF Nothing, ClearsHeld, TakesAway, Merged, Subject, InputOf
  <1>3. CASE Stops
    <2>1. q \in carried /\ q \notin crowded
      BY <1>3 DEF Stops, Merged
    <2>2. req'[q].input = req[q].input
      BY <1>3, <2>1 DEF Stops, Stopped
    <2> QED
      BY <1>1, <2>1, <2>2 DEF Subject, InputOf
  <1>4. ASSUME NEW r \in Request, Begins(r)
        PROVE  Subject(q)' = Subject(q) /\ Merged(q)
    <2>1. q \in carried /\ q \notin crowded
      BY <1>4 DEF Begins, Merged
    <2>2. q # r
      BY <1>0, <1>4, <2>1 DEF Begins, Behind
    <2> QED
      BY <1>1, <1>4, <2>1, <2>2 DEF Begins, Subject, InputOf
  <1>5. ASSUME NEW r \in Request, OwnStep(r)
        PROVE  Subject(q)' = Subject(q) /\ (Merged(q) \/ Merges(q))
    <2>0. OneMoves(r) /\ InputOf(q)' = InputOf(q) /\ Subject(q)' = Subject(q)
      BY <1>5, OwnMoves DEF BaseInv, OneMoves, InputOf, Subject
    <2>1. CASE q \in carried
      BY <1>1, <2>0, <2>1 DEF OneMoves, Merged
    <2>2. CASE q \notin carried
      <3>a. q = r /\ q \in carried'
        BY <2>0, <2>2 DEF OneMoves, Merged
      <3>b. ASSUME card[Subject(q)] # None, Subject(q) \in Card, card[Subject(q)].change # "rules"
            PROVE  FALSE
        BY <1>0, <2>0, <3>b DEF CardsKept, CardKept, Merged
      <3>1. CASE LooksUp(r)
        BY <3>1, <3>a, <2>2 DEF LooksUp, Passes
      <3>2. CASE Permitted(r)
        BY <3>2, <3>a, <2>2 DEF Permitted, Passes
      <3>3. CASE ReadsMark(r)
        BY <3>3, <3>a, <2>2 DEF ReadsMark, Passes
      <3>4. CASE Marks(r)
        BY <3>4, <3>a, <2>2 DEF Marks, GoesOn
      <3>5. CASE CarriesOut(r)
        BY <3>5, <3>a, <3>b, <1>0, <2>0 DEF CarriesOut, CardThere, Staged, Marked, Merged
      <3>6. CASE WorksOut(r)
        BY <3>6, <3>a, <3>b, <1>0 DEF WorksOut, CardThere, Staged, Marked
      <3>7. CASE ReadsRan(r)
        BY <3>7, <3>a, <2>2 DEF ReadsRan, Passes
      <3>8. CASE WritesRan(r)
        BY <3>8, <3>a, <2>2 DEF WritesRan
      <3>9. CASE ReadsRules(r)
        BY <3>9, <3>a, <2>2 DEF ReadsRules, Passes
      <3>10. CASE Merges(r)
        BY <3>10, <3>a, <2>0
      <3>11. CASE Lists(r)
        BY <3>11, <3>a, <2>2 DEF Lists
      <3>12. CASE ReadsPause(r)
        BY <3>12, <3>a, <2>2 DEF ReadsPause, Passes
      <3>13. CASE LooksHeld(r)
        BY <3>13, <3>a, <2>2 DEF LooksHeld, Passes
      <3>14. CASE AppliesHeld(r)
        BY <3>14, <3>a, <2>2 DEF AppliesHeld, Passes
      <3>15. CASE ReadsHeld(r)
        BY <3>15, <3>a, <2>2 DEF ReadsHeld, Passes
      <3>16. CASE Claims(r)
        BY <3>16, <3>a, <2>2 DEF Claims, Passes
      <3>17. CASE WritesHeld(r)
        <4>1. Subject(q) # "held" /\ Subject(q) \in Card
          BY <3>17, <3>a, <2>2, Parts DEF WritesHeld, BaseInv
        <4> QED
          BY <3>17, <4>1, <3>a, <3>b, <1>0 DEF WritesHeld, CardThere, HeldStage
      <3>18. CASE Offers(r)
        BY <3>18, <3>a, <2>2 DEF Offers
      <3> QED
        BY <1>5, <3>1, <3>2, <3>3, <3>4, <3>5, <3>6, <3>7, <3>8, <3>9, <3>10, <3>11,
           <3>12, <3>13, <3>14, <3>15, <3>16, <3>17, <3>18 DEF OwnStep
    <2> QED
      BY <2>1, <2>2
  <1> QED
    BY <1>2, <1>3, <1>4, <1>5 DEF Kinds

(* A request about to write the rules read them before, or reads them now. *)
LEMMA MergeBefore ==
    ASSUME TypeInv, Kinds, NEW s \in Request, At(s, "merge")'
    PROVE  (At(s, "merge") /\ req'[s].saw = req[s].saw) \/ ReadsRules(s)
  <1>1. CASE Nothing \/ ClearsHeld \/ TakesAway
    BY <1>1 DEF Nothing, ClearsHeld, TakesAway, At
  <1>2. CASE Stops
    BY <1>2 DEF Stops, Stopped, At
  <1>3. CASE \E r \in Request : Begins(r)
    BY <1>3 DEF Begins, At
  <1>4. ASSUME NEW r \in Request, OwnStep(r)
        PROVE  (At(s, "merge") /\ req'[s].saw = req[s].saw) \/ ReadsRules(s)
    <2>a. CASE s # r
      BY <1>4, <2>a, OwnMoves DEF OneMoves, At
    <2>b. CASE s = r
      <3>1. CASE LooksUp(r)
        BY <3>1, <2>b DEF LooksUp, Passes, Moves, At
      <3>2. CASE Permitted(r)
        BY <3>2, <2>b DEF Permitted, Passes, Moves, At
      <3>3. CASE ReadsMark(r)
        BY <3>3, <2>b DEF ReadsMark, Passes, Moves, At
      <3>4. CASE Marks(r)
        BY <3>4, <2>b DEF Marks, GoesOn, Moves, At
      <3>5. CASE CarriesOut(r)
        BY <3>5, <2>b DEF CarriesOut, Moves, At
      <3>6. CASE WorksOut(r)
        BY <3>6, <2>b DEF WorksOut, Moves, At
      <3>7. CASE ReadsRan(r)
        BY <3>7, <2>b DEF ReadsRan, Passes, Moves, At
      <3>8. CASE WritesRan(r)
        BY <3>8, <2>b DEF WritesRan, Moves, At
      <3>9. CASE ReadsRules(r)
        BY <3>9, <2>b
      <3>10. CASE Merges(r)
        BY <3>10, <2>b DEF Merges, GoesOn, Moves, At
      <3>11. CASE Lists(r)
        BY <3>11, <2>b DEF Lists, Moves, At
      <3>12. CASE ReadsPause(r)
        BY <3>12, <2>b DEF ReadsPause, Passes, Moves, At
      <3>13. CASE LooksHeld(r)
        BY <3>13, <2>b DEF LooksHeld, Passes, Moves, At
      <3>14. CASE AppliesHeld(r)
        BY <3>14, <2>b DEF AppliesHeld, Passes, Moves, At
      <3>15. CASE ReadsHeld(r)
        BY <3>15, <2>b DEF ReadsHeld, Passes, Moves, At
      <3>16. CASE Claims(r)
        BY <3>16, <2>b DEF Claims, Passes, Moves, At
      <3>17. CASE WritesHeld(r)
        BY <3>17, <2>b DEF WritesHeld, Moves, At
      <3>18. CASE Offers(r)
        BY <3>18, <2>b DEF Offers, Moves, At
      <3> QED
        BY <1>4, <3>1, <3>2, <3>3, <3>4, <3>5, <3>6, <3>7, <3>8, <3>9, <3>10, <3>11,
           <3>12, <3>13, <3>14, <3>15, <3>16, <3>17, <3>18 DEF OwnStep
    <2> QED
      BY <2>a, <2>b
  <1> QED
    BY <1>1, <1>2, <1>3, <1>4 DEF Kinds

(* The rules on file are the ones there were, or what a request merges. *)
LEMMA RulesWritten ==
    ASSUME TypeInv, Kinds
    PROVE  /\ registered => registered'
           /\ rules' = rules \/ \E r \in Request : Merges(r)
  <1>0. registered \in BOOLEAN
    BY DEF TypeInv, TypeOK
  <1>1. CASE Nothing \/ Stops \/ ClearsHeld \/ TakesAway
    BY <1>1 DEF Nothing, Stops, ClearsHeld, TakesAway, KeepsFiles
  <1>2. CASE \E r \in Request : Begins(r)
    BY <1>2 DEF Begins, KeepsFiles
  <1>3. ASSUME NEW r \in Request, OwnStep(r)
        PROVE  (registered => registered') /\ (rules' = rules \/ Merges(r))
    <2>1. CASE LooksUp(r)
      BY <2>1 DEF LooksUp, Passes, KeepsFiles
    <2>2. CASE Permitted(r)
      BY <2>2 DEF Permitted, Passes, KeepsFiles
    <2>3. CASE ReadsMark(r)
      BY <2>3 DEF ReadsMark, Passes, KeepsFiles
    <2>4. CASE Marks(r)
      BY <2>4 DEF Marks, GoesOn, KeepsFiles
    <2>5. CASE CarriesOut(r)
      BY <2>5 DEF CarriesOut, KeepsFiles
    <2>6. CASE WorksOut(r)
      BY <2>6 DEF WorksOut, KeepsFiles
    <2>7. CASE ReadsRan(r)
      BY <2>7 DEF ReadsRan, Passes, KeepsFiles
    <2>8. CASE WritesRan(r)
      BY <2>8 DEF WritesRan, KeepsFiles
    <2>9. CASE ReadsRules(r)
      BY <2>9 DEF ReadsRules, Passes, KeepsFiles
    <2>10. CASE Merges(r)
      BY <2>10 DEF Merges, GoesOn, KeepsFiles
    <2>11. CASE Lists(r)
      BY <2>11 DEF Lists, KeepsFiles
    <2>12. CASE ReadsPause(r)
      BY <2>12 DEF ReadsPause, Passes, KeepsFiles
    <2>13. CASE LooksHeld(r)
      BY <2>13 DEF LooksHeld, Passes, KeepsFiles
    <2>14. CASE AppliesHeld(r)
      BY <2>14 DEF AppliesHeld, Passes, KeepsFiles
    <2>15. CASE ReadsHeld(r)
      BY <2>15 DEF ReadsHeld, Passes, KeepsFiles
    <2>16. CASE Claims(r)
      BY <2>16 DEF Claims, Passes, KeepsFiles
    <2>17. CASE WritesHeld(r)
      BY <2>17 DEF WritesHeld, KeepsFiles
    <2>18. CASE Offers(r)
      BY <2>18 DEF Offers, KeepsFiles
    <2> QED
      BY <1>3, <2>1, <2>2, <2>3, <2>4, <2>5, <2>6, <2>7, <2>8, <2>9, <2>10, <2>11, <2>12,
         <2>13, <2>14, <2>15, <2>16, <2>17, <2>18 DEF OwnStep
  <1> QED
    BY <1>1, <1>2, <1>3 DEF Kinds

(* A request told its rule is in place listed the file first. *)
LEMMA ToldAfterListing ==
    ASSUME BaseInv, Kinds, NEW q \in Request, Merged(q),
           At(q, "done") /\ req[q].told = "confirmed" => registered,
           At(q, "done")', req'[q].told = "confirmed"
    PROVE  registered'
  <1>0. Staged(q) /\ CardThere(q) /\ Behind(q) /\ TypeInv /\ (registered => registered')
    BY RulesWritten DEF BaseInv, TypeInv, StageOK, CardInv, DoneInv
  <1>1. req'[q] = req[q] => registered'
    BY <1>0 DEF At
  <1>2. CASE Nothing \/ ClearsHeld \/ TakesAway
    BY <1>1, <1>2 DEF Nothing, ClearsHeld, TakesAway
  <1>3. CASE Stops
    BY <1>1, <1>3 DEF Stops, Stopped
  <1>4. CASE \E r \in Request : Begins(r)
    BY <1>1, <1>4 DEF Begins, At
  <1>5. ASSUME NEW r \in Request, OwnStep(r) PROVE registered'
    <2>a. CASE q # r
      BY <1>1, <1>5, <2>a, OwnMoves, <1>0 DEF OneMoves
    <2>b. CASE q = r
      <3>a. req[q].pc \in {"register", "ran_read", "ran_write", "offer", "done"}
        BY <1>0 DEF Behind, Merged
      <3>b. req[q].pc = "ran_write" => FALSE
        BY <1>0 DEF CardThere, Staged, Merged, Marked
      <3>1. CASE LooksUp(r)
        BY <3>1, <2>b, <3>a, <3>b DEF LooksUp, Passes, Moves, At
      <3>2. CASE Permitted(r)
        BY <3>2, <2>b, <3>a, <3>b DEF Permitted, Passes, Moves, At
      <3>3. CASE ReadsMark(r)
        BY <3>3, <2>b, <3>a, <3>b DEF ReadsMark, Passes, Moves, At
      <3>4. CASE Marks(r)
        BY <3>4, <2>b, <3>a, <3>b DEF Marks, GoesOn, Moves, At
      <3>5. CASE CarriesOut(r)
        BY <3>5, <2>b, <3>a, <3>b DEF CarriesOut, Moves, At
      <3>6. CASE WorksOut(r)
        BY <3>6, <2>b, <3>a, <3>b DEF WorksOut, Moves, At
      <3>7. CASE ReadsRan(r)
        BY <3>7, <2>b, <3>a, <3>b DEF ReadsRan, Passes, Moves, At
      <3>8. CASE WritesRan(r)
        BY <3>8, <2>b, <3>a, <3>b DEF WritesRan, Moves, At
      <3>9. CASE ReadsRules(r)
        BY <3>9, <2>b, <3>a, <3>b DEF ReadsRules, Passes, Moves, At
      <3>10. CASE Merges(r)
        BY <3>10, <2>b, <3>a, <3>b DEF Merges, GoesOn, Moves, At
      <3>11. CASE Lists(r)
        BY <3>11, <2>b, <3>a, <3>b DEF Lists, Moves, At
      <3>12. CASE ReadsPause(r)
        BY <3>12, <2>b, <3>a, <3>b DEF ReadsPause, Passes, Moves, At
      <3>13. CASE LooksHeld(r)
        BY <3>13, <2>b, <3>a, <3>b DEF LooksHeld, Passes, Moves, At
      <3>14. CASE AppliesHeld(r)
        BY <3>14, <2>b, <3>a, <3>b DEF AppliesHeld, Passes, Moves, At
      <3>15. CASE ReadsHeld(r)
        BY <3>15, <2>b, <3>a, <3>b DEF ReadsHeld, Passes, Moves, At
      <3>16. CASE Claims(r)
        BY <3>16, <2>b, <3>a, <3>b DEF Claims, Passes, Moves, At
      <3>17. CASE WritesHeld(r)
        BY <3>17, <2>b, <3>a, <3>b DEF WritesHeld, Moves, At
      <3>18. CASE Offers(r)
        BY <3>18, <2>b, <3>a, <3>b DEF Offers, Moves, At
      <3> QED
        BY <1>5, <3>1, <3>2, <3>3, <3>4, <3>5, <3>6, <3>7, <3>8, <3>9, <3>10, <3>11,
           <3>12, <3>13, <3>14, <3>15, <3>16, <3>17, <3>18 DEF OwnStep
    <2> QED
      BY <2>a, <2>b
  <1> QED
    BY <1>2, <1>3, <1>4, <1>5 DEF Kinds

(* A rule merged alone is kept by whoever writes the file later. *)
LEMMA RuleStep ==
    ASSUME BaseInv, AloneInv, RuleInv, Kinds
    PROVE  RuleInv'
  <1>0. TypeInv
    BY DEF BaseInv
  <1>1. ASSUME NEW q \in Request, Merged(q)', Merged(q)
        PROVE  /\ Subject(q)' \in rules'
               /\ \A s \in Request : At(s, "merge")' => Subject(q)' \in req'[s].saw
               /\ At(q, "done")' /\ req'[q].told = "confirmed" => registered'
    <2>1. /\ Subject(q)' = Subject(q) /\ Subject(q) \in rules
          /\ \A s \in Request : At(s, "merge") => Subject(q) \in req[s].saw
          /\ At(q, "done") /\ req[q].told = "confirmed" => registered
      BY <1>1, MergedBefore DEF RuleInv
    <2>2. Subject(q) \in rules'
      BY <1>0, <2>1, RulesWritten DEF Merges, At
    <2>3. ASSUME NEW s \in Request, At(s, "merge")' PROVE Subject(q) \in req'[s].saw
      BY <1>0, <2>1, <2>3, MergeBefore DEF ReadsRules
    <2>4. At(q, "done")' /\ req'[q].told = "confirmed" => registered'
      BY <1>1, <2>1, ToldAfterListing
    <2> QED
      BY <2>1, <2>2, <2>3, <2>4
  <1>2. ASSUME NEW q \in Request, Merged(q)', Merges(q)
        PROVE  /\ Subject(q)' \in rules'
               /\ \A s \in Request : At(s, "merge")' => Subject(q)' \in req'[s].saw
               /\ At(q, "done")' /\ req'[q].told = "confirmed" => registered'
    <2>1. Subject(q)' \in rules' /\ ~At(q, "done")' /\ ~At(q, "merge")'
      BY <1>2 DEF Merges, GoesOn, Moves, At, Subject, InputOf
    <2>2. ASSUME NEW s \in Request, At(s, "merge")' PROVE FALSE
      <3>1. s # q /\ req'[s] = req[s]
        BY <1>2, <2>1, <2>2 DEF Merges, GoesOn, Moves
      <3>2. UnderWay(s) /\ UnderWay(q)
        BY <1>2, <2>2, <3>1 DEF Merges, At, UnderWay
      <3>3. q \notin crowded
        BY <1>2 DEF Merged, Merges
      <3> QED
        BY <3>1, <3>2, <3>3 DEF AloneInv
    <2> QED
      BY <2>1, <2>2
  <1> QED
    BY <1>1, <1>2, MergedBefore DEF RuleInv

-----------------------------------------------------------------------------
(* The whole invariant. *)
ConfirmInv ==
    /\ BaseInv /\ AuthorityInv /\ WithinInv /\ YesInv
    /\ AloneInv /\ ActInv /\ RuleInv

(* It holds before anything arrives. *)
LEMMA ConfirmStarts ==
    ASSUME Init
    PROVE  ConfirmInv
  <1>1. /\ req = [r \in Request |-> Idle] /\ carried = {} /\ crowded = {} /\ counted = {}
        /\ rules = {} /\ live = Device
    BY DEF Init
  <1>2. \A r \in Request : req[r] = Idle
    BY <1>1
  <1>3. /\ Idle \in Req /\ Idle.told = None /\ Idle.pc = "idle"
    BY IdleTyped
  <1>4. /\ \A change \in Change : Proposed(change) \in Proposal /\ Proposed(change) # None
                                  /\ Proposed(change).change = change
        /\ "rules" \in Change
    BY RecordAssumption DEF Proposed, Proposal, Change
  <1>5. card \in [Card -> Proposal \cup {None}] /\ card["given"] # None
        /\ (card["always"] # None => card["always"].change = "rules")
    <2>1. PICK given \in Changes, always \in {None, Proposed("rules")} :
              card = [c \in Card |-> IF c = "given" THEN Proposed(given) ELSE always]
      BY DEF Init
    <2>2. given \in Change
      BY ChangesAssumption
    <2> QED
      BY <1>4, <2>1, <2>2 DEF Card
  <1>6. held \in Held \cup {None} /\ (held # None => held.answer = None)
    <2>1. held \in [answer : {None}, by : {None}, within : BOOLEAN] \cup {None}
      BY DEF Init
    <2> QED
      BY <2>1 DEF Held
  <1>7. may \in [Device -> SUBSET Capability]
    BY DEF Init, Capability
  <1>8. 0 \in 0 .. MaxFaults
    BY FaultAssumption
  <1>9. TypeOK
    BY <1>1, <1>3, <1>5, <1>6, <1>7, <1>8 DEF Init, TypeOK, Req
  <1>10. \A r \in Request : req[r].pc = "idle" /\ req[r].told # "declined" /\ ~UnderWay(r)
    <2>1. None # "declined"
      BY RecordAssumption DEF CardAnswer
    <2> QED
      BY <1>2, <1>3, <2>1 DEF UnderWay
  <1>11. BaseInv
    BY <1>1, <1>5, <1>9, <1>10 DEF BaseInv, TypeInv, StageOK, Staged, CardInv, CardThere,
       DoneInv,
           Behind, AnsweredInv, Answered, Unmarked, Marked, HeldStage
  <1>12. AuthorityInv /\ AloneInv
    BY <1>10 DEF AuthorityInv, AloneInv
  <1>13. WithinInv
    BY <1>10 DEF WithinInv, HasHeld, HeldStage
  <1>14. YesInv
    BY <1>1, <1>10 DEF YesInv, LetPast, Did, Unmarked, Marked, HeldStage
  <1>15. ActInv
    BY <1>1, <1>10 DEF ActInv, Touches, ActedOn, ActsOn, Marked, HeldStage
  <1>16. RuleInv
    BY <1>1 DEF RuleInv, Merged
  <1> QED
    BY <1>11, <1>12, <1>13, <1>14, <1>15, <1>16 DEF ConfirmInv

(* And every step keeps it. *)
LEMMA ConfirmSteps ==
    ASSUME ConfirmInv, [Next]_vars
    PROVE  ConfirmInv'
  <1>1. BaseInv /\ TypeInv /\ DoneInv
    BY DEF ConfirmInv, BaseInv
  <1>2. Kinds
    BY <1>1, StepKinds
  <1> QED
    BY <1>1, <1>2, BaseStep, AuthorityStep, WithinStep, YesStep, AloneStep, ActStep,
       RuleStep
       DEF ConfirmInv

(* However many requests are handled at once, with crashes, failed file     *)
(* operations and authority taken away between any two steps, the invariant *)
(* of confirm.ts and proposals.ts holds.                                    *)
THEOREM ConfirmInvariant == Spec => []ConfirmInv
  <1>1. Init => ConfirmInv
    BY ConfirmStarts
  <1>2. ConfirmInv /\ [Next]_vars => ConfirmInv'
    BY ConfirmSteps
  <1> QED
    BY <1>1, <1>2, PTL DEF Spec

(* Nothing is let through or carried out that no person who could allow it  *)
(* signed, outside the exceptions consentFor names.                         *)
THEOREM NothingUnsigned == Spec => []YesIsSigned
  <1>1. ConfirmInv => YesIsSigned
    <2> SUFFICES ASSUME ConfirmInv, NEW r \in Request, Did(r)
                 PROVE  \/ <<InputOf(r).signed, NeededBy(r)>> \in req[r].authority
                        \/ Subject(r) # "held" /\ card[Subject(r)].change = "team_no"
                        \/ /\ InputOf(r).from = Mac /\ r \in counted
                           /\ held # None => held.within
                        \/ /\ Subject(r) = "given" /\ card["given"].change = "mac_show"
                           /\ InputOf(r).driving /\ <<InputOf(r).from, "mac">> \in req[r].authority
      BY DEF YesIsSigned
    <2>1. Allowed(r)
      BY DEF ConfirmInv, YesInv, LetPast
    <2>2. Behind(r) /\ CardThere(r) /\ "held" \notin Card
      BY DEF ConfirmInv, BaseInv, DoneInv, CardInv, Card
    <2>3. (Subject(r) # "held" => card[Subject(r)].change = "answer") => r \in counted
      BY <2>2 DEF Did, Behind, CardThere
    <2> QED
      BY <2>1, <2>3 DEF Allowed, Inside
  <1> QED
    BY <1>1, ConfirmInvariant, PTL

(* A card is acted on once and a held call answered once, unless the        *)
(* requests were handled at the same time (Proposals.answer has no claim).  *)
THEOREM OnceUnlessCrowded == Spec => []OneActsUnlessCrowded
  <1>1. ConfirmInv => OneActsUnlessCrowded
    BY DEF ConfirmInv, ActInv, OneActsUnlessCrowded, Touches
  <1> QED
    BY <1>1, ConfirmInvariant, PTL

(* A person told that a rule is in place was told the truth: mergeRules     *)
(* wrote it, nobody wrote over it, and every seam loads the file.           *)
THEOREM ToldRuleIsThere == Spec => []ConfirmedRuleHolds
  <1>1. ConfirmInv => ConfirmedRuleHolds
    <2> SUFFICES ASSUME ConfirmInv, NEW r \in ToldAlone,
                        card[Subject(r)].change = "rules", InputOf(r).answer # "team"
                 PROVE  Subject(r) \in rules /\ registered
      BY DEF ConfirmedRuleHolds
    <2>1. r \in Request /\ Merged(r)
      BY DEF ToldAlone, Merged, ConfirmInv, BaseInv, TypeInv, TypeOK
    <2> QED
      BY <2>1 DEF ToldAlone, ConfirmInv, RuleInv
  <1> QED
    BY <1>1, ConfirmInvariant, PTL

(* An answered card stays answered, whatever copy of it is written over it  *)
(* (Proposals.answer and Proposals.ran write the record whole).             *)
THEOREM CardStaysAnswered == Spec => AnswerSticks
  <1>1. ConfirmInv /\ [Next]_vars
            => [\A c \in Card : card[c] # None /\ card[c].answer # None
                    => card'[c] # None /\ card'[c].answer # None]_vars
    <2> SUFFICES ASSUME ConfirmInv, [Next]_vars
                 PROVE  \A c \in Card : card[c] # None /\ card[c].answer # None
                           => card'[c] # None /\ card'[c].answer # None
      OBVIOUS
    <2>1. CardsKept
      BY StepKinds, StepKeepsCards DEF ConfirmInv, BaseInv
    <2> QED
      BY <2>1 DEF CardsKept, CardKept
  <1> QED
    BY <1>1, ConfirmInvariant, PTL DEF Spec, AnswerSticks
=============================================================================
