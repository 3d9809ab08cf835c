----------------------------- MODULE VoiceHold -----------------------------
(***************************************************************************)
(* Which paired phone holds the voice (cli/src/remote/voice-hold.ts).      *)
(*                                                                         *)
(* A phone holds it while its app has a stream open, while it drives,      *)
(* while a question from it is being answered and for a grace after, until *)
(* the person speaks to the Mac.  Every event ends by reading the rule     *)
(* again (settle), and a timer does when only time changes it.  Time is    *)
(* what a timer would notice: a drive or a grace runs out ("over") before  *)
(* the timer set for it fires.                                             *)
(*                                                                         *)
(* The module gives the operations as formulas over its variables; the     *)
(* events that call them are RemoteEndpoint's.                             *)
(***************************************************************************)
EXTENDS Integers, Sequences, FiniteSets

CONSTANTS Phone, None

ASSUME NonePhoneAssumption == None \notin Phone

VARIABLES
    phones,     \* PhoneActivity by phone, or None
    recent,     \* the phones by lastActiveAt, the latest last
    current,    \* the phone that holds the voice, or None for the Mac
    due         \* an end the timer was set for has passed

holdVars == <<phones, recent, current, due>>

Span == {"none", "live", "over"}
Activity == [driving : Span, asking : Nat, subscribed : Nat, grace : Span,
             yielded : BOOLEAN, letGo : BOOLEAN]

ASSUME ActivityAssumption == None \notin Activity

HoldTypeOK ==
    /\ phones \in [Phone -> Activity \cup {None}]
    /\ recent \in Seq(Phone)
    /\ current \in Phone \cup {None}
    /\ due \in BOOLEAN

HoldInit ==
    /\ phones = [p \in Phone |-> None]
    /\ recent = << >>
    /\ current = None
    /\ due = FALSE

NoActivity == [driving |-> "none", asking |-> 0, subscribed |-> 0,
               grace |-> "none", yielded |-> FALSE, letGo |-> FALSE]

Qualifies(a) ==
    /\ ~a.yielded /\ ~a.letGo
    /\ a.asking > 0 \/ a.subscribed > 0 \/ a.driving = "live" \/ a.grace = "live"

(* voiceHolder: the most recently active of those that qualify. *)
VoiceHolder(acts, order) ==
    LET found == {i \in 1 .. Len(order) :
                    acts[order[i]] # None /\ Qualifies(acts[order[i]])}
    IN  IF found = {} THEN None
        ELSE order[CHOOSE i \in found : \A j \in found : j <= i]

(* The order without p, which is in it once at most. *)
Without(order, p) ==
    LET at == {i \in 1 .. Len(order) : order[i] = p}
        i == CHOOSE i \in at : TRUE
    IN  IF at = {} THEN order
        ELSE SubSeq(order, 1, i - 1) \o SubSeq(order, i + 1, Len(order))

Latest(p) == Append(Without(recent, p), p)

(* settle, after an event has changed what is kept of the phones. *)
Settled(acts, order) ==
    /\ phones' = acts
    /\ recent' = order
    /\ current' = VoiceHolder(acts, order)
    /\ due' = FALSE

Known(p) == phones[p] # None

(* touch: the entry as it is, or a new one. *)
Touched(p) == IF Known(p) THEN phones[p] ELSE NoActivity

HoldDriven(p) ==
    Settled([phones EXCEPT ![p] = [Touched(p) EXCEPT
                !.driving = "live", !.yielded = FALSE, !.letGo = FALSE]], Latest(p))

HoldUndriven(p) ==
    IF Known(p) THEN Settled([phones EXCEPT ![p].driving = "none"], recent)
    ELSE UNCHANGED holdVars

HoldBegan(p) ==
    Settled([phones EXCEPT ![p] = [Touched(p) EXCEPT
                !.asking = @ + 1, !.yielded = FALSE, !.letGo = FALSE]], Latest(p))

(* A stream renewed within the grace is the same visit. *)
Fresh(p) == ~Known(p) \/ (phones[p].subscribed = 0 /\ phones[p].grace # "live")

(* Mutant: any stream opened takes the voice back from the Mac. *)
HoldSubscribedAnew(p) ==
    Settled([phones EXCEPT ![p] = [Touched(p) EXCEPT
                !.subscribed = @ + 1, !.letGo = FALSE, !.yielded = FALSE]], Latest(p))

HoldSubscribed(p) ==
    Settled([phones EXCEPT ![p] = [Touched(p) EXCEPT
                !.subscribed = @ + 1, !.letGo = FALSE,
                !.yielded = IF Fresh(p) THEN FALSE ELSE @]], Latest(p))

HoldRenewed(p) ==
    IF Known(p) /\ phones[p].letGo THEN Settled([phones EXCEPT ![p].letGo = FALSE], recent)
    ELSE UNCHANGED holdVars

HoldReleased(p) ==
    IF Known(p) /\ ~phones[p].letGo THEN Settled([phones EXCEPT ![p].letGo = TRUE], recent)
    ELSE UNCHANGED holdVars

HoldMacTookBack ==
    Settled([p \in Phone |-> IF Known(p) THEN [phones[p] EXCEPT !.yielded = TRUE]
                             ELSE None], recent)

HoldUnsubscribed(p) ==
    IF Known(p) /\ phones[p].subscribed > 0
    THEN Settled([phones EXCEPT ![p].subscribed = @ - 1, ![p].grace = "live"], recent)
    ELSE UNCHANGED holdVars

(* Mutant: the question is still counted once answered. *)
HoldEndedCounted(p) ==
    IF Known(p) THEN Settled([phones EXCEPT ![p].grace = "live"], Latest(p))
    ELSE UNCHANGED holdVars

HoldEnded(p) ==
    IF Known(p)
    THEN Settled([phones EXCEPT ![p].asking = IF @ = 0 THEN 0 ELSE @ - 1,
                                ![p].grace = "live"], Latest(p))
    ELSE UNCHANGED holdVars

HoldForget(p) ==
    IF Known(p) THEN Settled([phones EXCEPT ![p] = None], Without(recent, p))
    ELSE UNCHANGED holdVars

(* Time passes the end of a grace or of a drive; nothing is told yet. *)
GracePasses(p) ==
    /\ Known(p) /\ phones[p].grace = "live"
    /\ phones' = [phones EXCEPT ![p].grace = "over"]
    /\ due' = TRUE
    /\ UNCHANGED <<recent, current>>

HoldDrivePasses(p) ==
    /\ IF Known(p) /\ phones[p].driving = "live"
       THEN phones' = [phones EXCEPT ![p].driving = "over"] /\ due' = TRUE
       ELSE UNCHANGED <<phones, due>>
    /\ UNCHANGED <<recent, current>>

(* The timer settle sets for the next of those ends. *)
HoldTimer == due /\ Settled(phones, recent)
=============================================================================
