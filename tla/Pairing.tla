------------------------------ MODULE Pairing ------------------------------
(***************************************************************************)
(* Pairing a device (cli/src/remote/pairings.ts, pairing.ts): a mailbox    *)
(* and a secret, one handshake in which a device proves its keys, and the  *)
(* person's yes, after which the device is in the registry.                *)
(*                                                                         *)
(* The book is memory of one daemon; the registry is a file, read and      *)
(* written whole.  An accept is a handler that checks the pairing and then *)
(* awaits the registry, the account, the cloud and the registry again,     *)
(* while other accepts, a decline, the expiry and frames from the relay    *)
(* are handled.                                                            *)
(***************************************************************************)
EXTENDS Naturals, FiniteSets

CONSTANTS
    Pair,         \* pairings a person begins
    Device,       \* devices that read a QR
    Call,         \* pair-accept requests
    DIGIT_TRIES,
    MaxFaults,    \* bound: stops of the daemon and changes of the Mac key
    None

ASSUME TriesAssumption == DIGIT_TRIES \in Nat \ {0}
ASSUME FaultsAssumption == MaxFaults \in Nat
ASSUME NoneAssumption == None \notin Device

Approver == {"mac-key", "local-shell"}
State == {"none", "opening", "waiting", "answered", "paired", "declined", "expired",
          "gone"}
Stage == {"first", "third", "proof", "done", "dead"}
CallPC == {"idle", "approver", "refusal", "find", "verify", "account", "add",
           "write", "welcome", "sync", "paired", "refused"}

VARIABLES
    state,      \* PAIRING_STATE, by pairing
    stage,      \* its responder's stage
    speaker,    \* the device the responder is in a handshake with
    phone,      \* the device that answered, or None
    wrong,      \* wrongDigits
    watched,    \* the pairings somebody watches
    heard,      \* what the watchers of a pairing were last told
    mailbox,    \* at the cloud: "none", "open" or "closed"
    macKey,     \* confirm-key.json is there
    lined,      \* the Mac's entry in devices.json agrees with it
    registry,   \* the entries of paired devices there
    call,       \* per accept: its place, its pairing and what it carries
    raced,      \* history: pairings settled, or accepted again, under an accept
    crossed,    \* history: the registry was written from an older copy
    faults

bookVars == <<state, stage, speaker, phone, wrong, watched, heard>>
fileVars == <<macKey, lined, registry, crossed>>
vars == <<bookVars, mailbox, fileVars, call, raced, faults>>

(* A DeviceRecord: the pairing it came from (the handshake of its mailbox), *)
(* whose keys it has, and who approved it.                                  *)
Entry == [pairing : Pair, device : Device, by : Approver]
NoAccept == [pc |-> "idle", after |-> "idle", pairing |-> None, signs |-> FALSE,
             digits |-> FALSE, phone |-> None, mac |-> FALSE, by |-> None,
             copy |-> {}]

TypeOK ==
    /\ state \in [Pair -> State]
    /\ stage \in [Pair -> Stage]
    /\ speaker \in [Pair -> Device \cup {None}]
    /\ phone \in [Pair -> Device \cup {None}]
    /\ wrong \in [Pair -> 0 .. Cardinality(Call)]
    /\ watched \subseteq Pair
    /\ heard \in [Pair -> State]
    /\ mailbox \in [Pair -> {"none", "open", "closed"}]
    /\ macKey \in BOOLEAN /\ lined \in BOOLEAN /\ crossed \in BOOLEAN
    /\ registry \subseteq Entry
    /\ \A c \in Call :
          /\ call[c].pc \in CallPC /\ call[c].after \in CallPC
          /\ call[c].pc # "idle" => call[c].pairing \in Pair /\ call[c].phone \in Device
          /\ call[c].copy \subseteq Entry
    /\ raced \subseteq Pair
    /\ faults \in 0 .. MaxFaults

Init ==
    /\ state = [i \in Pair |-> "none"]
    /\ stage = [i \in Pair |-> "first"]
    /\ speaker = [i \in Pair |-> None]
    /\ phone = [i \in Pair |-> None]
    /\ wrong = [i \in Pair |-> 0]
    /\ watched = {}
    /\ heard = [i \in Pair |-> "none"]
    /\ mailbox = [i \in Pair |-> "none"]
    /\ macKey \in BOOLEAN
    /\ lined = TRUE
    /\ registry = {} /\ raced = {}
    /\ crossed = FALSE
    /\ call = [c \in Call |-> NoAccept]
    /\ faults = 0

Live(i) == state[i] \in {"waiting", "answered"}
Over(i) == state[i] \in {"paired", "declined", "expired"}

(* An accept that passed its check of pairing i and has not returned. *)
InFlight(c, i) ==
    call[c].pairing = i /\ call[c].pc \notin {"idle", "paired", "refused"}

(* tell: every watcher hears where the pairing stands. *)
Tell(i, now) == heard' = IF i \in watched THEN [heard EXCEPT ![i] = now] ELSE heard

(* settle: the timer goes, the watchers hear the end and are let go. *)
Settle(i, end) ==
    /\ state' = [state EXCEPT ![i] = end]
    /\ Tell(i, end)
    /\ watched' = watched \ {i}

----------------------------------------------------------------------------
(* Opening a pairing, and the device's handshake.                          *)

(* begin: an account, who would approve (which puts the Mac's entry of the  *)
(* registry in line), and the cloud's mailbox; without one it is refused.   *)
Begin(i) ==
    /\ state[i] = "none"
    /\ state' = [state EXCEPT ![i] = "opening"]
    /\ lined' = TRUE
    /\ UNCHANGED <<stage, speaker, phone, wrong, watched, heard, mailbox, macKey,
                   registry, crossed, call, raced, faults>>

Open(i) ==
    /\ state[i] = "opening"
    /\ state' = [state EXCEPT ![i] = "waiting"]
    /\ mailbox' = [mailbox EXCEPT ![i] = "open"]
    /\ UNCHANGED <<stage, speaker, phone, wrong, watched, heard, fileVars, call,
                   raced, faults>>

(* pending: a watcher hears at once where the pairing stands. *)
Pending(i) ==
    /\ state[i] \notin {"none", "opening"}
    /\ watched' = watched \cup {i}
    /\ heard' = [heard EXCEPT ![i] = state[i]]
    /\ UNCHANGED <<state, stage, speaker, phone, wrong, mailbox, fileVars, call,
                   raced, faults>>

Dies(i) ==
    /\ stage' = [stage EXCEPT ![i] = "dead"]
    /\ UNCHANGED <<state, speaker, phone, watched, heard>>

(* first: a message under the QR's secret, or the responder dies. *)
First(i, d) ==
    /\ Live(i) /\ stage[i] = "first"
    /\ \/ /\ stage' = [stage EXCEPT ![i] = "third"]
          /\ speaker' = [speaker EXCEPT ![i] = d]
          /\ UNCHANGED <<state, phone, watched, heard>>
       \/ Dies(i)
    /\ UNCHANGED <<wrong, mailbox, fileVars, call, raced, faults>>

(* third: only the device in the handshake can go on with it. *)
Third(i, d) ==
    /\ Live(i) /\ stage[i] = "third"
    /\ \/ /\ d = speaker[i]
          /\ stage' = [stage EXCEPT ![i] = "proof"]
          /\ UNCHANGED <<state, speaker, phone, watched, heard>>
       \/ Dies(i)
    /\ UNCHANGED <<wrong, mailbox, fileVars, call, raced, faults>>

(* answered: the person now has the digits to compare, and longer for it. *)
Answered(i, d) ==
    /\ stage' = [stage EXCEPT ![i] = "done"]
    /\ IF state[i] = "waiting"
       THEN /\ state' = [state EXCEPT ![i] = "answered"]
            /\ phone' = [phone EXCEPT ![i] = d]
            /\ Tell(i, "answered")
       ELSE UNCHANGED <<state, phone, heard>>
    /\ UNCHANGED <<speaker, watched>>

(* Mutant: any proof is taken for the device's. *)
ProofOfAny(i, d) ==
    /\ Live(i) /\ stage[i] = "proof"
    /\ Answered(i, d)
    /\ UNCHANGED <<wrong, mailbox, fileVars, call, raced, faults>>

(* proof: signed with the key the hello named, over this handshake. *)
Proof(i, d) ==
    /\ Live(i) /\ stage[i] = "proof"
    /\ (d = speaker[i] /\ Answered(i, d)) \/ Dies(i)
    /\ UNCHANGED <<wrong, mailbox, fileVars, call, raced, faults>>

(* A close frame: whatever the stage, every later frame is dropped. *)
Leaves(i) ==
    /\ Live(i) /\ stage[i] # "dead"
    /\ Dies(i)
    /\ UNCHANGED <<wrong, mailbox, fileVars, call, raced, faults>>

----------------------------------------------------------------------------
(* The end of a pairing without a device.                                  *)

Race(i) == raced' = IF \E c \in Call : InFlight(c, i) THEN raced \cup {i} ELSE raced

(* Mutant: the timer of a pairing that was answered is not set again. *)
ExpireWaiting(i) ==
    /\ state[i] = "waiting"
    /\ Settle(i, "expired")
    /\ Race(i)
    /\ UNCHANGED <<stage, speaker, phone, wrong, mailbox, fileVars, call, faults>>

(* The timer: closeMailbox follows, where there is an account and the cloud *)
(* answers.                                                                 *)
Expire(i) ==
    /\ Live(i)
    /\ Settle(i, "expired")
    /\ Race(i)
    /\ UNCHANGED <<stage, speaker, phone, wrong, mailbox, fileVars, call, faults>>

Declined(i) ==
    IF Live(i) THEN Settle(i, "declined") ELSE UNCHANGED <<state, heard, watched>>

Decline(i) ==
    /\ Live(i)
    /\ Declined(i)
    /\ Race(i)
    /\ UNCHANGED <<stage, speaker, phone, wrong, mailbox, fileVars, call, faults>>

CloseMailbox(i) ==
    /\ state[i] \in {"declined", "expired"} /\ mailbox[i] = "open"
    /\ mailbox' = [mailbox EXCEPT ![i] = "closed"]
    /\ UNCHANGED <<bookVars, fileVars, call, raced, faults>>

----------------------------------------------------------------------------
(* accept: the person's yes.                                               *)

Returned(c, pc) == [NoAccept EXCEPT !.pc = pc, !.pairing = call[c].pairing,
                                    !.phone = call[c].phone]

Goto(c, pc) ==
    call' = [call EXCEPT ![c] = IF pc \in {"paired", "refused"} THEN Returned(c, pc)
                                ELSE [@ EXCEPT !.pc = pc]]

AcceptOf(c, i, signs, digits) == [NoAccept EXCEPT
    !.pc = "approver", !.pairing = i, !.signs = signs, !.digits = digits,
    !.phone = phone[i]]

(* Mutant: accepted whenever a device once answered. *)
AcceptLate(c, i, signs, digits) ==
    /\ call[c].pc = "idle"
    /\ phone[i] # None
    /\ call' = [call EXCEPT ![c] = AcceptOf(c, i, signs, digits)]
    /\ Race(i)
    /\ UNCHANGED <<bookVars, mailbox, fileVars, faults>>

(* It names a pairing and carries what the person gave: the Mac's signature *)
(* over the device that answered, or not, and the digits that device shows, *)
(* or others.  One whose pairing has no device waiting changes nothing.     *)
AcceptAsked(c, i, signs, digits) ==
    /\ call[c].pc = "idle"
    /\ state[i] = "answered"
    /\ call' = [call EXCEPT ![c] = AcceptOf(c, i, signs, digits)]
    /\ Race(i)
    /\ UNCHANGED <<bookVars, mailbox, fileVars, faults>>

(* Devices.all, for whoever asks: the file and the key are read; a Mac      *)
(* entry out of line with the key is put in line by writing the file back.  *)
Fetch(c, to) ==
    /\ call' = [call EXCEPT ![c].copy = registry, ![c].mac = macKey, ![c].after = to,
                            ![c].pc = IF lined THEN to ELSE "sync"]
    /\ UNCHANGED <<bookVars, mailbox, fileVars, raced, faults>>

WritesRegistry(c, entries) ==
    /\ registry' = entries
    /\ lined' = (macKey = call[c].mac)
    /\ crossed' = (crossed \/ registry # call[c].copy)
    /\ UNCHANGED macKey

SyncMac(c) ==
    /\ call[c].pc = "sync"
    /\ WritesRegistry(c, call[c].copy)
    /\ Goto(c, call[c].after)
    /\ UNCHANGED <<bookVars, mailbox, raced, faults>>

(* approverOn: a Mac key registered since the pairing began is asked for. *)
AcceptApprover(c) == call[c].pc = "approver" /\ Fetch(c, "refusal")

SetApprover(c, by, pc) ==
    call' = [call EXCEPT ![c].by = by, ![c].pc = pc, ![c].copy = {}, ![c].after = "idle"]

(* refusal: the Mac's signature is looked at once its entry is read again;  *)
(* digits are compared at once, a miss counts, and the last one declines.   *)
Refusal(c) ==
    LET i == call[c].pairing
        right == call[c].digits
    IN  /\ call[c].pc = "refusal"
        /\ IF call[c].mac THEN SetApprover(c, "mac-key", "find")
           ELSE IF right THEN SetApprover(c, "local-shell", "account")
           ELSE Goto(c, "refused")
        /\ wrong' = IF call[c].mac \/ right THEN wrong ELSE [wrong EXCEPT ![i] = @ + 1]
        /\ IF wrong'[i] > wrong[i] /\ wrong'[i] >= DIGIT_TRIES
           THEN Declined(i) /\ raced' = IF Live(i) /\ \E k \in Call \ {c} : InFlight(k, i)
                                        THEN raced \cup {i} ELSE raced
           ELSE UNCHANGED <<state, heard, watched, raced>>
        /\ UNCHANGED <<stage, speaker, phone, mailbox, fileVars, faults>>

FindMac(c) == call[c].pc = "find" /\ Fetch(c, "verify")

(* signedByMac: a key forgotten since refuses. *)
Verify(c) ==
    /\ call[c].pc = "verify"
    /\ Goto(c, IF call[c].mac /\ call[c].signs THEN "account" ELSE "refused")
    /\ UNCHANGED <<bookVars, mailbox, fileVars, raced, faults>>

(* The account and the cloud's token: none, and the person may try again. *)
Token(c) ==
    /\ call[c].pc = "account"
    /\ \E pc \in {"add", "refused"} : Goto(c, pc)
    /\ UNCHANGED <<bookVars, mailbox, fileVars, raced, faults>>

(* Devices.add. *)
AddReads(c) == call[c].pc = "add" /\ Fetch(c, "write")

EntryOf(c) == [pairing |-> call[c].pairing, device |-> call[c].phone,
               by |-> call[c].by]

AddWrites(c) ==
    /\ call[c].pc = "write"
    /\ WritesRegistry(c, call[c].copy \cup {EntryOf(c)})
    /\ Goto(c, "welcome")
    /\ UNCHANGED <<bookVars, mailbox, raced, faults>>

(* welcome, then settle: whatever has become of the pairing meanwhile. *)
Welcome(c) ==
    /\ call[c].pc = "welcome"
    /\ Settle(call[c].pairing, "paired")
    /\ Goto(c, "paired")
    /\ UNCHANGED <<stage, speaker, phone, wrong, mailbox, fileVars, raced, faults>>

----------------------------------------------------------------------------
(* A terminal's command forgets the Mac key; its app registers one. *)
KeyChanges ==
    /\ faults < MaxFaults /\ faults' = faults + 1
    /\ macKey' = ~macKey
    /\ lined' = ~lined
    /\ UNCHANGED <<bookVars, mailbox, registry, crossed, call, raced>>

(* The daemon stops: the book and the handlers go, the files stay. *)
DaemonStops ==
    /\ faults < MaxFaults /\ faults' = faults + 1
    /\ state' = [i \in Pair |-> IF state[i] = "none" THEN "none" ELSE "gone"]
    /\ watched' = {}
    /\ call' = [c \in Call |-> IF call[c].pc = "idle" THEN NoAccept
                               ELSE Returned(c, "refused")]
    /\ UNCHANGED <<stage, speaker, phone, wrong, heard, mailbox, fileVars, raced>>

Handshake(i, d) == First(i, d) \/ Third(i, d) \/ Proof(i, d)

Step(c) ==
    \/ AcceptApprover(c) \/ SyncMac(c) \/ Refusal(c) \/ FindMac(c) \/ Verify(c)
    \/ Token(c) \/ AddReads(c) \/ AddWrites(c) \/ Welcome(c)

Next ==
    \/ \E i \in Pair :
          \/ Begin(i) \/ Open(i) \/ Pending(i) \/ Leaves(i)
          \/ Expire(i) \/ Decline(i) \/ CloseMailbox(i)
          \/ \E d \in Device : Handshake(i, d)
          \/ \E c \in Call, signs \in BOOLEAN, digits \in BOOLEAN :
                AcceptAsked(c, i, signs, digits)
    \/ \E c \in Call : Step(c)
    \/ KeyChanges \/ DaemonStops

(* The daemon runs its handlers and its timers.  Nothing says a device      *)
(* speaks or a person answers.                                              *)
Fairness ==
    /\ \A i \in Pair : WF_vars(Expire(i))
    /\ \A c \in Call : WF_vars(Step(c))

Spec == Init /\ [][Next]_vars /\ Fairness

----------------------------------------------------------------------------
(* Properties.                                                             *)

EntriesOf(i) == {e \in registry : e.pairing = i}

(* "Nothing is trusted until the person says yes" (pairing.ts): a device is *)
(* in the registry under the keys it proved in its pairing's one handshake, *)
(* whatever other devices said to the same mailbox.                         *)
RegisteredProvedItsKeys == \A e \in registry : e.device = speaker[e.pairing]

(* A pairing that nothing else ended or accepted under its accept has one   *)
(* end: a device at most, none after a decline, an expiry or the last miss, *)
(* and its mailbox still there for the device; and the device, unless two   *)
(* writers of the registry crossed.                                         *)
OneEnd ==
    \A i \in Pair \ raced :
        /\ Cardinality(EntriesOf(i)) <= 1
        /\ EntriesOf(i) # {} => /\ state[i] \in {"answered", "paired", "gone"}
                               /\ wrong[i] < DIGIT_TRIES
                               /\ mailbox[i] = "open"
        /\ state[i] = "paired" /\ ~crossed => EntriesOf(i) # {}

(* No QR stays open and no accept hangs: pairings and accepts are begun     *)
(* once each, so in the end none is under way.                              *)
EveryPairingEnds ==
    []<>(\A i \in Pair : ~Live(i) /\ \A c \in Call : ~InFlight(c, i))
=============================================================================
