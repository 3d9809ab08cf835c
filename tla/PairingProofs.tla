--------------------------- MODULE PairingProofs ---------------------------
(***************************************************************************)
(* For any number of pairings, devices and accepts: a registered device    *)
(* proved its keys in its pairing's handshake, and a pairing that nothing  *)
(* raced has one end.                                                      *)
(*                                                                         *)
(* KeysInv: once a device answered, the handshake is over and its speaker  *)
(* stays (HandshakeStays); every accept, every entry of the registry and   *)
(* every copy of one a handler holds across an await carries that device.  *)
(* EndInv: while an accept is in flight its pairing is still answered and  *)
(* no other accept of it is; an entry of a pairing still answered is that  *)
(* of the one accept past its write.                                       *)
(***************************************************************************)
EXTENDS Pairing, FiniteSetTheorems, TLAPS

(* What an accept's handler holds across its awaits. *)
Accept == [pc : CallPC, after : CallPC, pairing : Pair \cup {None}, signs : BOOLEAN,
           digits : BOOLEAN, phone : Device \cup {None}, mac : BOOLEAN,
           by : Approver \cup {None}, copy : SUBSET Entry]

(* The types, with what an accept holds where its next step uses it. *)
TypeInv ==
    /\ state \in [Pair -> State]
    /\ stage \in [Pair -> Stage]
    /\ speaker \in [Pair -> Device \cup {None}]
    /\ phone \in [Pair -> Device \cup {None}]
    /\ wrong \in [Pair -> Nat]
    /\ watched \subseteq Pair
    /\ heard \in [Pair -> State]
    /\ mailbox \in [Pair -> {"none", "open", "closed"}]
    /\ macKey \in BOOLEAN /\ lined \in BOOLEAN /\ crossed \in BOOLEAN
    /\ registry \subseteq Entry
    /\ call \in [Call -> Accept]
    /\ raced \subseteq Pair
    /\ faults \in 0 .. MaxFaults
    /\ \A c \in Call :
          /\ call[c].pc # "idle" => call[c].pairing \in Pair /\ call[c].phone \in Device
          /\ call[c].pc \in {"find", "verify", "account", "add", "write", "welcome"}
                => call[c].by \in Approver
          /\ call[c].pc = "sync" => call[c].after \in {"refusal", "verify", "write"}
          /\ call[c].pc = "sync" /\ call[c].after # "refusal" => call[c].by \in Approver

(* The entries of the registry, and of every copy of it a handler holds. *)
Copied == registry \cup UNION {call[c].copy : c \in Call}

(* The device that answered is the one the handshake was with, and every     *)
(* accept and every entry carries it.                                        *)
KeysInv ==
    /\ \A i \in Pair : phone[i] # None
                         => phone[i] = speaker[i] /\ stage[i] \in {"done", "dead"}
    /\ \A i \in Pair : phone[i] = None => state[i] # "answered" /\ wrong[i] = 0
    /\ \A c \in Call : call[c].pc # "idle" => call[c].phone = phone[call[c].pairing]
    /\ \A e \in Copied : e.device = phone[e.pairing]

(* A pairing still open has a miss left and its mailbox. *)
OpenInv ==
    \A i \in Pair :
        /\ state[i] = "answered" => wrong[i] < DIGIT_TRIES
        /\ Live(i) => mailbox[i] = "open"

(* Where nothing raced an accept, it is alone and its pairing is answered. *)
FlightInv ==
    \A i \in Pair \ raced : \A c \in Call : InFlight(c, i) =>
        /\ state[i] = "answered"
        /\ \A k \in Call : InFlight(k, i) => k = c

(* Where nothing raced the accept, its entry is the pairing's only one. *)
EntryInv ==
    \A i \in Pair \ raced : \A e \in Copied : e.pairing = i =>
        /\ state[i] \in {"answered", "paired", "gone"}
        /\ wrong[i] < DIGIT_TRIES
        /\ mailbox[i] = "open"
        /\ state[i] = "answered" => \E c \in Call : InFlight(c, i) /\ call[c].pc = "welcome"
        /\ \A f \in Copied : f.pairing = i => f = e

(* What an accept wrote is there, unless two writers crossed. *)
PairedInv ==
    ~crossed =>
        /\ \A c \in Call : call[c].pc = "welcome" => EntryOf(c) \in registry
        /\ \A i \in Pair : state[i] = "paired" => EntriesOf(i) # {}

(* How a pairing that nothing raced ends. *)
EndInv == OpenInv /\ FlightInv /\ EntryInv /\ PairedInv

(* The inductive invariant. *)
PairInv == TypeInv /\ KeysInv /\ EndInv

-----------------------------------------------------------------------------
(* The accept c moves on: its pairing and its device stay with it, and no    *)
(* other accept moves.                                                       *)
Moves(c) ==
    /\ call' \in [Call -> Accept]
    /\ \A k \in Call : k # c => call'[k] = call[k]
    /\ call'[c].pairing = call[c].pairing /\ call'[c].phone = call[c].phone

(* Devices.all leaves the accept with a copy of the registry. *)
LEMMA FetchMoves ==
    ASSUME TypeInv, NEW c \in Call, NEW to \in CallPC, Fetch(c, to)
    PROVE  /\ Moves(c)
           /\ call'[c].pc \in {to, "sync"} /\ call'[c].after = to
           /\ call'[c].by = call[c].by /\ call'[c].copy = registry
  <1>0. PICK q \in CallPC : q = (IF lined THEN to ELSE "sync") /\ q \in {to, "sync"}
    BY DEF CallPC
  <1> DEFINE r == call[c]
  <1> DEFINE new == [r EXCEPT !.copy = registry, !.mac = macKey, !.after = to, !.pc = q]
  <1>1. r \in Accept /\ registry \in SUBSET Entry /\ macKey \in BOOLEAN
    BY DEF TypeInv
  <1>2. /\ new \in Accept /\ new.pc \in {to, "sync"} /\ new.after = to
        /\ new.by = r.by /\ new.copy = registry /\ new.pairing = r.pairing
        /\ new.phone = r.phone
    BY <1>0, <1>1 DEF Accept
  <1>3. call' = [call EXCEPT ![c] = new]
    BY <1>0, <1>1 DEF Fetch, TypeInv
  <1> HIDE DEF new
  <1>4. call'[c] = new /\ call' \in [Call -> Accept] /\ \A k \in Call : k # c => call'[k] = call[k]
    BY <1>2, <1>3 DEF TypeInv
  <1> QED
    BY <1>2, <1>4 DEF Moves

(* An accept that goes on keeps what it holds; one that returned holds none. *)
LEMMA GotoMoves ==
    ASSUME TypeInv, NEW c \in Call, NEW to \in CallPC, Goto(c, to)
    PROVE  /\ Moves(c) /\ call'[c].pc = to
           /\ to \notin {"paired", "refused"} => call'[c].by = call[c].by /\ call'[c].after = call[c].after
           /\ call'[c].copy \in {call[c].copy, {}}
  <1>1. call[c] \in Accept
    BY DEF TypeInv
  <1>2. CASE to \in {"paired", "refused"}
    <2> DEFINE new == Returned(c, to)
    <2>1. /\ new \in Accept /\ new.pc = to /\ new.copy = {} /\ new.pairing = call[c].pairing
          /\ new.phone = call[c].phone
      BY <1>1 DEF Returned, NoAccept, Accept, CallPC
    <2>2. call' = [call EXCEPT ![c] = new]
      BY <1>2 DEF Goto
    <2> HIDE DEF new
    <2> QED
      BY <1>2, <2>1, <2>2 DEF TypeInv, Moves
  <1>3. CASE to \notin {"paired", "refused"}
    <2> DEFINE new == [call[c] EXCEPT !.pc = to]
    <2>1. /\ new \in Accept /\ new.pc = to /\ new.copy = call[c].copy /\ new.by = call[c].by
          /\ new.pairing = call[c].pairing /\ new.phone = call[c].phone /\ new.after = call[c].after
      BY <1>1 DEF Accept
    <2>2. call' = [call EXCEPT ![c] = new]
      BY <1>3 DEF Goto
    <2> HIDE DEF new
    <2> QED
      BY <2>1, <2>2 DEF TypeInv, Moves
  <1> QED
    BY <1>2, <1>3

(* Who approves is settled, and the copy let go. *)
LEMMA SetApproverMoves ==
    ASSUME TypeInv, NEW c \in Call, NEW by \in Approver, NEW to \in CallPC, SetApprover(c,
           by, to)
    PROVE  Moves(c) /\ call'[c].pc = to /\ call'[c].by = by /\ call'[c].copy = {}
  <1> DEFINE new == [call[c] EXCEPT !.by = by, !.pc = to, !.copy = {}, !.after = "idle"]
  <1>1. call[c] \in Accept
    BY DEF TypeInv
  <1>2. /\ new \in Accept /\ new.pc = to /\ new.by = by /\ new.copy = {}
        /\ new.pairing = call[c].pairing /\ new.phone = call[c].phone
    BY <1>1 DEF Accept, CallPC
  <1>3. call' = [call EXCEPT ![c] = new]
    BY <1>1 DEF SetApprover, TypeInv
  <1> HIDE DEF new
  <1> QED
    BY <1>2, <1>3 DEF TypeInv, Moves

(* A new accept carries the pairing's device. *)
LEMMA AcceptStarts ==
    ASSUME TypeInv, NEW c \in Call, NEW i \in Pair, NEW signs \in BOOLEAN, NEW digits \in
           BOOLEAN,
           AcceptAsked(c, i, signs, digits)
    PROVE  /\ call' \in [Call -> Accept] /\ \A k \in Call : k # c => call'[k] = call[k]
           /\ call'[c].pc = "approver" /\ call'[c].pairing = i /\ call'[c].phone = phone[i]
           /\ call'[c].copy = {}
  <1> DEFINE new == AcceptOf(c, i, signs, digits)
  <1>1. phone[i] \in Device \cup {None}
    BY DEF TypeInv
  <1>2. /\ new \in Accept /\ new.pc = "approver" /\ new.pairing = i /\ new.phone = phone[i]
        /\ new.copy = {}
    BY <1>1 DEF AcceptOf, NoAccept, Accept, CallPC
  <1>3. call' = [call EXCEPT ![c] = new]
    BY DEF AcceptAsked
  <1> HIDE DEF new
  <1> QED
    BY <1>2, <1>3 DEF TypeInv

(* A stop ends every accept under way. *)
LEMMA StopEnds ==
    ASSUME TypeInv, DaemonStops
    PROVE  /\ call' \in [Call -> Accept]
           /\ \A c \in Call : /\ call'[c].pc \in {"idle", "refused"} /\ call'[c].copy = {}
                              /\ call'[c].pc # "idle" => /\ call[c].pc # "idle"
                                                       /\ call'[c].pairing = call[c].pairing
                                                       /\ call'[c].phone = call[c].phone
  <1>1. NoAccept \in Accept /\ NoAccept.pc = "idle" /\ NoAccept.copy = {}
    BY DEF NoAccept, Accept, CallPC
  <1>2. ASSUME NEW c \in Call
        PROVE  LET new == Returned(c, "refused") IN
                 /\ new \in Accept /\ new.pc = "refused" /\ new.copy = {}
                 /\ new.pairing = call[c].pairing /\ new.phone = call[c].phone
    <2>1. call[c] \in Accept
      BY DEF TypeInv
    <2> QED
      BY <2>1 DEF Returned, NoAccept, Accept, CallPC
  <1>3. call' = [c \in Call |-> IF call[c].pc = "idle" THEN NoAccept ELSE Returned(c, "refused")]
    BY DEF DaemonStops
  <1>4. \A c \in Call : call'[c] = IF call[c].pc = "idle" THEN NoAccept ELSE Returned(c, "refused")
    BY <1>3
  <1>5. call' \in [Call -> Accept]
    BY <1>1, <1>2, <1>3
  <1> QED
    BY <1>1, <1>2, <1>4, <1>5

(* Every step keeps the types. *)
LEMMA TypeStep ==
    ASSUME TypeInv, KeysInv, [Next]_vars
    PROVE  TypeInv'
  <1> USE NoneAssumption, FaultsAssumption
      DEF TypeInv, State, Stage, bookVars, fileVars
  <1>1. ASSUME NEW i \in Pair, Begin(i) PROVE TypeInv'
    BY <1>1 DEF Begin
  <1>2. ASSUME NEW i \in Pair, Open(i) PROVE TypeInv'
    BY <1>2 DEF Open
  <1>3. ASSUME NEW i \in Pair, Pending(i) PROVE TypeInv'
    BY <1>3 DEF Pending
  <1>4. ASSUME NEW i \in Pair, Leaves(i) PROVE TypeInv'
    BY <1>4 DEF Leaves, Dies
  <1>5. ASSUME NEW i \in Pair, Expire(i) PROVE TypeInv'
    BY <1>5 DEF Expire, Settle, Tell, Race
  <1>6. ASSUME NEW i \in Pair, Decline(i) PROVE TypeInv'
    BY <1>6 DEF Decline, Declined, Settle, Tell, Race
  <1>7. ASSUME NEW i \in Pair, CloseMailbox(i) PROVE TypeInv'
    BY <1>7 DEF CloseMailbox
  <1>8. ASSUME NEW i \in Pair, NEW d \in Device, First(i, d) PROVE TypeInv'
    BY <1>8 DEF First, Dies
  <1>9. ASSUME NEW i \in Pair, NEW d \in Device, Third(i, d) PROVE TypeInv'
    BY <1>9 DEF Third, Dies
  <1>10. ASSUME NEW i \in Pair, NEW d \in Device, Proof(i, d) PROVE TypeInv'
    BY <1>10 DEF Proof, Dies, Answered, Tell
  <1>11. ASSUME NEW i \in Pair, NEW c \in Call, NEW s \in BOOLEAN, NEW b \in BOOLEAN,
             AcceptAsked(c, i, s, b)
       PROVE TypeInv'
    <2>1. phone[i] \in Device
      BY <1>11 DEF AcceptAsked, KeysInv
    <2>2. /\ call' \in [Call -> Accept] /\ \A k \in Call : k # c => call'[k] = call[k]
          /\ call'[c].pc = "approver" /\ call'[c].pairing = i /\ call'[c].phone = phone[i]
      BY <1>11, AcceptStarts
    <2>3. raced' \subseteq Pair /\ UNCHANGED <<bookVars, mailbox, fileVars, faults>>
      BY <1>11 DEF AcceptAsked, Race
    <2> QED
      BY <2>1, <2>2, <2>3
  <1>12. ASSUME NEW c \in Call, AcceptApprover(c) PROVE TypeInv'
    <2>1. "refusal" \in CallPC
      BY DEF CallPC
    <2>2. /\ Moves(c) /\ call'[c].pc \in {"refusal", "sync"} /\ call'[c].after = "refusal"
          /\ call'[c].by = call[c].by
      BY <1>12, <2>1, FetchMoves DEF AcceptApprover
    <2>3. UNCHANGED <<bookVars, mailbox, fileVars, raced, faults>> /\ call[c].pc = "approver"
      BY <1>12 DEF AcceptApprover, Fetch
    <2> QED
      BY <2>2, <2>3 DEF Moves
  <1>13. ASSUME NEW c \in Call, SyncMac(c) PROVE TypeInv'
    <2>1. call[c].after \in CallPC /\ call[c].after \notin {"paired", "refused"} /\ call[c].copy \in SUBSET Entry
      BY <1>13 DEF SyncMac, CallPC, Accept
    <2> QED
      BY <1>13, <2>1, GotoMoves DEF SyncMac, WritesRegistry, Moves
  <1>14. ASSUME NEW c \in Call, Refusal(c) PROVE TypeInv'
    <2>1. "find" \in CallPC /\ "account" \in CallPC /\ "refused" \in CallPC
          /\ "mac-key" \in Approver /\ "local-shell" \in Approver
      BY DEF CallPC, Approver
    <2>2. /\ Moves(c) /\ call'[c].pc \in {"find", "account", "refused"}
          /\ call'[c].pc # "refused" => call'[c].by \in Approver
      BY <1>14, <2>1, SetApproverMoves, GotoMoves DEF Refusal
    <2>3. wrong' \in [Pair -> Nat]
      BY <1>14 DEF Refusal
    <2>4. state' \in [Pair -> State] /\ heard' \in [Pair -> State] /\ watched' \subseteq Pair
          /\ raced' \subseteq Pair
      BY <1>14 DEF Refusal, Declined, Settle, Tell
    <2> QED
      BY <1>14, <2>2, <2>3, <2>4 DEF Refusal, Moves
  <1>15. ASSUME NEW c \in Call, FindMac(c) PROVE TypeInv'
    <2>1. "verify" \in CallPC
      BY DEF CallPC
    <2>2. /\ Moves(c) /\ call'[c].pc \in {"verify", "sync"} /\ call'[c].after = "verify"
          /\ call'[c].by = call[c].by
      BY <1>15, <2>1, FetchMoves DEF FindMac
    <2>3. UNCHANGED <<bookVars, mailbox, fileVars, raced, faults>> /\ call[c].pc = "find"
      BY <1>15 DEF FindMac, Fetch
    <2> QED
      BY <2>2, <2>3 DEF Moves
  <1>16. ASSUME NEW c \in Call, Verify(c) PROVE TypeInv'
    <2>1. "account" \in CallPC /\ "refused" \in CallPC
      BY DEF CallPC
    <2> QED
      BY <1>16, <2>1, GotoMoves DEF Verify, Moves
  <1>17. ASSUME NEW c \in Call, Token(c) PROVE TypeInv'
    <2>1. "add" \in CallPC /\ "refused" \in CallPC
      BY DEF CallPC
    <2>2. Moves(c) /\ call'[c].pc \in {"add", "refused"}
          /\ (call'[c].pc = "add" => call'[c].by = call[c].by)
      BY <1>17, <2>1, GotoMoves DEF Token
    <2> QED
      BY <1>17, <2>2 DEF Token, Moves
  <1>18. ASSUME NEW c \in Call, AddReads(c) PROVE TypeInv'
    <2>1. "write" \in CallPC
      BY DEF CallPC
    <2>2. /\ Moves(c) /\ call'[c].pc \in {"write", "sync"} /\ call'[c].after = "write"
          /\ call'[c].by = call[c].by
      BY <1>18, <2>1, FetchMoves DEF AddReads
    <2>3. UNCHANGED <<bookVars, mailbox, fileVars, raced, faults>> /\ call[c].pc = "add"
      BY <1>18 DEF AddReads, Fetch
    <2> QED
      BY <2>2, <2>3 DEF Moves
  <1>19. ASSUME NEW c \in Call, AddWrites(c) PROVE TypeInv'
    <2>1. "welcome" \in CallPC
      BY DEF CallPC
    <2>2. EntryOf(c) \in Entry
      BY <1>19 DEF AddWrites, EntryOf, Entry
    <2>3. call[c].copy \in SUBSET Entry
      BY DEF Accept
    <2> QED
      BY <1>19, <2>1, <2>2, <2>3, GotoMoves DEF AddWrites, WritesRegistry, Moves
  <1>20. ASSUME NEW c \in Call, Welcome(c) PROVE TypeInv'
    <2>1. "paired" \in CallPC
      BY DEF CallPC
    <2> QED
      BY <1>20, <2>1, GotoMoves DEF Welcome, Settle, Tell, Moves
  <1>21. ASSUME KeyChanges PROVE TypeInv'
    BY <1>21 DEF KeyChanges
  <1>22. ASSUME DaemonStops PROVE TypeInv'
    BY <1>22, StopEnds DEF DaemonStops
  <1>23. CASE UNCHANGED vars
    BY <1>23 DEF vars
  <1> QED
    BY <1>1, <1>2, <1>3, <1>4, <1>5, <1>6, <1>7, <1>8, <1>9, <1>10, <1>11, <1>12, <1>13,
       <1>14, <1>15, <1>16, <1>17, <1>18, <1>19, <1>20, <1>21, <1>22, <1>23 DEF Next,
       Handshake, Step

(* Once a device answered, its handshake is over. *)
HandshakeStays == \A i \in Pair : phone[i] # None => phone'[i] = phone[i] /\ speaker'[i] = speaker[i]

(* Every step of the specification leaves a finished handshake alone. *)
LEMMA HandshakeStep ==
    ASSUME TypeInv, KeysInv, [Next]_vars
    PROVE  HandshakeStays
  <1> USE DEF TypeInv, KeysInv, HandshakeStays, bookVars, fileVars
  <1>1. ASSUME NEW i \in Pair, Begin(i) PROVE HandshakeStays
    BY <1>1 DEF Begin
  <1>2. ASSUME NEW i \in Pair, Open(i) PROVE HandshakeStays
    BY <1>2 DEF Open
  <1>3. ASSUME NEW i \in Pair, Pending(i) PROVE HandshakeStays
    BY <1>3 DEF Pending
  <1>4. ASSUME NEW i \in Pair, Leaves(i) PROVE HandshakeStays
    BY <1>4 DEF Leaves, Dies
  <1>5. ASSUME NEW i \in Pair, Expire(i) PROVE HandshakeStays
    BY <1>5 DEF Expire, Settle, Tell, Race
  <1>6. ASSUME NEW i \in Pair, Decline(i) PROVE HandshakeStays
    BY <1>6 DEF Decline, Declined, Settle, Tell, Race
  <1>7. ASSUME NEW i \in Pair, CloseMailbox(i) PROVE HandshakeStays
    BY <1>7 DEF CloseMailbox
  <1>8. ASSUME NEW i \in Pair, NEW d \in Device, First(i, d) PROVE HandshakeStays
    BY <1>8 DEF First, Dies
  <1>9. ASSUME NEW i \in Pair, NEW d \in Device, Third(i, d) PROVE HandshakeStays
    BY <1>9 DEF Third, Dies
  <1>10. ASSUME NEW i \in Pair, NEW d \in Device, Proof(i, d) PROVE HandshakeStays
    BY <1>10 DEF Proof, Dies, Answered, Tell
  <1>11. ASSUME NEW i \in Pair, NEW c \in Call, NEW s \in BOOLEAN, NEW b \in BOOLEAN,
             AcceptAsked(c, i, s, b)
       PROVE HandshakeStays
    BY <1>11 DEF AcceptAsked, Race
  <1>12. ASSUME NEW c \in Call, AcceptApprover(c) PROVE HandshakeStays
    BY <1>12 DEF AcceptApprover, Fetch
  <1>13. ASSUME NEW c \in Call, SyncMac(c) PROVE HandshakeStays
    BY <1>13 DEF SyncMac
  <1>14. ASSUME NEW c \in Call, Refusal(c) PROVE HandshakeStays
    BY <1>14 DEF Refusal
  <1>15. ASSUME NEW c \in Call, FindMac(c) PROVE HandshakeStays
    BY <1>15 DEF FindMac, Fetch
  <1>16. ASSUME NEW c \in Call, Verify(c) PROVE HandshakeStays
    BY <1>16 DEF Verify
  <1>17. ASSUME NEW c \in Call, Token(c) PROVE HandshakeStays
    BY <1>17 DEF Token
  <1>18. ASSUME NEW c \in Call, AddReads(c) PROVE HandshakeStays
    BY <1>18 DEF AddReads, Fetch
  <1>19. ASSUME NEW c \in Call, AddWrites(c) PROVE HandshakeStays
    BY <1>19 DEF AddWrites
  <1>20. ASSUME NEW c \in Call, Welcome(c) PROVE HandshakeStays
    BY <1>20 DEF Welcome
  <1>21. ASSUME KeyChanges PROVE HandshakeStays
    BY <1>21 DEF KeyChanges
  <1>22. ASSUME DaemonStops PROVE HandshakeStays
    BY <1>22 DEF DaemonStops
  <1>23. CASE UNCHANGED vars
    BY <1>23 DEF vars
  <1> QED
    BY <1>1, <1>2, <1>3, <1>4, <1>5, <1>6, <1>7, <1>8, <1>9, <1>10, <1>11, <1>12, <1>13,
       <1>14, <1>15, <1>16, <1>17, <1>18, <1>19, <1>20, <1>21, <1>22, <1>23 DEF Next,
       Handshake, Step

(* An accept under way moves, and leaves the handshakes and mailboxes be. *)
LEMMA StepMoves ==
    ASSUME TypeInv, NEW c \in Call, Step(c)
    PROVE  /\ Moves(c)
           /\ call[c].pc \notin {"idle", "paired", "refused"} /\ call'[c].pc # "idle"
           /\ UNCHANGED <<stage, speaker, phone, mailbox>>
  <1> USE DEF bookVars, fileVars
  <1>1. CASE AcceptApprover(c) \/ FindMac(c) \/ AddReads(c)
    <2>1. {"refusal", "verify", "write"} \subseteq CallPC
      BY DEF CallPC
    <2>2. \E to \in {"refusal", "verify", "write"} : Fetch(c, to)
      BY <1>1 DEF AcceptApprover, FindMac, AddReads
    <2>3. Moves(c) /\ call'[c].pc # "idle"
      BY <2>1, <2>2, FetchMoves
    <2>4. UNCHANGED <<stage, speaker, phone, mailbox>>
      BY <2>2 DEF Fetch
    <2> QED
      BY <1>1, <2>3, <2>4 DEF AcceptApprover, FindMac, AddReads
  <1>2. CASE SyncMac(c)
    <2>1. call[c].after \in CallPC /\ call[c].after # "idle"
      BY <1>2 DEF SyncMac, TypeInv, CallPC
    <2> QED
      BY <1>2, <2>1, GotoMoves DEF SyncMac
  <1>3. CASE Refusal(c)
    <2>1. {"find", "account", "refused"} \subseteq CallPC /\ {"mac-key", "local-shell"} \subseteq Approver
      BY DEF CallPC, Approver
    <2> QED
      BY <1>3, <2>1, GotoMoves, SetApproverMoves DEF Refusal
  <1>4. CASE Verify(c) \/ Token(c) \/ AddWrites(c) \/ Welcome(c)
    <2>1. {"account", "refused", "add", "welcome", "paired"} \subseteq CallPC
      BY DEF CallPC
    <2>2. \E to \in {"account", "refused", "add", "welcome", "paired"} : Goto(c, to)
      BY <1>4 DEF Verify, Token, AddWrites, Welcome
    <2>3. Moves(c) /\ call'[c].pc # "idle"
      BY <2>1, <2>2, GotoMoves
    <2> QED
      BY <1>4, <2>3 DEF Verify, Token, AddWrites, Welcome
  <1> QED
    BY <1>1, <1>2, <1>3, <1>4 DEF Step

(* What is copied is an entry. *)
LEMMA CopiedTyped == ASSUME TypeInv PROVE Copied \subseteq Entry
  BY DEF TypeInv, Copied, Accept

(* The steps outside an accept leave the registry and the copies. *)
LEMMA BookLeaves ==
    ASSUME NEW i \in Pair,
           \/ Begin(i) \/ Open(i) \/ Pending(i) \/ Leaves(i) \/ Expire(i) \/ Decline(i)
           \/ CloseMailbox(i) \/ \E d \in Device : Handshake(i, d)
    PROVE  call' = call /\ registry' = registry /\ crossed' = crossed
  BY DEF Begin, Open, Pending, Leaves, Expire, Decline, CloseMailbox, Handshake, First,
     Third,
     Proof, fileVars

(* An entry is new where an accept writes it, and nowhere else. *)
LEMMA CopiedGrows ==
    ASSUME TypeInv, [Next]_vars
    PROVE  \/ Copied' \subseteq Copied
           \/ \E c \in Call : AddWrites(c) /\ Copied' \subseteq Copied \cup {EntryOf(c)}
  <1>1. CASE call' = call /\ registry' = registry
    BY <1>1 DEF Copied
  <1>2. ASSUME NEW i \in Pair, NEW c \in Call, NEW s \in BOOLEAN, NEW b \in BOOLEAN, AcceptAsked(c, i, s, b)
        PROVE  Copied' \subseteq Copied
    <2>1. registry' = registry /\ \A k \in Call : call'[k].copy \in {call[k].copy, {}}
      BY <1>2, AcceptStarts DEF AcceptAsked, fileVars
    <2> QED
      BY <2>1 DEF Copied
  <1>3. ASSUME DaemonStops PROVE Copied' \subseteq Copied
    BY <1>3, StopEnds DEF Copied, DaemonStops, fileVars
  <1>4. ASSUME NEW c \in Call, Step(c)
        PROVE  \/ Copied' \subseteq Copied
               \/ AddWrites(c) /\ Copied' \subseteq Copied \cup {EntryOf(c)}
    <2>1. \A k \in Call : k # c => call'[k] = call[k]
      BY <1>4, StepMoves DEF Moves
    <2>2. CASE AcceptApprover(c) \/ FindMac(c) \/ AddReads(c)
      <3>1. {"refusal", "verify", "write"} \subseteq CallPC
        BY DEF CallPC
      <3>2. PICK to \in {"refusal", "verify", "write"} : Fetch(c, to)
        BY <2>2 DEF AcceptApprover, FindMac, AddReads
      <3>3. call'[c].copy = registry /\ registry' = registry
        BY <3>1, <3>2, FetchMoves DEF Fetch, fileVars
      <3> QED
        BY <2>1, <3>3 DEF Copied
    <2>3. CASE SyncMac(c)
      <3>1. call[c].after \in CallPC
        BY <2>3 DEF SyncMac, TypeInv, CallPC
      <3>2. call'[c].copy \in {call[c].copy, {}} /\ registry' = call[c].copy
        BY <2>3, <3>1, GotoMoves DEF SyncMac, WritesRegistry
      <3> QED
        BY <2>1, <3>2 DEF Copied
    <2>4. CASE AddWrites(c)
      <3>1. "welcome" \in CallPC
        BY DEF CallPC
      <3>2. call'[c].copy \in {call[c].copy, {}} /\ registry' = call[c].copy \cup {EntryOf(c)}
        BY <2>4, <3>1, GotoMoves DEF AddWrites, WritesRegistry
      <3> QED
        BY <2>1, <2>4, <3>2 DEF Copied
    <2>5. CASE Refusal(c) \/ Verify(c) \/ Token(c) \/ Welcome(c)
      <3>1. {"find", "account", "refused", "add", "paired"} \subseteq CallPC /\ {"mac-key", "local-shell"} \subseteq Approver
        BY DEF CallPC, Approver
      <3>2. \/ \E to \in {"find", "account", "refused", "add", "paired"} : Goto(c, to)
            \/ \E by \in Approver, to \in {"find", "account"} : SetApprover(c, by, to)
        BY <2>5, <3>1 DEF Refusal, Verify, Token, Welcome
      <3>3. call'[c].copy \in {call[c].copy, {}}
        BY <3>1, <3>2, GotoMoves, SetApproverMoves
      <3>4. registry' = registry
        BY <2>5 DEF Refusal, Verify, Token, Welcome, fileVars
      <3> QED
        BY <2>1, <3>3, <3>4 DEF Copied
    <2> QED
      BY <1>4, <2>2, <2>3, <2>4, <2>5 DEF Step
  <1>5. CASE KeyChanges \/ UNCHANGED vars
    BY <1>1, <1>5 DEF KeyChanges, vars, fileVars
  <1> QED
    BY <1>1, <1>2, <1>3, <1>4, <1>5, BookLeaves DEF Next

(* Every step keeps the keys. *)
LEMMA KeysStep ==
    ASSUME TypeInv, KeysInv, [Next]_vars
    PROVE  KeysInv'
  <1>0. HandshakeStays
    BY HandshakeStep
  <1>1. \A i \in Pair :
           /\ phone'[i] # None => phone'[i] = speaker'[i] /\ stage'[i] \in {"done", "dead"}
           /\ phone'[i] = None => state'[i] # "answered" /\ wrong'[i] = 0
    <2> DEFINE Phones == \A i \in Pair :
           /\ phone[i] # None => phone[i] = speaker[i] /\ stage[i] \in {"done", "dead"}
           /\ phone[i] = None => state[i] # "answered" /\ wrong[i] = 0
    <2>0. SUFFICES Phones'
      OBVIOUS
    <2> USE NoneAssumption DEF TypeInv, KeysInv, bookVars, fileVars
    <2>1. ASSUME NEW i \in Pair, Begin(i) PROVE Phones'
      BY <2>1 DEF Begin
    <2>2. ASSUME NEW i \in Pair, Open(i) PROVE Phones'
      BY <2>2 DEF Open
    <2>3. ASSUME NEW i \in Pair, Pending(i) PROVE Phones'
      BY <2>3 DEF Pending
    <2>4. ASSUME NEW i \in Pair, Leaves(i) PROVE Phones'
      BY <2>4 DEF Leaves, Dies
    <2>5. ASSUME NEW i \in Pair, Expire(i) PROVE Phones'
      BY <2>5 DEF Expire, Settle, Tell, Race
    <2>6. ASSUME NEW i \in Pair, Decline(i) PROVE Phones'
      BY <2>6 DEF Decline, Declined, Settle, Tell, Race
    <2>7. ASSUME NEW i \in Pair, CloseMailbox(i) PROVE Phones'
      BY <2>7 DEF CloseMailbox
    <2>8. ASSUME NEW i \in Pair, NEW d \in Device, First(i, d) PROVE Phones'
      BY <2>8 DEF First, Dies
    <2>9. ASSUME NEW i \in Pair, NEW d \in Device, Third(i, d) PROVE Phones'
      BY <2>9 DEF Third, Dies
    <2>10. ASSUME NEW i \in Pair, NEW d \in Device, Proof(i, d) PROVE Phones'
      BY <2>10 DEF Proof, Dies, Answered, Tell
    <2>11. ASSUME NEW i \in Pair, NEW c \in Call, NEW s \in BOOLEAN, NEW b \in BOOLEAN,
               AcceptAsked(c, i, s, b)
         PROVE Phones'
      BY <2>11 DEF AcceptAsked, Race
    <2>12. ASSUME NEW c \in Call, AcceptApprover(c) PROVE Phones'
      BY <2>12 DEF AcceptApprover, Fetch
    <2>13. ASSUME NEW c \in Call, SyncMac(c) PROVE Phones'
      BY <2>13 DEF SyncMac
    <2>14. ASSUME NEW c \in Call, Refusal(c) PROVE Phones'
      <3>1. phone[call[c].pairing] # None /\ call[c].pairing \in Pair
        BY <2>14 DEF Refusal
      <3> QED
        BY <2>14, <3>1 DEF Refusal, Declined, Settle
    <2>15. ASSUME NEW c \in Call, FindMac(c) PROVE Phones'
      BY <2>15 DEF FindMac, Fetch
    <2>16. ASSUME NEW c \in Call, Verify(c) PROVE Phones'
      BY <2>16 DEF Verify
    <2>17. ASSUME NEW c \in Call, Token(c) PROVE Phones'
      BY <2>17 DEF Token
    <2>18. ASSUME NEW c \in Call, AddReads(c) PROVE Phones'
      BY <2>18 DEF AddReads, Fetch
    <2>19. ASSUME NEW c \in Call, AddWrites(c) PROVE Phones'
      BY <2>19 DEF AddWrites
    <2>20. ASSUME NEW c \in Call, Welcome(c) PROVE Phones'
      BY <2>20 DEF Welcome, Settle
    <2>21. ASSUME KeyChanges PROVE Phones'
      BY <2>21 DEF KeyChanges
    <2>22. ASSUME DaemonStops PROVE Phones'
      BY <2>22 DEF DaemonStops
    <2>23. CASE UNCHANGED vars
      BY <2>23 DEF vars
    <2> QED
      BY <2>1, <2>2, <2>3, <2>4, <2>5, <2>6, <2>7, <2>8, <2>9, <2>10, <2>11, <2>12, <2>13,
         <2>14, <2>15, <2>16, <2>17, <2>18, <2>19, <2>20, <2>21, <2>22, <2>23 DEF Next,
         Handshake, Step
  <1>2. \A c \in Call : call[c].pc # "idle" => phone'[call[c].pairing] = phone[call[c].pairing]
    BY <1>0, NoneAssumption DEF KeysInv, TypeInv, HandshakeStays
  <1>3. ASSUME NEW c \in Call, call'[c].pc # "idle"
        PROVE  call'[c].phone = phone'[call'[c].pairing]
    <2>1. CASE call' = call
      BY <1>2, <1>3, <2>1 DEF KeysInv
    <2>2. ASSUME NEW i \in Pair, NEW k \in Call, NEW s \in BOOLEAN, NEW b \in BOOLEAN, AcceptAsked(k, i, s, b)
          PROVE  call'[c].phone = phone'[call'[c].pairing]
      <3>1. phone' = phone
        BY <2>2 DEF AcceptAsked, bookVars
      <3>2. CASE c = k
        BY <2>2, <3>1, <3>2, AcceptStarts
      <3>3. CASE c # k
        <4>1. call'[c] = call[c]
          BY <2>2, <3>3, AcceptStarts
        <4> QED
          BY <1>2, <1>3, <4>1 DEF KeysInv
      <3> QED
        BY <3>2, <3>3
    <2>3. ASSUME NEW k \in Call, Step(k) PROVE call'[c].phone = phone'[call'[c].pairing]
      BY <1>2, <1>3, <2>3, StepMoves DEF KeysInv, Moves
    <2>4. CASE DaemonStops
      BY <1>2, <1>3, <2>4, StopEnds DEF KeysInv
    <2>5. CASE KeyChanges \/ UNCHANGED vars
      BY <2>1, <2>5 DEF KeyChanges, vars
    <2> QED
      BY <2>1, <2>2, <2>3, <2>4, <2>5, BookLeaves DEF Next
  <1>4. \A e \in Copied' : e.device = phone'[e.pairing]
    <2>1. \A e \in Copied : e.device = phone'[e.pairing]
      BY <1>0, NoneAssumption, CopiedTyped DEF KeysInv, HandshakeStays, Entry
    <2>2. ASSUME NEW c \in Call, AddWrites(c)
          PROVE  EntryOf(c).device = phone'[EntryOf(c).pairing]
      BY <1>2, <2>2 DEF AddWrites, EntryOf, KeysInv
    <2> QED
      BY <2>1, <2>2, CopiedGrows
  <1> QED
    BY <1>1, <1>3, <1>4 DEF KeysInv

(* Every step leaves an open pairing its miss and its mailbox. *)
LEMMA OpenStep ==
    ASSUME TypeInv, KeysInv, OpenInv, [Next]_vars
    PROVE  OpenInv'
  <1> USE NoneAssumption, TriesAssumption DEF TypeInv, OpenInv, Live, bookVars, fileVars
  <1>1. ASSUME NEW i \in Pair, Begin(i) PROVE OpenInv'
    BY <1>1 DEF Begin
  <1>2. ASSUME NEW i \in Pair, Open(i) PROVE OpenInv'
    BY <1>2 DEF Open
  <1>3. ASSUME NEW i \in Pair, Pending(i) PROVE OpenInv'
    BY <1>3 DEF Pending
  <1>4. ASSUME NEW i \in Pair, Leaves(i) PROVE OpenInv'
    BY <1>4 DEF Leaves, Dies
  <1>5. ASSUME NEW i \in Pair, Expire(i) PROVE OpenInv'
    BY <1>5 DEF Expire, Settle, Tell, Race
  <1>6. ASSUME NEW i \in Pair, Decline(i) PROVE OpenInv'
    BY <1>6 DEF Decline, Declined, Settle, Tell, Race
  <1>7. ASSUME NEW i \in Pair, CloseMailbox(i) PROVE OpenInv'
    BY <1>7 DEF CloseMailbox
  <1>8. ASSUME NEW i \in Pair, NEW d \in Device, First(i, d) PROVE OpenInv'
    BY <1>8 DEF First, Dies
  <1>9. ASSUME NEW i \in Pair, NEW d \in Device, Third(i, d) PROVE OpenInv'
    BY <1>9 DEF Third, Dies
  <1>10. ASSUME NEW i \in Pair, NEW d \in Device, Proof(i, d) PROVE OpenInv'
    BY <1>10 DEF Proof, Dies, Answered, Tell, KeysInv
  <1>11. ASSUME NEW i \in Pair, NEW c \in Call, NEW s \in BOOLEAN, NEW b \in BOOLEAN,
             AcceptAsked(c, i, s, b)
       PROVE OpenInv'
    BY <1>11 DEF AcceptAsked, Race
  <1>12. ASSUME NEW c \in Call, AcceptApprover(c) PROVE OpenInv'
    BY <1>12 DEF AcceptApprover, Fetch
  <1>13. ASSUME NEW c \in Call, SyncMac(c) PROVE OpenInv'
    BY <1>13 DEF SyncMac
  <1>14. ASSUME NEW c \in Call, Refusal(c) PROVE OpenInv'
    <2>1. call[c].pairing \in Pair
      BY <1>14 DEF Refusal
    <2> QED
      BY <1>14, <2>1 DEF Refusal, Declined, Settle
  <1>15. ASSUME NEW c \in Call, FindMac(c) PROVE OpenInv'
    BY <1>15 DEF FindMac, Fetch
  <1>16. ASSUME NEW c \in Call, Verify(c) PROVE OpenInv'
    BY <1>16 DEF Verify
  <1>17. ASSUME NEW c \in Call, Token(c) PROVE OpenInv'
    BY <1>17 DEF Token
  <1>18. ASSUME NEW c \in Call, AddReads(c) PROVE OpenInv'
    BY <1>18 DEF AddReads, Fetch
  <1>19. ASSUME NEW c \in Call, AddWrites(c) PROVE OpenInv'
    BY <1>19 DEF AddWrites
  <1>20. ASSUME NEW c \in Call, Welcome(c) PROVE OpenInv'
    BY <1>20 DEF Welcome, Settle
  <1>21. ASSUME KeyChanges PROVE OpenInv'
    BY <1>21 DEF KeyChanges
  <1>22. ASSUME DaemonStops PROVE OpenInv'
    BY <1>22 DEF DaemonStops
  <1>23. CASE UNCHANGED vars
    BY <1>23 DEF vars
  <1> QED
    BY <1>1, <1>2, <1>3, <1>4, <1>5, <1>6, <1>7, <1>8, <1>9, <1>10, <1>11, <1>12, <1>13,
       <1>14, <1>15, <1>16, <1>17, <1>18, <1>19, <1>20, <1>21, <1>22, <1>23 DEF Next,
       Handshake, Step

(* What raced stays so, and a step of an accept begins none. *)
LEMMA RacedGrows == ASSUME [Next]_vars PROVE raced \subseteq raced'
  <1> USE DEF bookVars, fileVars
  <1>1. ASSUME NEW i \in Pair, Begin(i) PROVE raced \subseteq raced'
    BY <1>1 DEF Begin
  <1>2. ASSUME NEW i \in Pair, Open(i) PROVE raced \subseteq raced'
    BY <1>2 DEF Open
  <1>3. ASSUME NEW i \in Pair, Pending(i) PROVE raced \subseteq raced'
    BY <1>3 DEF Pending
  <1>4. ASSUME NEW i \in Pair, Leaves(i) PROVE raced \subseteq raced'
    BY <1>4 DEF Leaves, Dies
  <1>5. ASSUME NEW i \in Pair, Expire(i) PROVE raced \subseteq raced'
    BY <1>5 DEF Expire, Settle, Tell, Race
  <1>6. ASSUME NEW i \in Pair, Decline(i) PROVE raced \subseteq raced'
    BY <1>6 DEF Decline, Declined, Settle, Tell, Race
  <1>7. ASSUME NEW i \in Pair, CloseMailbox(i) PROVE raced \subseteq raced'
    BY <1>7 DEF CloseMailbox
  <1>8. ASSUME NEW i \in Pair, NEW d \in Device, First(i, d) PROVE raced \subseteq raced'
    BY <1>8 DEF First, Dies
  <1>9. ASSUME NEW i \in Pair, NEW d \in Device, Third(i, d) PROVE raced \subseteq raced'
    BY <1>9 DEF Third, Dies
  <1>10. ASSUME NEW i \in Pair, NEW d \in Device, Proof(i, d) PROVE raced \subseteq raced'
    BY <1>10 DEF Proof, Dies, Answered, Tell
  <1>11. ASSUME NEW i \in Pair, NEW c \in Call, NEW s \in BOOLEAN, NEW b \in BOOLEAN,
             AcceptAsked(c, i, s, b)
       PROVE raced \subseteq raced'
    BY <1>11 DEF AcceptAsked, Race
  <1>12. ASSUME NEW c \in Call, AcceptApprover(c) PROVE raced \subseteq raced'
    BY <1>12 DEF AcceptApprover, Fetch
  <1>13. ASSUME NEW c \in Call, SyncMac(c) PROVE raced \subseteq raced'
    BY <1>13 DEF SyncMac
  <1>14. ASSUME NEW c \in Call, Refusal(c) PROVE raced \subseteq raced'
    BY <1>14 DEF Refusal
  <1>15. ASSUME NEW c \in Call, FindMac(c) PROVE raced \subseteq raced'
    BY <1>15 DEF FindMac, Fetch
  <1>16. ASSUME NEW c \in Call, Verify(c) PROVE raced \subseteq raced'
    BY <1>16 DEF Verify
  <1>17. ASSUME NEW c \in Call, Token(c) PROVE raced \subseteq raced'
    BY <1>17 DEF Token
  <1>18. ASSUME NEW c \in Call, AddReads(c) PROVE raced \subseteq raced'
    BY <1>18 DEF AddReads, Fetch
  <1>19. ASSUME NEW c \in Call, AddWrites(c) PROVE raced \subseteq raced'
    BY <1>19 DEF AddWrites
  <1>20. ASSUME NEW c \in Call, Welcome(c) PROVE raced \subseteq raced'
    BY <1>20 DEF Welcome
  <1>21. ASSUME KeyChanges PROVE raced \subseteq raced'
    BY <1>21 DEF KeyChanges
  <1>22. ASSUME DaemonStops PROVE raced \subseteq raced'
    BY <1>22 DEF DaemonStops
  <1>23. CASE UNCHANGED vars
    BY <1>23 DEF vars
  <1> QED
    BY <1>1, <1>2, <1>3, <1>4, <1>5, <1>6, <1>7, <1>8, <1>9, <1>10, <1>11, <1>12, <1>13,
       <1>14, <1>15, <1>16, <1>17, <1>18, <1>19, <1>20, <1>21, <1>22, <1>23 DEF Next,
       Handshake, Step

(* No step of an accept puts another in flight. *)
LEMMA FlightsEnd ==
    ASSUME TypeInv, NEW c \in Call, Step(c)
    PROVE  \A k \in Call, i \in Pair : InFlight(k, i)' => InFlight(k, i)
  BY StepMoves DEF Moves, InFlight

(* An accept that nothing races stays alone, and its pairing answered. *)
LEMMA FlightStep ==
    ASSUME TypeInv, KeysInv, FlightInv, [Next]_vars
    PROVE  FlightInv'
  <1>0. raced \subseteq raced'
    BY RacedGrows
  <1> USE <1>0 DEF TypeInv, bookVars, fileVars
  <1>1. ASSUME NEW i \in Pair, Begin(i) PROVE FlightInv'
    <2>1. call' = call
      BY <1>1 DEF Begin
    <2>2. \A j \in Pair \ raced' : state'[j] = state[j] \/ \A k \in Call : ~InFlight(k, j)
      BY <1>1 DEF Begin, FlightInv
    <2> QED
      BY <2>1, <2>2 DEF FlightInv, InFlight
  <1>2. ASSUME NEW i \in Pair, Open(i) PROVE FlightInv'
    <2>1. call' = call
      BY <1>2 DEF Open
    <2>2. \A j \in Pair \ raced' : state'[j] = state[j] \/ \A k \in Call : ~InFlight(k, j)
      BY <1>2 DEF Open, FlightInv
    <2> QED
      BY <2>1, <2>2 DEF FlightInv, InFlight
  <1>3. ASSUME NEW i \in Pair, Pending(i) PROVE FlightInv'
    <2>1. call' = call
      BY <1>3 DEF Pending
    <2>2. \A j \in Pair \ raced' : state'[j] = state[j] \/ \A k \in Call : ~InFlight(k, j)
      BY <1>3 DEF Pending
    <2> QED
      BY <2>1, <2>2 DEF FlightInv, InFlight
  <1>4. ASSUME NEW i \in Pair, Leaves(i) PROVE FlightInv'
    <2>1. call' = call
      BY <1>4 DEF Leaves
    <2>2. \A j \in Pair \ raced' : state'[j] = state[j] \/ \A k \in Call : ~InFlight(k, j)
      BY <1>4 DEF Leaves, Dies
    <2> QED
      BY <2>1, <2>2 DEF FlightInv, InFlight
  <1>5. ASSUME NEW i \in Pair, Expire(i) PROVE FlightInv'
    <2>1. call' = call
      BY <1>5 DEF Expire
    <2>2. \A j \in Pair \ raced' : state'[j] = state[j] \/ \A k \in Call : ~InFlight(k, j)
      BY <1>5 DEF Expire, Settle, Tell, Race
    <2> QED
      BY <2>1, <2>2 DEF FlightInv, InFlight
  <1>6. ASSUME NEW i \in Pair, Decline(i) PROVE FlightInv'
    <2>1. call' = call
      BY <1>6 DEF Decline
    <2>2. \A j \in Pair \ raced' : state'[j] = state[j] \/ \A k \in Call : ~InFlight(k, j)
      BY <1>6 DEF Decline, Declined, Settle, Tell, Race
    <2> QED
      BY <2>1, <2>2 DEF FlightInv, InFlight
  <1>7. ASSUME NEW i \in Pair, CloseMailbox(i) PROVE FlightInv'
    <2>1. call' = call
      BY <1>7 DEF CloseMailbox
    <2>2. \A j \in Pair \ raced' : state'[j] = state[j] \/ \A k \in Call : ~InFlight(k, j)
      BY <1>7 DEF CloseMailbox
    <2> QED
      BY <2>1, <2>2 DEF FlightInv, InFlight
  <1>8. ASSUME NEW i \in Pair, NEW d \in Device, First(i, d) PROVE FlightInv'
    <2>1. call' = call
      BY <1>8 DEF First
    <2>2. \A j \in Pair \ raced' : state'[j] = state[j] \/ \A k \in Call : ~InFlight(k, j)
      BY <1>8 DEF First, Dies
    <2> QED
      BY <2>1, <2>2 DEF FlightInv, InFlight
  <1>9. ASSUME NEW i \in Pair, NEW d \in Device, Third(i, d) PROVE FlightInv'
    <2>1. call' = call
      BY <1>9 DEF Third
    <2>2. \A j \in Pair \ raced' : state'[j] = state[j] \/ \A k \in Call : ~InFlight(k, j)
      BY <1>9 DEF Third, Dies
    <2> QED
      BY <2>1, <2>2 DEF FlightInv, InFlight
  <1>10. ASSUME NEW i \in Pair, NEW d \in Device, Proof(i, d) PROVE FlightInv'
    <2>1. call' = call
      BY <1>10 DEF Proof
    <2>2. \A j \in Pair \ raced' : state'[j] = state[j] \/ \A k \in Call : ~InFlight(k, j)
      BY <1>10 DEF Proof, Dies, Answered, FlightInv
    <2> QED
      BY <2>1, <2>2 DEF FlightInv, InFlight
  <1>11. ASSUME NEW i \in Pair, NEW c \in Call, NEW s \in BOOLEAN, NEW b \in BOOLEAN,
             AcceptAsked(c, i, s, b)
       PROVE FlightInv'
    <2>1. /\ \A k \in Call : k # c => call'[k] = call[k]
          /\ call'[c].pc = "approver" /\ call'[c].pairing = i
      BY <1>11, AcceptStarts
    <2>2. state' = state /\ state[i] = "answered"
      BY <1>11 DEF AcceptAsked
    <2>3. i \notin raced' => \A k \in Call : ~InFlight(k, i)
      BY <1>11 DEF AcceptAsked, Race
    <2>4. \A k \in Call, j \in Pair : InFlight(k, j)' => (k = c /\ j = i) \/ (k # c /\ InFlight(k, j))
      BY <2>1 DEF InFlight
    <2> QED
      BY <2>2, <2>3, <2>4 DEF FlightInv
  <1>12. ASSUME NEW c \in Call, AcceptApprover(c) PROVE FlightInv'
    <2>1. Step(c) /\ state' = state
      BY <1>12 DEF Step, AcceptApprover, Fetch
    <2> QED
      BY <2>1, FlightsEnd DEF FlightInv
  <1>13. ASSUME NEW c \in Call, SyncMac(c) PROVE FlightInv'
    <2>1. Step(c) /\ state' = state
      BY <1>13 DEF Step, SyncMac
    <2> QED
      BY <2>1, FlightsEnd DEF FlightInv
  <1>14. ASSUME NEW c \in Call, Refusal(c) PROVE FlightInv'
    <2>1. Step(c) /\ call[c].pairing \in Pair
      BY <1>14 DEF Step, Refusal
    <2>2. CASE state' = state
      BY <2>1, <2>2, FlightsEnd DEF FlightInv
    <2>3. CASE state' # state
      <3>0. PICK j \in Pair : j = call[c].pairing
        BY <2>1
      <3>1. /\ \A m \in Pair : m # j => state'[m] = state[m]
            /\ Goto(c, "refused")
            /\ j \notin raced' => \A k \in Call \ {c} : ~InFlight(k, j)
        BY <1>14, <2>3, <3>0 DEF Refusal, Declined, Settle
      <3>2. ~InFlight(c, j)'
        <4>1. "refused" \in CallPC
          BY DEF CallPC
        <4> QED
          BY <3>1, <4>1, GotoMoves DEF InFlight
      <3>3. j \notin raced' => \A k \in Call : ~InFlight(k, j)'
        <4>1. \A k \in Call : InFlight(k, j)' => InFlight(k, j)
          BY <2>1, FlightsEnd
        <4> QED
          BY <3>1, <3>2, <4>1
      <3>4. ASSUME NEW m \in Pair \ raced', NEW k \in Call, InFlight(k, m)'
            PROVE  state'[m] = "answered" /\ \A l \in Call : InFlight(l, m)' => l = k
        <4>1. m # j
          BY <3>3, <3>4
        <4>2. \A l \in Call : InFlight(l, m)' => InFlight(l, m)
          BY <2>1, FlightsEnd
        <4>3. InFlight(k, m) /\ m \in Pair \ raced
          BY <3>4, <4>2
        <4>4. state[m] = "answered" /\ \A l \in Call : InFlight(l, m) => l = k
          BY <4>3 DEF FlightInv
        <4> QED
          BY <3>1, <4>1, <4>2, <4>4
      <3> QED
        BY <3>4 DEF FlightInv
    <2> QED
      BY <2>2, <2>3
  <1>15. ASSUME NEW c \in Call, FindMac(c) PROVE FlightInv'
    <2>1. Step(c) /\ state' = state
      BY <1>15 DEF Step, FindMac, Fetch
    <2> QED
      BY <2>1, FlightsEnd DEF FlightInv
  <1>16. ASSUME NEW c \in Call, Verify(c) PROVE FlightInv'
    <2>1. Step(c) /\ state' = state
      BY <1>16 DEF Step, Verify
    <2> QED
      BY <2>1, FlightsEnd DEF FlightInv
  <1>17. ASSUME NEW c \in Call, Token(c) PROVE FlightInv'
    <2>1. Step(c) /\ state' = state
      BY <1>17 DEF Step, Token
    <2> QED
      BY <2>1, FlightsEnd DEF FlightInv
  <1>18. ASSUME NEW c \in Call, AddReads(c) PROVE FlightInv'
    <2>1. Step(c) /\ state' = state
      BY <1>18 DEF Step, AddReads, Fetch
    <2> QED
      BY <2>1, FlightsEnd DEF FlightInv
  <1>19. ASSUME NEW c \in Call, AddWrites(c) PROVE FlightInv'
    <2>1. Step(c) /\ state' = state
      BY <1>19 DEF Step, AddWrites
    <2> QED
      BY <2>1, FlightsEnd DEF FlightInv
  <1>20. ASSUME NEW c \in Call, Welcome(c) PROVE FlightInv'
    <2>0. PICK j \in Pair : j = call[c].pairing
      BY <1>20 DEF Welcome
    <2>1. Step(c) /\ InFlight(c, j)
      BY <1>20, <2>0 DEF Step, Welcome, InFlight
    <2>2. /\ \A m \in Pair : m # j => state'[m] = state[m]
          /\ Goto(c, "paired")
      BY <1>20, <2>0 DEF Welcome, Settle
    <2>3. ~InFlight(c, j)'
      <3>1. "paired" \in CallPC
        BY DEF CallPC
      <3> QED
        BY <2>2, <3>1, GotoMoves DEF InFlight
    <2>4. j \notin raced' => \A k \in Call : ~InFlight(k, j)'
      <3>1. \A k \in Call : InFlight(k, j)' => InFlight(k, j)
        BY <2>1, FlightsEnd
      <3> QED
        BY <2>1, <2>3, <3>1 DEF FlightInv
    <2>5. ASSUME NEW m \in Pair \ raced', NEW k \in Call, InFlight(k, m)'
          PROVE  state'[m] = "answered" /\ \A l \in Call : InFlight(l, m)' => l = k
      <3>1. m # j
        BY <2>4, <2>5
      <3>2. \A l \in Call : InFlight(l, m)' => InFlight(l, m)
        BY <2>1, FlightsEnd
      <3>3. InFlight(k, m) /\ m \in Pair \ raced
        BY <2>5, <3>2
      <3>4. state[m] = "answered" /\ \A l \in Call : InFlight(l, m) => l = k
        BY <3>3 DEF FlightInv
      <3> QED
        BY <2>2, <3>1, <3>2, <3>4
    <2> QED
      BY <2>5 DEF FlightInv
  <1>21. ASSUME KeyChanges PROVE FlightInv'
    BY <1>21 DEF KeyChanges, FlightInv, InFlight
  <1>22. ASSUME DaemonStops PROVE FlightInv'
    BY <1>22, StopEnds DEF FlightInv, InFlight
  <1>23. CASE UNCHANGED vars
    BY <1>23 DEF vars, FlightInv, InFlight
  <1> QED
    BY <1>1, <1>2, <1>3, <1>4, <1>5, <1>6, <1>7, <1>8, <1>9, <1>10, <1>11, <1>12, <1>13,
       <1>14, <1>15, <1>16, <1>17, <1>18, <1>19, <1>20, <1>21, <1>22, <1>23 DEF Next,
       Handshake, Step

(* What an entry says of its pairing outlasts every step but its race. *)
EntryKept ==
    \A i \in Pair \ raced' : \A e \in Copied : e.pairing = i =>
        /\ state'[i] \in {"answered", "paired", "gone"}
        /\ wrong'[i] < DIGIT_TRIES
        /\ mailbox'[i] = "open"
        /\ state'[i] = "answered"
              => \E c \in Call : InFlight(c, i)' /\ call'[c].pc = "welcome"

(* Every step of the specification keeps what an entry says. *)
LEMMA EntryKeptStep ==
    ASSUME TypeInv, FlightInv, EntryInv, [Next]_vars
    PROVE  EntryKept
  <1>0. raced \subseteq raced'
    BY RacedGrows
  <1>00. \A i \in Pair \ raced' : \A e \in Copied : e.pairing = i =>
        /\ state[i] \in {"answered", "paired", "gone"}
        /\ wrong[i] < DIGIT_TRIES
        /\ mailbox[i] = "open"
        /\ state[i] = "answered" => \E c \in Call : InFlight(c, i) /\ call[c].pc = "welcome"
    BY <1>0 DEF EntryInv
  <1> USE <1>0, <1>00 DEF TypeInv, bookVars, fileVars
  <1>1. ASSUME NEW i \in Pair, Begin(i) PROVE EntryKept
    <2>1. call' = call
      BY <1>1 DEF Begin
    <2>2. \A j \in Pair \ raced' : \A e \in Copied : e.pairing = j =>
             state'[j] = state[j] /\ wrong'[j] = wrong[j] /\ mailbox'[j] = mailbox[j]
      BY <1>1 DEF Begin
    <2> QED
      BY <2>1, <2>2 DEF EntryKept, InFlight
  <1>2. ASSUME NEW i \in Pair, Open(i) PROVE EntryKept
    <2>1. call' = call
      BY <1>2 DEF Open
    <2>2. \A j \in Pair \ raced' : \A e \in Copied : e.pairing = j =>
             state'[j] = state[j] /\ wrong'[j] = wrong[j] /\ mailbox'[j] = mailbox[j]
      BY <1>2 DEF Open
    <2> QED
      BY <2>1, <2>2 DEF EntryKept, InFlight
  <1>3. ASSUME NEW i \in Pair, Pending(i) PROVE EntryKept
    <2>1. call' = call
      BY <1>3 DEF Pending
    <2>2. \A j \in Pair \ raced' : \A e \in Copied : e.pairing = j =>
             state'[j] = state[j] /\ wrong'[j] = wrong[j] /\ mailbox'[j] = mailbox[j]
      BY <1>3 DEF Pending
    <2> QED
      BY <2>1, <2>2 DEF EntryKept, InFlight
  <1>4. ASSUME NEW i \in Pair, Leaves(i) PROVE EntryKept
    <2>1. call' = call
      BY <1>4 DEF Leaves
    <2>2. \A j \in Pair \ raced' : \A e \in Copied : e.pairing = j =>
             state'[j] = state[j] /\ wrong'[j] = wrong[j] /\ mailbox'[j] = mailbox[j]
      BY <1>4 DEF Leaves, Dies
    <2> QED
      BY <2>1, <2>2 DEF EntryKept, InFlight
  <1>5. ASSUME NEW i \in Pair, Expire(i) PROVE EntryKept
    <2>1. call' = call
      BY <1>5 DEF Expire
    <2>2. \A j \in Pair \ raced' : \A e \in Copied : e.pairing = j =>
             state'[j] = state[j] /\ wrong'[j] = wrong[j] /\ mailbox'[j] = mailbox[j]
      BY <1>5 DEF Expire, Live, Settle, Race
    <2> QED
      BY <2>1, <2>2 DEF EntryKept, InFlight
  <1>6. ASSUME NEW i \in Pair, Decline(i) PROVE EntryKept
    <2>1. call' = call
      BY <1>6 DEF Decline
    <2>2. \A j \in Pair \ raced' : \A e \in Copied : e.pairing = j =>
             state'[j] = state[j] /\ wrong'[j] = wrong[j] /\ mailbox'[j] = mailbox[j]
      BY <1>6 DEF Decline, Live, Declined, Settle, Race
    <2> QED
      BY <2>1, <2>2 DEF EntryKept, InFlight
  <1>7. ASSUME NEW i \in Pair, CloseMailbox(i) PROVE EntryKept
    <2>1. call' = call
      BY <1>7 DEF CloseMailbox
    <2>2. \A j \in Pair \ raced' : \A e \in Copied : e.pairing = j =>
             state'[j] = state[j] /\ wrong'[j] = wrong[j] /\ mailbox'[j] = mailbox[j]
      BY <1>7 DEF CloseMailbox
    <2> QED
      BY <2>1, <2>2 DEF EntryKept, InFlight
  <1>8. ASSUME NEW i \in Pair, NEW d \in Device, First(i, d) PROVE EntryKept
    <2>1. call' = call
      BY <1>8 DEF First
    <2>2. \A j \in Pair \ raced' : \A e \in Copied : e.pairing = j =>
             state'[j] = state[j] /\ wrong'[j] = wrong[j] /\ mailbox'[j] = mailbox[j]
      BY <1>8 DEF First, Dies
    <2> QED
      BY <2>1, <2>2 DEF EntryKept, InFlight
  <1>9. ASSUME NEW i \in Pair, NEW d \in Device, Third(i, d) PROVE EntryKept
    <2>1. call' = call
      BY <1>9 DEF Third
    <2>2. \A j \in Pair \ raced' : \A e \in Copied : e.pairing = j =>
             state'[j] = state[j] /\ wrong'[j] = wrong[j] /\ mailbox'[j] = mailbox[j]
      BY <1>9 DEF Third, Dies
    <2> QED
      BY <2>1, <2>2 DEF EntryKept, InFlight
  <1>10. ASSUME NEW i \in Pair, NEW d \in Device, Proof(i, d) PROVE EntryKept
    <2>1. call' = call
      BY <1>10 DEF Proof
    <2>2. \A j \in Pair \ raced' : \A e \in Copied : e.pairing = j =>
             state'[j] = state[j] /\ wrong'[j] = wrong[j] /\ mailbox'[j] = mailbox[j]
      BY <1>10 DEF Proof, Dies, Answered
    <2> QED
      BY <2>1, <2>2 DEF EntryKept, InFlight
  <1>11. ASSUME NEW i \in Pair, NEW c \in Call, NEW s \in BOOLEAN, NEW b \in BOOLEAN,
             AcceptAsked(c, i, s, b)
       PROVE EntryKept
    <2>1. \A k \in Call : k # c => call'[k] = call[k]
      BY <1>11, AcceptStarts
    <2>2. state' = state /\ wrong' = wrong /\ mailbox' = mailbox /\ call[c].pc = "idle"
      BY <1>11 DEF AcceptAsked
    <2> QED
      BY <2>1, <2>2 DEF EntryKept, InFlight
  <1>12. ASSUME NEW c \in Call, AcceptApprover(c) PROVE EntryKept
    <2>1. Step(c) /\ state' = state /\ wrong' = wrong /\ mailbox' = mailbox /\ call[c].pc # "welcome"
      BY <1>12 DEF Step, AcceptApprover, Fetch
    <2>2. \A k \in Call : k # c => call'[k] = call[k]
      BY <2>1, StepMoves DEF Moves
    <2> QED
      BY <2>1, <2>2 DEF EntryKept, InFlight
  <1>13. ASSUME NEW c \in Call, SyncMac(c) PROVE EntryKept
    <2>1. Step(c) /\ state' = state /\ wrong' = wrong /\ mailbox' = mailbox /\ call[c].pc # "welcome"
      BY <1>13 DEF Step, SyncMac
    <2>2. \A k \in Call : k # c => call'[k] = call[k]
      BY <2>1, StepMoves DEF Moves
    <2> QED
      BY <2>1, <2>2 DEF EntryKept, InFlight
  <1>14. ASSUME NEW c \in Call, Refusal(c) PROVE EntryKept
    <2> DEFINE j == call[c].pairing
    <2>1. Step(c) /\ j \in Pair /\ InFlight(c, j) /\ call[c].pc = "refusal"
      BY <1>14 DEF Step, Refusal, InFlight
    <2>2. \A k \in Call : k # c => call'[k] = call[k]
      BY <2>1, StepMoves DEF Moves
    <2>3. \A e \in Copied : e.pairing = j => j \in raced'
      BY <2>1 DEF FlightInv
    <2>4. mailbox' = mailbox /\ \A m \in Pair : m # j => state'[m] = state[m] /\ wrong'[m] = wrong[m]
      BY <1>14, <2>1 DEF Refusal, Declined, Settle
    <2> QED
      BY <2>1, <2>2, <2>3, <2>4 DEF EntryKept, InFlight
  <1>15. ASSUME NEW c \in Call, FindMac(c) PROVE EntryKept
    <2>1. Step(c) /\ state' = state /\ wrong' = wrong /\ mailbox' = mailbox /\ call[c].pc # "welcome"
      BY <1>15 DEF Step, FindMac, Fetch
    <2>2. \A k \in Call : k # c => call'[k] = call[k]
      BY <2>1, StepMoves DEF Moves
    <2> QED
      BY <2>1, <2>2 DEF EntryKept, InFlight
  <1>16. ASSUME NEW c \in Call, Verify(c) PROVE EntryKept
    <2>1. Step(c) /\ state' = state /\ wrong' = wrong /\ mailbox' = mailbox /\ call[c].pc # "welcome"
      BY <1>16 DEF Step, Verify
    <2>2. \A k \in Call : k # c => call'[k] = call[k]
      BY <2>1, StepMoves DEF Moves
    <2> QED
      BY <2>1, <2>2 DEF EntryKept, InFlight
  <1>17. ASSUME NEW c \in Call, Token(c) PROVE EntryKept
    <2>1. Step(c) /\ state' = state /\ wrong' = wrong /\ mailbox' = mailbox /\ call[c].pc # "welcome"
      BY <1>17 DEF Step, Token
    <2>2. \A k \in Call : k # c => call'[k] = call[k]
      BY <2>1, StepMoves DEF Moves
    <2> QED
      BY <2>1, <2>2 DEF EntryKept, InFlight
  <1>18. ASSUME NEW c \in Call, AddReads(c) PROVE EntryKept
    <2>1. Step(c) /\ state' = state /\ wrong' = wrong /\ mailbox' = mailbox /\ call[c].pc # "welcome"
      BY <1>18 DEF Step, AddReads, Fetch
    <2>2. \A k \in Call : k # c => call'[k] = call[k]
      BY <2>1, StepMoves DEF Moves
    <2> QED
      BY <2>1, <2>2 DEF EntryKept, InFlight
  <1>19. ASSUME NEW c \in Call, AddWrites(c) PROVE EntryKept
    <2>1. Step(c) /\ state' = state /\ wrong' = wrong /\ mailbox' = mailbox /\ call[c].pc # "welcome"
      BY <1>19 DEF Step, AddWrites
    <2>2. \A k \in Call : k # c => call'[k] = call[k]
      BY <2>1, StepMoves DEF Moves
    <2> QED
      BY <2>1, <2>2 DEF EntryKept, InFlight
  <1>20. ASSUME NEW c \in Call, Welcome(c) PROVE EntryKept
    <2> DEFINE j == call[c].pairing
    <2>1. Step(c) /\ j \in Pair
      BY <1>20 DEF Step, Welcome
    <2>2. \A k \in Call : k # c => call'[k] = call[k]
      BY <2>1, StepMoves DEF Moves
    <2>3. wrong' = wrong /\ mailbox' = mailbox /\ state'[j] = "paired"
          /\ \A m \in Pair : m # j => state'[m] = state[m]
      BY <1>20, <2>1 DEF Welcome, Settle
    <2> QED
      BY <2>1, <2>2, <2>3 DEF EntryKept, InFlight
  <1>21. ASSUME KeyChanges PROVE EntryKept
    BY <1>21 DEF KeyChanges, EntryKept, InFlight
  <1>22. ASSUME DaemonStops PROVE EntryKept
    BY <1>22 DEF DaemonStops, EntryKept
  <1>23. CASE UNCHANGED vars
    BY <1>23 DEF vars, EntryKept, InFlight
  <1> QED
    BY <1>1, <1>2, <1>3, <1>4, <1>5, <1>6, <1>7, <1>8, <1>9, <1>10, <1>11, <1>12, <1>13,
       <1>14, <1>15, <1>16, <1>17, <1>18, <1>19, <1>20, <1>21, <1>22, <1>23 DEF Next,
       Handshake, Step

(* The entry an accept writes is its pairing's only one, unless raced. *)
LEMMA EntryStep ==
    ASSUME TypeInv, KeysInv, OpenInv, FlightInv, EntryInv, [Next]_vars
    PROVE  EntryInv'
  <1>1. EntryKept /\ raced \subseteq raced'
    BY EntryKeptStep, RacedGrows
  <1>2. CASE Copied' \subseteq Copied
    BY <1>1, <1>2 DEF EntryInv, EntryKept
  <1>3. ASSUME NEW c \in Call, AddWrites(c), Copied' \subseteq Copied \cup {EntryOf(c)}
        PROVE  EntryInv'
    <2>0. PICK j \in Pair : j = call[c].pairing
      BY <1>3 DEF AddWrites, TypeInv
    <2>1. /\ InFlight(c, j) /\ call[c].pc = "write" /\ EntryOf(c).pairing = j
          /\ state' = state /\ wrong' = wrong /\ mailbox' = mailbox /\ raced' = raced
      BY <1>3, <2>0 DEF AddWrites, InFlight, TypeInv, EntryOf, bookVars
    <2>2. ASSUME j \notin raced
          PROVE  /\ state[j] = "answered" /\ wrong[j] < DIGIT_TRIES /\ mailbox[j] = "open"
                 /\ \A e \in Copied : e.pairing # j
      BY <2>1, <2>2 DEF FlightInv, EntryInv, OpenInv, Live
    <2>3. InFlight(c, j)' /\ call'[c].pc = "welcome"
      <3>1. "welcome" \in CallPC
        BY DEF CallPC
      <3> QED
        BY <1>3, <2>0, <3>1, GotoMoves DEF AddWrites, Moves, InFlight
    <2>4. ASSUME NEW i \in Pair \ raced', NEW e \in Copied', e.pairing = i
          PROVE  /\ state'[i] \in {"answered", "paired", "gone"}
                 /\ wrong'[i] < DIGIT_TRIES
                 /\ mailbox'[i] = "open"
                 /\ state'[i] = "answered"
                       => \E k \in Call : InFlight(k, i)' /\ call'[k].pc = "welcome"
                 /\ \A f \in Copied' : f.pairing = i => f = e
      <3>1. CASE i = j
        <4>1. \A f \in Copied' : f.pairing = i => f = EntryOf(c)
          BY <1>3, <2>1, <2>2, <3>1
        <4> QED
          BY <2>1, <2>2, <2>3, <2>4, <3>1, <4>1
      <3>2. CASE i # j
        <4>1. \A f \in Copied' : f.pairing = i => f \in Copied
          BY <1>3, <2>1, <3>2
        <4>2. e \in Copied /\ i \in Pair \ raced
          BY <2>1, <2>4, <4>1
        <4> QED
          BY <1>1, <2>4, <4>1, <4>2 DEF EntryInv, EntryKept
      <3> QED
        BY <3>1, <3>2
    <2> QED
      BY <2>4 DEF EntryInv
  <1> QED
    BY <1>2, <1>3, CopiedGrows

(* While no two writers crossed, the registry only grows. *)
LEMMA RegistryGrows ==
    ASSUME TypeInv, [Next]_vars, ~crossed'
    PROVE  ~crossed /\ registry \subseteq registry'
  <1> USE DEF bookVars, fileVars
  <1>1. ASSUME NEW i \in Pair, Begin(i) PROVE ~crossed /\ registry \subseteq registry'
    BY <1>1 DEF Begin
  <1>2. ASSUME NEW i \in Pair, Open(i) PROVE ~crossed /\ registry \subseteq registry'
    BY <1>2 DEF Open
  <1>3. ASSUME NEW i \in Pair, Pending(i) PROVE ~crossed /\ registry \subseteq registry'
    BY <1>3 DEF Pending
  <1>4. ASSUME NEW i \in Pair, Leaves(i) PROVE ~crossed /\ registry \subseteq registry'
    BY <1>4 DEF Leaves, Dies
  <1>5. ASSUME NEW i \in Pair, Expire(i) PROVE ~crossed /\ registry \subseteq registry'
    BY <1>5 DEF Expire, Settle, Tell, Race
  <1>6. ASSUME NEW i \in Pair, Decline(i) PROVE ~crossed /\ registry \subseteq registry'
    BY <1>6 DEF Decline, Declined, Settle, Tell, Race
  <1>7. ASSUME NEW i \in Pair, CloseMailbox(i)
        PROVE  ~crossed /\ registry \subseteq registry'
    BY <1>7 DEF CloseMailbox
  <1>8. ASSUME NEW i \in Pair, NEW d \in Device, First(i, d)
        PROVE  ~crossed /\ registry \subseteq registry'
    BY <1>8 DEF First, Dies
  <1>9. ASSUME NEW i \in Pair, NEW d \in Device, Third(i, d)
        PROVE  ~crossed /\ registry \subseteq registry'
    BY <1>9 DEF Third, Dies
  <1>10. ASSUME NEW i \in Pair, NEW d \in Device, Proof(i, d)
         PROVE  ~crossed /\ registry \subseteq registry'
    BY <1>10 DEF Proof, Dies, Answered, Tell
  <1>11. ASSUME NEW i \in Pair, NEW c \in Call, NEW s \in BOOLEAN, NEW b \in BOOLEAN,
             AcceptAsked(c, i, s, b)
       PROVE ~crossed /\ registry \subseteq registry'
    BY <1>11 DEF AcceptAsked, Race
  <1>12. ASSUME NEW c \in Call, AcceptApprover(c)
         PROVE  ~crossed /\ registry \subseteq registry'
    BY <1>12 DEF AcceptApprover, Fetch
  <1>13. ASSUME NEW c \in Call, SyncMac(c) PROVE ~crossed /\ registry \subseteq registry'
    BY <1>13 DEF SyncMac, WritesRegistry
  <1>14. ASSUME NEW c \in Call, Refusal(c) PROVE ~crossed /\ registry \subseteq registry'
    BY <1>14 DEF Refusal
  <1>15. ASSUME NEW c \in Call, FindMac(c) PROVE ~crossed /\ registry \subseteq registry'
    BY <1>15 DEF FindMac, Fetch
  <1>16. ASSUME NEW c \in Call, Verify(c) PROVE ~crossed /\ registry \subseteq registry'
    BY <1>16 DEF Verify
  <1>17. ASSUME NEW c \in Call, Token(c) PROVE ~crossed /\ registry \subseteq registry'
    BY <1>17 DEF Token
  <1>18. ASSUME NEW c \in Call, AddReads(c) PROVE ~crossed /\ registry \subseteq registry'
    BY <1>18 DEF AddReads, Fetch
  <1>19. ASSUME NEW c \in Call, AddWrites(c)
         PROVE  ~crossed /\ registry \subseteq registry'
    BY <1>19 DEF AddWrites, WritesRegistry
  <1>20. ASSUME NEW c \in Call, Welcome(c) PROVE ~crossed /\ registry \subseteq registry'
    BY <1>20 DEF Welcome
  <1>21. ASSUME KeyChanges PROVE ~crossed /\ registry \subseteq registry'
    BY <1>21 DEF KeyChanges
  <1>22. ASSUME DaemonStops PROVE ~crossed /\ registry \subseteq registry'
    BY <1>22 DEF DaemonStops
  <1>23. CASE UNCHANGED vars
    BY <1>23 DEF vars
  <1> QED
    BY <1>1, <1>2, <1>3, <1>4, <1>5, <1>6, <1>7, <1>8, <1>9, <1>10, <1>11, <1>12, <1>13,
       <1>14, <1>15, <1>16, <1>17, <1>18, <1>19, <1>20, <1>21, <1>22, <1>23 DEF Next,
       Handshake, Step

(* A device that was welcomed is there, unless two writers crossed. *)
LEMMA PairedStep ==
    ASSUME TypeInv, KeysInv, PairedInv, [Next]_vars
    PROVE  PairedInv'
  <1> SUFFICES ASSUME ~crossed'
               PROVE  /\ \A c \in Call : call'[c].pc = "welcome" => EntryOf(c)' \in registry'
                      /\ \A i \in Pair : state'[i] = "paired" => EntriesOf(i)' # {}
    BY DEF PairedInv
  <1>1. ~crossed /\ registry \subseteq registry'
    BY RegistryGrows
  <1>2. ASSUME NEW c \in Call, call'[c].pc = "welcome" PROVE EntryOf(c)' \in registry'
    <2>1. CASE call'[c] = call[c]
      BY <1>1, <1>2, <2>1 DEF PairedInv, EntryOf
    <2>2. CASE AddWrites(c)
      <3>1. "welcome" \in CallPC
        BY DEF CallPC
      <3>2. EntryOf(c)' = EntryOf(c)
        BY <2>2, <3>1, GotoMoves DEF AddWrites, EntryOf, Moves
      <3> QED
        BY <2>2, <3>2 DEF AddWrites, WritesRegistry
    <2>3. ASSUME NEW k \in Call, Step(k) PROVE call'[c] = call[c] \/ AddWrites(c)
      <3>1. CASE k # c
        BY <2>3, <3>1, StepMoves DEF Moves
      <3>2. CASE k = c
        <4>1. CASE AcceptApprover(c) \/ FindMac(c) \/ AddReads(c)
          <5>1. {"refusal", "verify", "write"} \subseteq CallPC
            BY DEF CallPC
          <5>2. \E to \in {"refusal", "verify", "write"} : Fetch(c, to)
            BY <4>1 DEF AcceptApprover, FindMac, AddReads
          <5>3. call'[c].pc # "welcome"
            BY <5>1, <5>2, FetchMoves
          <5> QED
            BY <1>2, <5>3
        <4>2. CASE SyncMac(c)
          <5>1. call[c].after \in CallPC /\ call[c].after # "welcome"
            BY <4>2 DEF SyncMac, TypeInv, CallPC
          <5> QED
            BY <1>2, <4>2, <5>1, GotoMoves DEF SyncMac
        <4>3. CASE Refusal(c) \/ Verify(c) \/ Token(c) \/ Welcome(c)
          <5>1. {"find", "account", "refused", "add", "paired"} \subseteq CallPC
                /\ {"mac-key", "local-shell"} \subseteq Approver
            BY DEF CallPC, Approver
          <5>2. \/ \E to \in {"find", "account", "refused", "add", "paired"} : Goto(c, to)
                \/ \E by \in Approver, to \in {"find", "account"} : SetApprover(c, by, to)
            BY <4>3, <5>1 DEF Refusal, Verify, Token, Welcome
          <5>3. call'[c].pc # "welcome"
            BY <5>1, <5>2, GotoMoves, SetApproverMoves
          <5> QED
            BY <1>2, <5>3
        <4> QED
          BY <2>3, <3>2, <4>1, <4>2, <4>3 DEF Step
      <3> QED
        BY <3>1, <3>2
    <2>4. ASSUME NEW i \in Pair, NEW k \in Call, NEW s \in BOOLEAN, NEW b \in BOOLEAN, AcceptAsked(k, i, s, b)
          PROVE  call'[c] = call[c]
      BY <1>2, <2>4, AcceptStarts
    <2>5. ~DaemonStops
      BY <1>2, StopEnds
    <2>6. CASE KeyChanges \/ UNCHANGED vars
      BY <2>1, <2>6 DEF KeyChanges, vars
    <2> QED
      BY <2>1, <2>2, <2>3, <2>4, <2>5, <2>6, BookLeaves DEF Next
  <1>3. ASSUME NEW i \in Pair, state'[i] = "paired" PROVE EntriesOf(i)' # {}
    <2>1. CASE state[i] = "paired"
      BY <1>1, <2>1 DEF PairedInv, EntriesOf
    <2>2. ASSUME NEW c \in Call, Welcome(c), call[c].pairing = i PROVE EntriesOf(i)' # {}
      <3>1. EntryOf(c) \in registry /\ EntryOf(c).pairing = i
        BY <1>1, <2>2 DEF PairedInv, Welcome, EntryOf
      <3> QED
        BY <1>1, <3>1 DEF EntriesOf
    <2> DEFINE Was == state[i] = "paired" \/ \E c \in Call : Welcome(c) /\ call[c].pairing = i
    <2>3. Was
      <3> USE <1>3 DEF TypeInv, bookVars, fileVars
      <3>1. ASSUME NEW j \in Pair, Begin(j) PROVE Was
        BY <3>1 DEF Begin
      <3>2. ASSUME NEW j \in Pair, Open(j) PROVE Was
        BY <3>2 DEF Open
      <3>3. ASSUME NEW j \in Pair, Pending(j) PROVE Was
        BY <3>3 DEF Pending
      <3>4. ASSUME NEW j \in Pair, Leaves(j) PROVE Was
        BY <3>4 DEF Leaves, Dies
      <3>5. ASSUME NEW j \in Pair, Expire(j) PROVE Was
        BY <3>5 DEF Expire, Settle, Tell, Race
      <3>6. ASSUME NEW j \in Pair, Decline(j) PROVE Was
        BY <3>6 DEF Decline, Declined, Settle, Tell, Race
      <3>7. ASSUME NEW j \in Pair, CloseMailbox(j) PROVE Was
        BY <3>7 DEF CloseMailbox
      <3>8. ASSUME NEW j \in Pair, NEW d \in Device, First(j, d) PROVE Was
        BY <3>8 DEF First, Dies
      <3>9. ASSUME NEW j \in Pair, NEW d \in Device, Third(j, d) PROVE Was
        BY <3>9 DEF Third, Dies
      <3>10. ASSUME NEW j \in Pair, NEW d \in Device, Proof(j, d) PROVE Was
        BY <3>10 DEF Proof, Dies, Answered, Tell
      <3>11. ASSUME NEW j \in Pair, NEW c \in Call, NEW s \in BOOLEAN, NEW b \in BOOLEAN,
                 AcceptAsked(c, j, s, b)
           PROVE Was
        BY <3>11 DEF AcceptAsked, Race
      <3>12. ASSUME NEW c \in Call, AcceptApprover(c) PROVE Was
        BY <3>12 DEF AcceptApprover, Fetch
      <3>13. ASSUME NEW c \in Call, SyncMac(c) PROVE Was
        BY <3>13 DEF SyncMac
      <3>14. ASSUME NEW c \in Call, Refusal(c) PROVE Was
        <4>1. call[c].pairing \in Pair
          BY <3>14 DEF Refusal
        <4> QED
          BY <3>14, <4>1 DEF Refusal, Declined, Settle
      <3>15. ASSUME NEW c \in Call, FindMac(c) PROVE Was
        BY <3>15 DEF FindMac, Fetch
      <3>16. ASSUME NEW c \in Call, Verify(c) PROVE Was
        BY <3>16 DEF Verify
      <3>17. ASSUME NEW c \in Call, Token(c) PROVE Was
        BY <3>17 DEF Token
      <3>18. ASSUME NEW c \in Call, AddReads(c) PROVE Was
        BY <3>18 DEF AddReads, Fetch
      <3>19. ASSUME NEW c \in Call, AddWrites(c) PROVE Was
        BY <3>19 DEF AddWrites
      <3>20. ASSUME NEW c \in Call, Welcome(c) PROVE Was
        <4>1. call[c].pairing \in Pair
          BY <3>20 DEF Welcome
        <4>2. state'[i] = state[i] \/ call[c].pairing = i
          BY <3>20, <4>1 DEF Welcome, Settle
        <4> QED
          BY <3>20, <4>2
      <3>21. ASSUME KeyChanges PROVE Was
        BY <3>21 DEF KeyChanges
      <3>22. ASSUME DaemonStops PROVE Was
        BY <3>22 DEF DaemonStops
      <3>23. CASE UNCHANGED vars
        BY <3>23 DEF vars
      <3> QED
        BY <3>1, <3>2, <3>3, <3>4, <3>5, <3>6, <3>7, <3>8, <3>9, <3>10, <3>11, <3>12,
           <3>13, <3>14, <3>15, <3>16, <3>17, <3>18, <3>19, <3>20, <3>21, <3>22, <3>23 DEF
           Next, Handshake, Step
    <2> QED
      BY <2>1, <2>2, <2>3
  <1> QED
    BY <1>2, <1>3

-----------------------------------------------------------------------------
(* No pairing has begun at the start. *)
LEMMA InitHolds == Init => PairInv
  <1> SUFFICES ASSUME Init PROVE PairInv
    OBVIOUS
  <1>1. NoAccept \in Accept /\ NoAccept.pc = "idle" /\ NoAccept.copy = {}
    BY DEF NoAccept, Accept, CallPC
  <1>2. call \in [Call -> Accept] /\ \A c \in Call : call[c].pc = "idle" /\ call[c].copy = {}
    BY <1>1 DEF Init
  <1>3. TypeInv
    <2>1. state \in [Pair -> State] /\ heard \in [Pair -> State] /\ stage \in [Pair -> Stage]
      BY DEF Init, State, Stage
    <2>2. /\ speaker \in [Pair -> Device \cup {None}] /\ phone \in [Pair -> Device \cup {None}]
          /\ wrong \in [Pair -> Nat] /\ mailbox \in [Pair -> {"none", "open", "closed"}]
      BY DEF Init
    <2>3. faults \in 0 .. MaxFaults /\ watched \subseteq Pair /\ registry \subseteq Entry
          /\ raced \subseteq Pair
      BY FaultsAssumption DEF Init
    <2>4. macKey \in BOOLEAN /\ lined \in BOOLEAN /\ crossed \in BOOLEAN
      BY DEF Init
    <2> QED
      BY <1>2, <2>1, <2>2, <2>3, <2>4 DEF TypeInv
  <1>4. Copied = {} /\ registry = {}
    BY <1>2 DEF Copied, Init
  <1>5. KeysInv
    BY <1>2, <1>4 DEF Init, KeysInv
  <1>6. EndInv
    BY <1>2, <1>4 DEF Init, EndInv, OpenInv, FlightInv, EntryInv, PairedInv, Live,
       InFlight
  <1> QED
    BY <1>3, <1>5, <1>6 DEF PairInv

(* Every step keeps the invariant. *)
LEMMA StepHolds == PairInv /\ [Next]_vars => PairInv'
  BY TypeStep, KeysStep, OpenStep, FlightStep, EntryStep, PairedStep DEF PairInv, EndInv

(* The invariant holds of every state. *)
THEOREM PairingInvariant == Spec => []PairInv
  <1>1. Init => PairInv
    BY InitHolds
  <1>2. PairInv /\ [Next]_vars => PairInv'
    BY StepHolds
  <1> QED
    BY <1>1, <1>2, PTL DEF Spec

(* For any number of pairings, devices and accepts, a device is registered   *)
(* under the keys it proved in its pairing's one handshake (pairing.ts),     *)
(* though the accept was suspended while others were handled.                *)
THEOREM OnlyProvedKeysRegister == Spec => []RegisteredProvedItsKeys
  <1>1. PairInv => RegisteredProvedItsKeys
    <2> SUFFICES ASSUME PairInv, NEW e \in registry PROVE e.device = speaker[e.pairing]
      BY DEF RegisteredProvedItsKeys
    <2>1. e \in Copied /\ e \in Entry
      BY DEF Copied, PairInv, TypeInv
    <2>2. e.device \in Device /\ e.pairing \in Pair /\ e.device = phone[e.pairing]
      BY <2>1 DEF Entry, PairInv, KeysInv
    <2> QED
      BY <2>2, NoneAssumption DEF PairInv, KeysInv
  <1> QED
    BY <1>1, PairingInvariant, PTL

(* For any number of them, a pairing nothing raced has one end (accept,      *)
(* decline, the expiry and the last miss of the digits).                     *)
THEOREM EachPairingOneEnd == Spec => []OneEnd
  <1>1. PairInv => OneEnd
    <2> SUFFICES ASSUME PairInv, NEW i \in Pair \ raced
                 PROVE  /\ Cardinality(EntriesOf(i)) <= 1
                        /\ EntriesOf(i) # {} => /\ state[i] \in {"answered", "paired", "gone"}
                                                /\ wrong[i] < DIGIT_TRIES
                                                /\ mailbox[i] = "open"
                        /\ state[i] = "paired" /\ ~crossed => EntriesOf(i) # {}
      BY DEF OneEnd
    <2>1. EntryInv /\ PairedInv
      BY DEF PairInv, EndInv
    <2>2. \A e \in EntriesOf(i) : e \in Copied /\ e.pairing = i
      BY DEF EntriesOf, Copied
    <2>3. \A e, f \in EntriesOf(i) : e = f
      BY <2>1, <2>2 DEF EntryInv
    <2>4. Cardinality(EntriesOf(i)) <= 1
      <3>1. CASE EntriesOf(i) = {}
        BY <3>1, FS_EmptySet
      <3>2. CASE EntriesOf(i) # {}
        <4>1. PICK e \in EntriesOf(i) : TRUE
          BY <3>2
        <4>2. EntriesOf(i) = {e}
          BY <2>3
        <4> QED
          BY <4>2, FS_Singleton
      <3> QED
        BY <3>1, <3>2
    <2> QED
      BY <2>1, <2>2, <2>4 DEF EntryInv, PairedInv
  <1> QED
    BY <1>1, PairingInvariant, PTL
=============================================================================
