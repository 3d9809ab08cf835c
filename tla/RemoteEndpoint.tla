--------------------------- MODULE RemoteEndpoint ---------------------------
(***************************************************************************)
(* Where a paired phone's tunnel ends (cli/src/remote/endpoint.ts): the    *)
(* device registry, the phone's session, its requests and the capability   *)
(* check each one passes, its drive of the Mac (drive.ts) and its hold on  *)
(* the voice (VoiceHold).                                                  *)
(*                                                                         *)
(* The registry is one file, read and written whole without a lock by the  *)
(* Changes an owner makes at the Mac and, when the Mac's own key changed,  *)
(* by any reader that brings its entry in line (Devices.all).  A Request   *)
(* reads the registry, and then acts on what it read, in one go up to its  *)
(* next await; the phone may have been revoked and its session closed in   *)
(* between.  Every phone has its own mailbox, hence one session.           *)
(***************************************************************************)
EXTENDS VoiceHold

CONSTANTS
    Request,     \* remote requests
    Changing,    \* changes of the registry asked for at the Mac
    MaxDrops     \* bound: sessions lost or closed by the phone

ASSUME DropAssumption == MaxDrops \in Nat

(* DeviceRecord: mac is the one capability a phone here may lack; what it   *)
(* takes to ask, to subscribe and to let the voice go is never taken.       *)
Entry == [revoked : BOOLEAN, mac : BOOLEAN]
Registry == [Phone -> Entry]
Method == {"subscribe", "ask", "drive", "undrive", "release"}
Change == {"revoke", "grant", "ungrant"}

VARIABLES
    registry,    \* devices.json
    keyChanged,  \* the Mac's entry there is not in line with its key
    open,        \* the phones whose session is open
    shaking,     \* per phone: its handshake's place and copy
    stream,      \* the phones whose session the voice surface streams to
    drives,      \* DriveGrants: per phone "none", "live" or "over"
    request,     \* per request: its phone, method, place and copy
    change,      \* per change: its phone, kind, place and copy
    gone,        \* history: the phones whose revoke was answered
    crossed,     \* history: the registry was written from an older copy
    spoken,      \* history: the person spoke to the Mac and used no phone since
    drops

endpointVars == <<registry, keyChanged, open, shaking, stream, drives, request,
                  change, gone, crossed, spoken, drops>>
vars == <<holdVars, endpointVars>>

RequestPC == {"idle", "find", "sync", "act", "asking", "done"}
ChangePC == {"idle", "read", "sync", "write", "after", "done"}

TypeOK ==
    /\ HoldTypeOK
    /\ registry \in Registry
    /\ keyChanged \in BOOLEAN
    /\ open \in SUBSET Phone
    /\ shaking \in [Phone -> [pc : {"idle", "sync", "proved"}, copy : Registry \cup {None}]]
    /\ stream \in SUBSET Phone
    /\ drives \in [Phone -> Span]
    /\ request \in [Request -> [phone : Phone \cup {None}, method : Method \cup {None},
                                pc : RequestPC, copy : Registry \cup {None},
                                late : BOOLEAN]]
    /\ change \in [Changing -> [phone : Phone \cup {None}, kind : Change \cup {None},
                                pc : ChangePC, copy : Registry \cup {None}]]
    /\ gone \in SUBSET Phone
    /\ crossed \in BOOLEAN /\ spoken \in BOOLEAN
    /\ drops \in 0 .. MaxDrops

(* The key may have changed while a phone was connected. *)
Init ==
    /\ HoldInit
    /\ registry \in [Phone -> [revoked : {FALSE}, mac : BOOLEAN]]
    /\ keyChanged \in BOOLEAN
    /\ open \in SUBSET Phone
    /\ stream = {} /\ gone = {}
    /\ shaking = [p \in Phone |-> [pc |-> "idle", copy |-> None]]
    /\ drives = [p \in Phone |-> "none"]
    /\ request = [q \in Request |-> [phone |-> None, method |-> None, pc |-> "idle",
                                     copy |-> None, late |-> FALSE]]
    /\ change = [c \in Changing |-> [phone |-> None, kind |-> None, pc |-> "idle",
                                     copy |-> None]]
    /\ crossed = FALSE /\ spoken = FALSE
    /\ drops = 0

RequestEnds(q) == request' = [request EXCEPT ![q].pc = "done", ![q].copy = None]
ChangeEnds(c) == change' = [change EXCEPT ![c].pc = "done", ![c].copy = None]

(***************************************************************************)
(* DriveGrants and the voice surface, as the endpoint drives them.         *)
(***************************************************************************)
(* DriveGrants.stop, which tells the hold; nothing where it did not drive. *)
DriveStops(p) ==
    IF drives[p] = "none" THEN UNCHANGED <<drives, holdVars>>
    ELSE drives' = [drives EXCEPT ![p] = "none"] /\ HoldUndriven(p)

(* sessionClosed: the drive stops, then voice.drop ends the stream.  Both   *)
(* settle the hold; what stands is the hold after the second.               *)
HoldClosed(p) ==
    LET undriven == [phones EXCEPT ![p].driving = "none"]
        ended(acts) == [acts EXCEPT ![p].subscribed = @ - 1, ![p].grace = "live"]
        drove == Known(p) /\ drives[p] # "none"
        streamed == Known(p) /\ p \in stream /\ phones[p].subscribed > 0
    IN  CASE drove /\ streamed -> Settled(ended(undriven), recent)
          [] drove /\ ~streamed -> Settled(undriven, recent)
          [] ~drove /\ streamed -> Settled(ended(phones), recent)
          [] OTHER -> UNCHANGED holdVars

(* RemoteSession.end on an open session; destroy tells the phone first. *)
Closes(p) ==
    /\ open' = open \ {p}
    /\ IF p \in open
       THEN /\ drives' = [drives EXCEPT ![p] = "none"]
            /\ stream' = stream \ {p}
            /\ HoldClosed(p)
       ELSE UNCHANGED <<drives, stream, holdVars>>

(* Devices.all brings the Mac's entry in line by writing back what it read. *)
WritesBack(copy) ==
    /\ registry' = copy
    /\ keyChanged' = FALSE
    /\ crossed' = (crossed \/ registry # copy)

(***************************************************************************)
(* The phone's session.                                                    *)
(***************************************************************************)
(* RemoteSession.handshake: the registry says which live device the key     *)
(* belongs to; then the channel opens.                                      *)
(* An hourly one on an open session changes nothing here.                   *)
HandshakeReads(p) ==
    /\ shaking[p].pc = "idle" /\ p \notin open
    /\ keyChanged \/ ~registry[p].revoked
    /\ shaking' = [shaking EXCEPT ![p] =
          [pc |-> IF keyChanged THEN "sync" ELSE "proved",
           copy |-> IF keyChanged THEN registry ELSE None]]
    /\ UNCHANGED <<holdVars, registry, keyChanged, open, stream, drives, request,
                   change, gone, crossed, spoken, drops>>

HandshakeSync(p) ==
    /\ shaking[p].pc = "sync"
    /\ WritesBack(shaking[p].copy)
    /\ shaking' = [shaking EXCEPT ![p] = [copy |-> None,
          pc |-> IF shaking[p].copy[p].revoked THEN "idle" ELSE "proved"]]
    /\ UNCHANGED <<holdVars, open, stream, drives, request, change, gone, spoken, drops>>

HandshakeOpens(p) ==
    /\ shaking[p].pc = "proved"
    /\ shaking' = [shaking EXCEPT ![p] = [pc |-> "idle", copy |-> None]]
    /\ open' = open \cup {p}
    /\ UNCHANGED <<holdVars, registry, keyChanged, stream, drives, request,
                   change, gone, crossed, spoken, drops>>

(* The phone closes it, it went quiet (endSilent), or the relay dropped. *)
SessionDrops(p) ==
    /\ p \in open /\ drops < MaxDrops
    /\ drops' = drops + 1
    /\ Closes(p)
    /\ UNCHANGED <<registry, keyChanged, shaking, request, change, gone, crossed, spoken>>

(***************************************************************************)
(* A remote request.                                                       *)
(***************************************************************************)
(* A transport frame decoded on an open session; dispatch is not awaited. *)
Dispatch(q, p, m) ==
    /\ request[q].pc = "idle" /\ p \in open
    /\ request' = [request EXCEPT ![q] = [phone |-> p, method |-> m, pc |-> "find",
                                          copy |-> None, late |-> p \in gone]]
    /\ UNCHANGED <<holdVars, registry, keyChanged, open, shaking, stream, drives,
                   change, gone, crossed, spoken, drops>>

(* Devices.all: the file is read, and written back where the Mac's entry is *)
(* out of line with its key.                                                *)
Find(q) ==
    /\ request[q].pc = "find"
    /\ request' = [request EXCEPT ![q].copy = registry,
                                  ![q].pc = IF keyChanged THEN "sync" ELSE "act"]
    /\ UNCHANGED <<holdVars, registry, keyChanged, open, shaking, stream, drives,
                   change, gone, crossed, spoken, drops>>

SyncMac(q) ==
    /\ request[q].pc = "sync"
    /\ WritesBack(request[q].copy)
    /\ request' = [request EXCEPT ![q].pc = "act"]
    /\ UNCHANGED <<holdVars, open, shaking, stream, drives, change, gone, spoken, drops>>

Read(q) == request[q].copy[request[q].phone]

(* Mutant: what the handshake proved is believed. *)
MayAsProved(q, m) == request[q].pc = "act" /\ request[q].method = m

May(q, m) == request[q].pc = "act" /\ request[q].method = m /\ ~Read(q).revoked

(* A device revoked since: its session goes. *)
DispatchRevoked(q) ==
    /\ request[q].pc = "act" /\ Read(q).revoked
    /\ Closes(request[q].phone)
    /\ RequestEnds(q)
    /\ UNCHANGED <<registry, keyChanged, shaking, change, gone, crossed, spoken, drops>>

(* drive: until is signed and in time, the device holds mac, or refused;    *)
(* with no until the grant ends.                                            *)
DispatchDrive(q) ==
    /\ May(q, "drive")
    /\ \/ /\ Read(q).mac
          /\ drives' = [drives EXCEPT ![request[q].phone] = "live"]
          /\ HoldDriven(request[q].phone)
          /\ spoken' = FALSE
       \/ UNCHANGED <<drives, holdVars, spoken>>
    /\ RequestEnds(q)
    /\ UNCHANGED <<registry, keyChanged, open, shaking, stream, change, gone,
                   crossed, drops>>

DispatchUndrive(q) ==
    /\ May(q, "undrive")
    /\ IF Read(q).mac THEN DriveStops(request[q].phone) ELSE UNCHANGED <<drives, holdVars>>
    /\ RequestEnds(q)
    /\ UNCHANGED <<registry, keyChanged, open, shaking, stream, change, gone, crossed, spoken, drops>>

DispatchRelease(q) ==
    /\ May(q, "release")
    /\ HoldReleased(request[q].phone)
    /\ RequestEnds(q)
    /\ UNCHANGED <<registry, keyChanged, open, shaking, stream, drives, change,
                   gone, crossed, spoken, drops>>

(* Its app was opened, rather than its stream renewed within the grace. *)
OpenedAfresh(p) == p \notin stream /\ (Known(p) => phones[p].grace # "live")

(* VoiceSurface.subscribe: a stream to the session, renewed where one is. *)
DispatchSubscribe(q) ==
    /\ May(q, "subscribe")
    /\ stream' = stream \cup {request[q].phone}
    /\ IF request[q].phone \in stream THEN HoldRenewed(request[q].phone)
       ELSE HoldSubscribed(request[q].phone)
    /\ spoken' = (spoken /\ ~OpenedAfresh(request[q].phone))
    /\ RequestEnds(q)
    /\ UNCHANGED <<registry, keyChanged, open, shaking, drives, change, gone,
                   crossed, drops>>

(* VoiceSurface.ask: the phone's question is in flight until its answer has *)
(* streamed or failed.                                                      *)
DispatchAsk(q) ==
    /\ May(q, "ask")
    /\ HoldBegan(request[q].phone)
    /\ spoken' = FALSE
    /\ request' = [request EXCEPT ![q].pc = "asking", ![q].copy = None]
    /\ UNCHANGED <<registry, keyChanged, open, shaking, stream, drives, change,
                   gone, crossed, drops>>

AskEnds(q) ==
    /\ request[q].pc = "asking"
    /\ HoldEnded(request[q].phone)
    /\ RequestEnds(q)
    /\ UNCHANGED <<registry, keyChanged, open, shaking, stream, drives, change,
                   gone, crossed, spoken, drops>>

(***************************************************************************)
(* Changes at the Mac.                                                     *)
(***************************************************************************)
ChangeAsked(c, p, k) ==
    /\ change[c].pc = "idle"
    /\ change' = [change EXCEPT ![c] = [phone |-> p, kind |-> k, pc |-> "read", copy |-> None]]
    /\ UNCHANGED <<holdVars, registry, keyChanged, open, shaking, stream, drives,
                   request, gone, crossed, spoken, drops>>

(* Devices.revoke, grant and ungrant read all, and a grant of a device      *)
(* revoked or that holds it already writes nothing.                         *)
ChangeRead(c) ==
    /\ change[c].pc = "read"
    /\ change' = [change EXCEPT ![c].copy = registry,
                                ![c].pc = IF keyChanged THEN "sync" ELSE "write"]
    /\ UNCHANGED <<holdVars, registry, keyChanged, open, shaking, stream, drives,
                   request, gone, crossed, spoken, drops>>

ChangeSync(c) ==
    /\ change[c].pc = "sync"
    /\ WritesBack(change[c].copy)
    /\ change' = [change EXCEPT ![c].pc = "write"]
    /\ UNCHANGED <<holdVars, open, shaking, stream, drives, request, gone, spoken, drops>>

Changed(entry, kind) ==
    CASE kind = "revoke" -> [entry EXCEPT !.revoked = TRUE]
      [] kind = "grant" -> [entry EXCEPT !.mac = TRUE]
      [] OTHER -> [entry EXCEPT !.mac = FALSE]

ChangeWrite(c) ==
    /\ change[c].pc = "write"
    /\ LET p == change[c].phone
           found == change[c].copy[p]
       IN  IF change[c].kind = "grant" /\ (found.revoked \/ found.mac)
           THEN /\ ChangeEnds(c)
                /\ UNCHANGED <<registry, keyChanged, crossed>>
           ELSE /\ registry' = [change[c].copy EXCEPT ![p] = Changed(found, change[c].kind)]
                /\ crossed' = (crossed \/ registry # change[c].copy)
                /\ change' = [change EXCEPT ![c].pc = "after", ![c].copy = None]
                /\ UNCHANGED keyChanged
    /\ UNCHANGED <<holdVars, open, shaking, stream, drives, request, gone, spoken, drops>>

(* What the endpoint does once the registry has it: a revoke closes the     *)
(* session, ends the drive and has the hold forget the phone; an ungrant    *)
(* ends the drive.                                                          *)
ChangeAfter(c) ==
    /\ change[c].pc = "after"
    /\ LET p == change[c].phone
       IN  CASE change[c].kind = "revoke" ->
                    /\ open' = open \ {p}
                    /\ stream' = IF p \in open THEN stream \ {p} ELSE stream
                    /\ drives' = [drives EXCEPT ![p] = "none"]
                    /\ HoldForget(p)
                    /\ gone' = gone \cup {p}
             [] change[c].kind = "ungrant" ->
                    /\ DriveStops(p)
                    /\ UNCHANGED <<open, stream, gone>>
             [] OTHER -> UNCHANGED <<open, stream, drives, gone, holdVars>>
    /\ ChangeEnds(c)
    /\ UNCHANGED <<registry, keyChanged, shaking, request, crossed, spoken, drops>>

(***************************************************************************)
(* The Mac and the clock.                                                  *)
(***************************************************************************)
(* The person asks at the Mac. *)
MacAsks ==
    /\ \E p \in Phone : Known(p) /\ ~phones[p].yielded
    /\ HoldMacTookBack
    /\ spoken' = TRUE
    /\ UNCHANGED <<registry, keyChanged, open, shaking, stream, drives, request,
                   change, gone, crossed, drops>>

(* A drive's end passes; its timer stops it. *)
DrivePasses(p) ==
    /\ drives[p] = "live"
    /\ drives' = [drives EXCEPT ![p] = "over"]
    /\ HoldDrivePasses(p)
    /\ UNCHANGED <<registry, keyChanged, open, shaking, stream, request, change,
                   gone, crossed, spoken, drops>>

DriveTimer(p) ==
    /\ drives[p] = "over"
    /\ DriveStops(p)
    /\ UNCHANGED <<registry, keyChanged, open, shaking, stream, request, change,
                   gone, crossed, spoken, drops>>

Time(p) == GracePasses(p) /\ UNCHANGED endpointVars
Settles == HoldTimer /\ UNCHANGED endpointVars

Step(q) ==
    \/ Find(q) \/ SyncMac(q) \/ DispatchRevoked(q) \/ DispatchDrive(q)
    \/ DispatchUndrive(q) \/ DispatchRelease(q) \/ DispatchSubscribe(q)
    \/ DispatchAsk(q) \/ AskEnds(q)

ChangeStep(c) == ChangeRead(c) \/ ChangeSync(c) \/ ChangeWrite(c) \/ ChangeAfter(c)

Next ==
    \/ \E p \in Phone :
          \/ HandshakeReads(p) \/ HandshakeSync(p) \/ HandshakeOpens(p) \/ SessionDrops(p)
          \/ DrivePasses(p) \/ DriveTimer(p) \/ Time(p)
          \/ \E q \in Request, m \in Method : Dispatch(q, p, m)
          \/ \E c \in Changing, k \in Change : ChangeAsked(c, p, k)
    \/ \E q \in Request : Step(q)
    \/ \E c \in Changing : ChangeStep(c)
    \/ MacAsks
    \/ Settles

Spec == Init /\ [][Next]_vars

(***************************************************************************)
(* Properties.                                                             *)
(***************************************************************************)
(* A request that arrives once a revoke was answered is let in to nothing,  *)
(* whatever handshake was on its way when the session closed: unless two    *)
(* writers of the registry crossed, and one put back what it had read.      *)
RevokedActsNoMore ==
    \A q \in Request, m \in Method :
        request[q].late /\ ~crossed => ~May(q, m) /\ request[q].pc # "asking"

(* What the hold counts of a phone is what is there: one stream where the   *)
(* voice surface streams to it, and one question for each in flight.  A     *)
(* count too high would keep the voice off the Mac for good.                *)
HoldCountsAreTrue ==
    \A p \in Phone \ gone : Known(p) =>
        /\ phones[p].subscribed = IF p \in stream THEN 1 ELSE 0
        /\ phones[p].asking = Cardinality({q \in Request :
                                  request[q].phone = p /\ request[q].pc = "asking"})

(* Once the person spoke to the Mac, it keeps the voice until a phone is    *)
(* used again: asks, drives, or has its app opened after its grace.         *)
MacKeepsTheVoice == spoken => current = None
=============================================================================
