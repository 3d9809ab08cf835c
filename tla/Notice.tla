------------------------------- MODULE Notice -------------------------------
(***************************************************************************)
(* Noticing the unusual (core/src/notice): a second look at what the rules *)
(* allowed, from two small files every seam process reads and writes with  *)
(* no lock between them: what the agent has done before (seen), and what   *)
(* the session has taken, been told and read outside (signals).            *)
(*                                                                         *)
(* A seam reads and writes each file in a step of its own, so the steps of *)
(* two seams interleave as the processes do.  A write may fail quietly.    *)
(*                                                                         *)
(* Each process has the mode of the config it opened with: off looks at    *)
(* nothing, observe (the default) lets a noticed call pass and says in its *)
(* shadow what enforce would have done, enforce makes that the effect.     *)
(***************************************************************************)
EXTENDS Integers, FiniteSets

CONSTANTS
    Seam,               \* the processes: hooks, the proxy, the shell
    Act,                \* what a call does and to what, by which a yes names it
    Considered,         \* [act, turn, outward, destructive, link, key, leaks] of a call
    Key,                \* novelties: an operation and what it is done to
    Nothing,            \* no turn, link or novelty; no call
    TURN_AFTER_READS,   \* reads outside that make an investigation (3)
    TAINT_WINDOW,       \* how long a taint stands
    CHAIN_WINDOW,       \* how long something taken counts
    MOST_ASKED_KEPT,    \* calls a process keeps waiting for their answer (32)
    MaxTime,            \* bound: the clock stops here
    MaxFails,           \* bound: writes that fail
    MaxBegun            \* bound: calls, taints and clearings begun

ASSUME NoticeAssumption ==
    /\ {TURN_AFTER_READS, TAINT_WINDOW, CHAIN_WINDOW, MOST_ASKED_KEPT} \subseteq Nat
    /\ {MaxTime, MaxFails, MaxBegun} \subseteq Nat
    /\ TURN_AFTER_READS > 0
    /\ MaxTime > 0
    /\ Nothing \notin Key \cup Act
    /\ Considered \subseteq [act : Act, turn : {Nothing, "read", "change"}, link : {Nothing, "acquire", "emit"},
                            key : Key \cup {Nothing}, outward : BOOLEAN, destructive : BOOLEAN,
                            leaks : BOOLEAN]
    /\ Nothing \notin Considered

VARIABLES
    signals,    \* the session's file: [acquired, taint, reads, changed]
    seen,       \* the agent's file
    warmEnd,    \* until when novelty only records
    clock,      \* the time, in ticks
    seam,       \* [Seam -> [at, call, verdict, time, copy, known, todo]]: where the process
                \* is, the call it rules on and its verdict, the time it took, both files
                \* as it read them, and the calls a yes still has to teach it
    mode,       \* [Seam -> Mode]
    asked,      \* [Seam -> calls it asked about and has no yes to], its memory
    fails,      \* writes that have failed
    begun,      \* calls, taints and clearings begun
    \* What really happened, which no file records whole:
    tainted,    \* until when the session was last put under suspicion
    took,       \* when something worth having was last taken
    earned,     \* novelties that went ahead, or that a person said yes to
    lost        \* some write of signals was lost

history     == <<tainted, took, earned, lost>>
inHand      == <<seam, mode, asked>>
noticeVars  == <<signals, seen, warmEnd, clock, inHand, fails, begun, history>>

Time == 0..MaxTime

Mode == {"off", "observe", "enforce"}

\* The verdict of the rules before a notice is taken of anything.
Given(effect) == [effect |-> effect, shadow |-> "allow"]

emptySignals == [acquired |-> 0, taint |-> 0, reads |-> 0, changed |-> FALSE]

Idle == [at |-> "idle", call |-> Nothing, verdict |-> Given("allow"), time |-> 0,
         copy |-> emptySignals, known |-> {}, todo |-> {}]

NoticeInit ==
    /\ signals = emptySignals /\ seen = {}
    /\ warmEnd \in {0, 1} /\ clock = 1
    /\ seam = [s \in Seam |-> Idle]
    /\ mode \in [Seam -> Mode] /\ asked = [s \in Seam |-> {}]
    /\ fails = 0 /\ begun = 0
    /\ tainted = 0 /\ took = 0
    /\ earned = {} /\ lost = FALSE

-----------------------------------------------------------------------------
(***************************************************************************)
(* What the records say at time t.                                         *)
(***************************************************************************)
isNoticeable(r) == r.key # Nothing \/ r.link # Nothing \/ r.outward \/ r.destructive

\* Mutant of taintInForce: the window's last moment is outside it.
taintInForceShort(sig, t) == sig.taint # 0 /\ t < sig.taint

taintInForce(sig, t) == sig.taint # 0 /\ t <= sig.taint

lapsedTaint(sig, t) == sig.taint # 0 /\ t > sig.taint

acquiredWithin(sig, t) == sig.acquired # 0 /\ t - sig.acquired <= CHAIN_WINDOW

\* Mutant of withoutTaint: what was acquired goes with the taint.
withoutTaintAnything(sig) == emptySignals

\* Only what was acquired is kept.
withoutTaint(sig) == [emptySignals EXCEPT !.acquired = sig.acquired]

\* The signals after a call outside, Nothing when it does not move the turn.
turnStep(r, sig) ==
    CASE ~sig.changed /\ r.turn = "read" /\ sig.reads < TURN_AFTER_READS ->
            [sig EXCEPT !.reads = @ + 1]
      [] ~sig.changed /\ r.turn = "change" -> [sig EXCEPT !.changed = TRUE]
      [] OTHER -> Nothing

turnNotice(r, sig) == r.turn = "change" /\ sig.reads >= TURN_AFTER_READS

\* The effects of taintNotice, chainNotice and noveltyNotice on a call.
noticesFor(r, sig, done, t) ==
    {e \in {"ask", "deny"} :
        \/ e = "ask" /\ taintInForce(sig, t) /\ (r.outward \/ r.destructive)
        \/ r.link = "emit" /\ acquiredWithin(sig, t) /\ e = (IF r.leaks THEN "deny" ELSE "ask")
        \/ e = "ask" /\ r.key # Nothing /\ r.key \notin done /\ t > warmEnd}

StrictestIn(effects) ==
    IF "deny" \in effects THEN "deny" ELSE IF "ask" \in effects THEN "ask" ELSE "allow"

\* "Enforce changes the effect; observe keeps it and says what enforce would have done".
applyNotices(verdict, notices, m) ==
    IF notices = {} \/ m = "off" THEN verdict
    ELSE IF m = "enforce" THEN [verdict EXCEPT !.effect = StrictestIn(notices)]
    ELSE [verdict EXCEPT !.shadow = StrictestIn(notices \cup {verdict.shadow})]

\* A write of signals by a seam that read copied: a failure leaves the file,
\* and a file that has changed since is written over.
writeSignals(copied, written) ==
    \/ /\ signals' = written
       /\ lost' = (lost \/ signals # copied)
       /\ UNCHANGED fails
    \/ /\ fails < MaxFails /\ fails' = fails + 1
       /\ lost' = TRUE
       /\ UNCHANGED signals

writeSeen(written) ==
    \/ seen' = written /\ UNCHANGED fails
    \/ fails < MaxFails /\ fails' = fails + 1 /\ UNCHANGED seen

\* The seam's place and what it holds, nothing once it is idle.
Goes(s, now) == seam' = [seam EXCEPT ![s] = IF now.at = "idle" THEN Idle ELSE now]

GoesTo(s, to) == Goes(s, [seam[s] EXCEPT !.at = to])

\* A call is done with; the next one a yes covers is learned.
Finishes(s) ==
    Goes(s, [Idle EXCEPT !.todo = seam[s].todo,
                         !.at = IF seam[s].todo = {} THEN "idle" ELSE "answered"])

\* The files and the clock stay as they are.
SameFiles == UNCHANGED <<signals, seen, warmEnd, clock, fails>>

\* A seam alone reads.
Reads == SameFiles /\ UNCHANGED <<mode, asked, history>>

Reading == Reads /\ UNCHANGED begun

Begins == Reads /\ begun < MaxBegun /\ begun' = begun + 1

-----------------------------------------------------------------------------
(***************************************************************************)
(* A call, ruled on by a seam: UnusualNotice.consider.                     *)
(***************************************************************************)
\* Where a call goes that is not about the turn, or no longer: what cannot be
\* noticed is answered as it is, a question waits for its answer.
Onward(r, effect) ==
    IF ~isNoticeable(r) THEN "idle" ELSE IF effect = "ask" THEN "ruled" ELSE "looking"

\* The rules allowed the call or ask about it; in mode off it goes no further.
consider(s, r, effect) ==
    /\ seam[s].at = "idle" /\ mode[s] # "off"
    /\ Goes(s, [Idle EXCEPT !.call = r, !.verdict = Given(effect),
                            !.at = IF effect = "allow" /\ r.turn # Nothing
                                   THEN "turning" ELSE Onward(r, effect)])
    /\ Begins

\* turned(): the session's file is read.
TurnReads(s) ==
    LET r == seam[s].call IN
    /\ seam[s].at = "turning"
    /\ Goes(s, [seam[s] EXCEPT !.copy = signals,
                               !.at = IF turnStep(r, signals) # Nothing
                                      THEN "turned" ELSE Onward(r, "allow")])
    /\ Reading

\* ... and written, with the count or the change; the first change after
\* enough reads is noticed.
TurnWrites(s) ==
    LET r       == seam[s].call
        turns   == IF turnNotice(r, seam[s].copy) THEN {"ask"} ELSE {}
        verdict == applyNotices(seam[s].verdict, turns, mode[s])
    IN
    /\ seam[s].at = "turned"
    /\ writeSignals(seam[s].copy, turnStep(r, seam[s].copy))
    /\ Goes(s, [seam[s] EXCEPT !.verdict = verdict, !.at = Onward(r, verdict.effect)])
    /\ UNCHANGED <<seen, warmEnd, clock, mode, asked, begun, tainted, took, earned>>

\* read(): the time, and what the agent has done before.
ReadsSeen(s) ==
    /\ seam[s].at = "looking"
    /\ Goes(s, [seam[s] EXCEPT !.at = "deciding", !.time = clock, !.known = seen])
    /\ Reading

\* ... and the session's signals, which decide the call, a taint whose window
\* has passed left out of them.
Decides(s) ==
    LET lapsed  == lapsedTaint(signals, seam[s].time)
        sig     == IF lapsed THEN withoutTaint(signals) ELSE signals
        notices == noticesFor(seam[s].call, sig, seam[s].known, seam[s].time)
    IN
    /\ seam[s].at = "deciding"
    /\ Goes(s, [seam[s] EXCEPT !.copy = signals,
                               !.verdict = applyNotices(@, notices, mode[s]),
                               !.at = IF lapsed THEN "lapsing" ELSE "ruled"])
    /\ Reading

\* currentSignals(): the lapse is written.
LapseWrites(s) ==
    LET cleared == withoutTaint(seam[s].copy) IN
    /\ seam[s].at = "lapsing"
    /\ writeSignals(seam[s].copy, cleared)
    /\ Goes(s, [seam[s] EXCEPT !.copy = cleared, !.at = "ruled"])
    /\ UNCHANGED <<seen, warmEnd, clock, mode, asked, begun, tainted, took, earned>>

\* A question, or a refusal, is kept for the answer it may get; of too many the
\* oldest is let go, which of them that is being left open.
awaitAnswer(s) ==
    LET waiting == asked[s] \cup {seam[s].call} IN
    /\ seam[s].at = "ruled" /\ seam[s].verdict.effect # "allow"
    /\ \/ /\ Cardinality(waiting) <= MOST_ASKED_KEPT
          /\ asked' = [asked EXCEPT ![s] = waiting]
       \/ /\ Cardinality(waiting) > MOST_ASKED_KEPT
          /\ \E oldest \in waiting \ {seam[s].call} :
                asked' = [asked EXCEPT ![s] = waiting \ {oldest}]
    /\ GoesTo(s, "idle")
    /\ SameFiles
    /\ UNCHANGED <<mode, begun, history>>

\* learn(), the novelty: what goes ahead is remembered on the copy read, by
\* this call's look or, after a person's yes, just now.
LearnsSeen(s) ==
    LET r == seam[s].call IN
    /\ \/ seam[s].at = "ruled" /\ seam[s].verdict.effect = "allow"
       \/ seam[s].at = "learning"
    /\ earned' = earned \cup (IF seam[s].at = "ruled" THEN {r.key} \ {Nothing} ELSE {})
    /\ IF r.key \in Key \ seam[s].known THEN writeSeen(seam[s].known \cup {r.key})
                                        ELSE UNCHANGED <<seen, fails>>
    /\ IF r.link # "acquire" THEN Finishes(s)
       ELSE GoesTo(s, IF seam[s].at = "ruled" THEN "taking" ELSE "learning taking")
    /\ UNCHANGED <<signals, warmEnd, clock, mode, asked, begun, tainted, took, lost>>

\* learn(), the chain.
LearnsAcquired(s) ==
    /\ seam[s].at = "taking"
    /\ writeSignals(seam[s].copy, [seam[s].copy EXCEPT !.acquired = seam[s].time])
    /\ took' = seam[s].time
    /\ Finishes(s)
    /\ UNCHANGED <<seen, warmEnd, clock, mode, asked, begun, tainted, earned>>

-----------------------------------------------------------------------------
(***************************************************************************)
(* A person's yes: personAllowed.  A no is no step: what was refused stays *)
(* asked about as long as the process lives.                               *)
(***************************************************************************)
\* Mutant of AnsweredBy: a yes to one call is a yes to all.
AnsweredByAny(waiting, request) == waiting

\* The calls a yes covers: those of the request it names, all without one.
AnsweredBy(waiting, request) ==
    {each \in waiting : request = Nothing \/ each.act = request}

\* The proxy, the egress seam and the interceptor name the request; one yes
\* covers a whole shell line, or the call a prompt's answer was ruled on for.
personAllowed(s, request) ==
    LET answered == AnsweredBy(asked[s], request) IN
    /\ seam[s].at = "idle" /\ answered # {}
    /\ asked' = [asked EXCEPT ![s] = @ \ answered]
    /\ Goes(s, [Idle EXCEPT !.at = "answered", !.todo = answered])
    /\ earned' = earned \cup ({r.key : r \in {each \in asked[s] : request \in {Nothing, each.act}}}
                                \ {Nothing})
    /\ SameFiles
    /\ UNCHANGED <<mode, begun, tainted, took, lost>>

\* Each is learned from files read anew.
LearnsAnswered(s) ==
    /\ seam[s].at = "answered"
    /\ \E r \in seam[s].todo :
          Goes(s, [seam[s] EXCEPT !.at = "learning", !.call = r, !.todo = @ \ {r},
                                  !.time = clock, !.known = seen])
    /\ Reading

YesReadsSignals(s) ==
    /\ seam[s].at = "learning taking"
    /\ Goes(s, [seam[s] EXCEPT !.at = "taking", !.copy = signals])
    /\ Reading

\* A process ends, wherever it is, and takes what it asked with it; the next
\* one opens with the mode the config then has.
ProcessEnds(s) ==
    /\ seam[s] # Idle \/ asked[s] # {}
    /\ seam' = [seam EXCEPT ![s] = Idle]
    /\ asked' = [asked EXCEPT ![s] = {}]
    /\ \E m \in Mode : mode' = [mode EXCEPT ![s] = m]
    /\ SameFiles
    /\ UNCHANGED <<begun, history>>

-----------------------------------------------------------------------------
(***************************************************************************)
(* Suspicion: taint() after a result that read like instructions, and      *)
(* clearTaint() by a person, in whatever mode.                             *)
(***************************************************************************)
SignalsRead(s, to) ==
    /\ seam[s].at = "idle"
    /\ Goes(s, [Idle EXCEPT !.at = to, !.time = clock, !.copy = signals])
    /\ Begins

TaintReads(s) == SignalsRead(s, "tainting")

TaintWrites(s) ==
    LET until == seam[s].time + TAINT_WINDOW IN
    /\ seam[s].at = "tainting"
    /\ writeSignals(seam[s].copy, [seam[s].copy EXCEPT !.taint = until])
    /\ tainted' = until
    /\ GoesTo(s, "idle")
    /\ UNCHANGED <<seen, warmEnd, clock, mode, asked, begun, took, earned>>

ClearReads(s) == signals.taint # 0 /\ SignalsRead(s, "clearing")

ClearWrites(s) ==
    /\ seam[s].at = "clearing"
    /\ writeSignals(seam[s].copy, withoutTaint(seam[s].copy))
    /\ tainted' = 0
    /\ GoesTo(s, "idle")
    /\ UNCHANGED <<seen, warmEnd, clock, mode, asked, begun, took, earned>>

\* The clock, which ends the warm-up and the windows.
ClockTicks ==
    /\ clock < MaxTime
    /\ clock' = clock + 1
    /\ UNCHANGED <<signals, seen, warmEnd, inHand, fails, begun, history>>

NoticeNext ==
    \/ \E s \in Seam, r \in Considered, effect \in {"allow", "ask"} : consider(s, r, effect)
    \/ \E s \in Seam, request \in Act \cup {Nothing} : personAllowed(s, request)
    \/ \E s \in Seam :
          \/ TurnReads(s) \/ TurnWrites(s) \/ ReadsSeen(s) \/ Decides(s) \/ LapseWrites(s)
          \/ awaitAnswer(s) \/ LearnsSeen(s) \/ LearnsAcquired(s)
          \/ LearnsAnswered(s) \/ YesReadsSignals(s) \/ ProcessEnds(s)
          \/ TaintReads(s) \/ TaintWrites(s) \/ ClearReads(s) \/ ClearWrites(s)
    \/ ClockTicks

NoticeSpec == NoticeInit /\ [][NoticeNext]_noticeVars

-----------------------------------------------------------------------------
(***************************************************************************)
(* Properties.                                                             *)
(***************************************************************************)
Signals == [acquired : Time, taint : 0..(MaxTime + TAINT_WINDOW),
            reads : 0..TURN_AFTER_READS, changed : BOOLEAN]

Effects == {"allow", "ask", "deny"}

\* What a process holds.
Held ==
    [at : {"idle", "turning", "turned", "looking", "deciding", "lapsing", "ruled", "taking",
           "answered", "learning", "learning taking", "tainting", "clearing"},
     call : Considered \cup {Nothing}, verdict : [effect : Effects, shadow : Effects],
     time : Time, copy : Signals, known : SUBSET Key, todo : SUBSET Considered]

\* The files keep their shape, and a count of reads never passes the point it
\* matters, whatever two seams write over each other.
NoticeTypeOK ==
    /\ signals \in Signals /\ seen \subseteq Key
    /\ warmEnd \in {0, 1} /\ clock \in Time /\ fails \in 0..MaxFails
    /\ begun \in 0..MaxBegun
    /\ seam \in [Seam -> Held]
    /\ mode \in [Seam -> Mode] /\ asked \in [Seam -> SUBSET Considered]
    /\ tainted \in 0..(MaxTime + TAINT_WINDOW) /\ took \in Time
    /\ earned \subseteq Key /\ lost \in BOOLEAN

\* The step in which the second look answers for seam s.
Looks(s) == seam[s].at = "deciding" /\ seam'[s].at \in {"lapsing", "ruled"}

\* What it says: the effect in enforce; in observe, where the call passes, what
\* enforce would have done.
Says(s) == IF mode[s] = "enforce" THEN seam'[s].verdict.effect ELSE seam'[s].verdict.shadow

\* In observe the call passes whatever is said of it.
PassesUnlessEnforced(s) == mode[s] = "observe" => seam'[s].verdict.effect = "allow"

\* "Outward and destructive actions in this session need a person" until the
\* taint's window ends or a person lifts it: while the session is under
\* suspicion, the second look of any seam asks about such a call, or in observe
\* says that it would have, as long as no write of the session's file was lost.
TaintHolds ==
    [][\A s \in Seam :
          (/\ Looks(s) /\ ~lost /\ clock <= tainted
           /\ seam[s].call.outward \/ seam[s].call.destructive)
              => Says(s) # "allow" /\ PassesUnlessEnforced(s)]_noticeVars

\* "Individually permitted, together an exfiltration path": a send in the window
\* after something was taken, by whichever seam, is a question, and one whose
\* payload holds a credential "is not a question" but refused; in observe both
\* pass, and are said to be that.
ChainIsNoticed ==
    [][\A s \in Seam :
          (/\ Looks(s) /\ ~lost /\ seam[s].call.link = "emit"
           /\ took # 0 /\ clock - took <= CHAIN_WINDOW)
              => /\ Says(s) = (IF seam[s].call.leaks THEN "deny" ELSE "ask")
                 /\ PassesUnlessEnforced(s)]_noticeVars

\* "A lost memory costs one extra question later", and no interleaving, failed
\* write or yes to another call costs one fewer: after the warm-up what never
\* went ahead before, allowed by an enforcing seam, passed by an observing one
\* or answered yes, is asked about, or in observe said to be a question.
NewNeedsAYes ==
    [][\A s \in Seam :
          (/\ Looks(s) /\ seam[s].time > warmEnd
           /\ seam[s].call.key # Nothing /\ seam[s].call.key \notin earned)
              => Says(s) # "allow" /\ PassesUnlessEnforced(s)]_noticeVars

=============================================================================
