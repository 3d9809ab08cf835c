-------------------------- MODULE HeldCallsProofs --------------------------
(***************************************************************************)
(* For any number of tries of a call, of people answering and of deaths:   *)
(* the model is well typed, one answer is taken while a question is there, *)
(* no call runs that nobody said yes to, a caller without a terminal acts  *)
(* on what its file says, and a single yes is good for one call.           *)
(*                                                                         *)
(* The invariant HeldInv has these parts, each proved from earlier ones.   *)
(* TypeInv: types, and what the program counters say of the copies held.   *)
(* ClaimInv: the winner of a question left its claim file there.  It is    *)
(* what makes OneAnswerWhileHeld inductive.  VoiceInv: nobody has answered *)
(* before they were asked, so nothing said is ever unsaid (Kept).  YesInv: *)
(* every answer in a record, in park()'s copy of one or in a caller's      *)
(* hands was said about that very question, and every grant goes back to   *)
(* a "session" or to two calls let run.  ParkedInv, OpenInv: only its own  *)
(* caller parks a question, and until then nobody clears it, so its record *)
(* keeps its one answer; FileInv is RecordDecides with what it needs.      *)
(* AuthorInv: every answer in a record was written by who said it.         *)
(* SpentInv, SerialInv: the calls past the boundary, and the calls run on  *)
(* a parked question, map one to one to the people who said "once"; the    *)
(* second only where the tries of the call run one after another.          *)
(***************************************************************************)
EXTENDS HeldCalls, FiniteSetTheorems, TLAPS

(* What a thread or a caller holds where its next step uses it. *)
ControlOK ==
    /\ \A t \in Thread : apc[t] # "away" => aid[t] \in Caller
    /\ \A t \in Thread : apc[t] \in {"claim", "reread", "write", "grant"}
                            => copy[t] \in Pending
    /\ \A c \in Caller : pc[c] = "park_write"
                            => kept[c] \in Pending /\ kept[c] # None
    /\ \A c \in Caller : pc[c] \in {"settle", "clear_claim", "clear_record"}
                            => on[c] \in Caller
    /\ \A c \in Caller : pc[c] = "wait" => on[c] = c

(* The types, with what a next step needs of them. *)
TypeInv == TypeOK /\ ControlOK

(* What park() writes back is the question it read, parked.                *)
LEMMA ParkedIsPending ==
  ASSUME NEW p \in Pending
  PROVE  /\ [p EXCEPT !.parked = TRUE] \in Pending
         /\ [p EXCEPT !.parked = TRUE].answer = p.answer
  BY DEF Pending

(* Every step keeps the types.                                             *)
LEMMA TypeStep == TypeInv /\ [Next]_vars => TypeInv'
  <1> SUFFICES ASSUME TypeInv, [Next]_vars
               PROVE  TypeInv'
    OBVIOUS
  <1> USE ThreadAssumption, InteractiveAssumption, FlagsAssumption, CrashesAssumption
      DEF TypeInv, TypeOK, ControlOK, Thread, Pending, HoldAnswer, RemoteAnswer,
          CallerPC, AnswerPC, Ended, Outcome, Goto, AGoto, End, Yes,
          files, time, grants, asking, answering, LEARN_AFTER_APPROVALS
  <1>1. ASSUME NEW t \in Thread, AnswerRead(t)
        PROVE  TypeInv'
    BY <1>1 DEF AnswerRead
  <1>2. ASSUME NEW t \in Thread, AnswerClaim(t)
        PROVE  TypeInv'
    BY <1>2 DEF AnswerClaim
  <1>3. ASSUME NEW t \in Thread, AnswerReread(t)
        PROVE  TypeInv'
    BY <1>3 DEF AnswerReread
  <1>4. ASSUME NEW t \in Thread, AnswerWrite(t)
        PROVE  TypeInv'
    BY <1>4 DEF AnswerWrite
  <1>5. ASSUME NEW t \in Thread, AnswerGrant(t)
        PROVE  TypeInv'
    BY <1>5 DEF AnswerGrant
  <1>6. ASSUME NEW r \in Remote, NEW q \in Caller, NEW a \in RemoteAnswer, Say(r, q, a)
        PROVE  TypeInv'
    BY <1>6 DEF Say
  <1>7. ASSUME NEW c \in Caller, Hold(c)
        PROVE  TypeInv'
    BY <1>7 DEF Hold, Running
  <1>8. ASSUME NEW c \in Caller, FromParked(c)
        PROVE  TypeInv'
    <2>1. CASE Goto(c, "raise") /\ UNCHANGED <<got, on>>
      BY <1>8, <2>1 DEF FromParked
    <2>2. ASSUME NEW q \in Caller, ParkedInTime(q), on' = [on EXCEPT ![c] = q],
                 IF record[q].answer = None
                 THEN End(c, "parked") /\ UNCHANGED got
                 ELSE Goto(c, "clear_claim") /\ got' = [got EXCEPT ![c] = record[q].answer]
          PROVE  TypeInv'
      <3>1. record[q] \in Pending
        BY <2>2 DEF ParkedInTime
      <3> QED
        BY <1>8, <2>2, <3>1 DEF FromParked
    <2> QED
      BY <1>8, <2>1, <2>2 DEF FromParked
  <1>9. ASSUME NEW c \in Caller, Raise(c)
        PROVE  TypeInv'
    <2> DEFINE new == [answer |-> None, by |-> None, parked |-> FALSE]
    <2>1. new \in Pending
      OBVIOUS
    <2>2. record' = [record EXCEPT ![c] = new]
      BY <1>9 DEF Raise
    <2> HIDE DEF new
    <2>3. record' \in [Caller -> Pending \cup {None}]
      BY <2>1, <2>2
    <2>4. /\ pc' \in [Caller -> CallerPC] /\ \A d \in Caller : d # c => pc'[d] = pc[d]
          /\ on' \in [Caller -> Caller \cup {None}] /\ \A d \in Caller : d # c => on'[d] = on[d]
          /\ pc'[c] = "wait" /\ on'[c] = c
      BY <1>9 DEF Raise
    <2>5. /\ apc' \in [Thread -> AnswerPC] /\ \A t \in Thread : t # c => apc'[t] = apc[t]
          /\ aid' \in [Thread -> Caller \cup {None}] /\ \A t \in Thread : t # c => aid'[t] = aid[t]
          /\ (apc'[c] = apc[c] /\ aid'[c] = aid[c]) \/ (apc'[c] = "prompt" /\ aid'[c] = c)
      BY <1>9 DEF Raise
    <2> HIDE DEF Pending
    <2> QED
      BY <1>9, <2>3, <2>4, <2>5 DEF Raise
  <1>10. ASSUME NEW c \in Caller, PromptThrows(c)
        PROVE  TypeInv'
    BY <1>10 DEF PromptThrows
  <1>11. ASSUME NEW c \in Caller, Poll(c)
        PROVE  TypeInv'
    BY <1>11 DEF Poll
  <1>12. ASSUME NEW c \in Caller, PollEnds(c)
        PROVE  TypeInv'
    BY <1>12 DEF PollEnds
  <1>13. ASSUME NEW c \in Caller, TtyGivesUp(c)
        PROVE  TypeInv'
    BY <1>13 DEF TtyGivesUp
  <1>14. ASSUME NEW c \in Caller, TtyReturns(c)
        PROVE  TypeInv'
    BY <1>14 DEF TtyReturns
  <1>15. ASSUME NEW c \in Caller, NobodyAnswers(c)
        PROVE  TypeInv'
    BY <1>15 DEF NobodyAnswers
  <1>16. ASSUME NEW c \in Caller, ParkForget(c)
        PROVE  TypeInv'
    BY <1>16 DEF ParkForget
  <1>17. ASSUME NEW c \in Caller, ParkRead(c)
        PROVE  TypeInv'
    BY <1>17 DEF ParkRead
  <1>18. ASSUME NEW c \in Caller, ParkWrite(c)
        PROVE  TypeInv'
    <2>0. kept[c] \in Pending
      BY <1>18 DEF ParkWrite
    <2>1. [kept[c] EXCEPT !.parked = TRUE] \in Pending
      BY <2>0, ParkedIsPending
    <2> QED
      BY <1>18, <2>1 DEF ParkWrite
  <1>19. ASSUME NEW c \in Caller, Settle(c)
        PROVE  TypeInv'
    BY <1>19 DEF Settle
  <1>20. ASSUME NEW c \in Caller, ClearClaim(c)
        PROVE  TypeInv'
    BY <1>20 DEF ClearClaim
  <1>21. ASSUME NEW c \in Caller, ClearRecord(c)
        PROVE  TypeInv'
    BY <1>21 DEF ClearRecord
  <1>22. ASSUME NEW c \in Caller, Decide(c)
        PROVE  TypeInv'
    <2>1. granted' \in BOOLEAN
      BY <1>22 DEF Decide, Approved
    <2>0. yeses' = yeses \/ (yeses < LEARN_AFTER_APPROVALS /\ yeses' = yeses + 1)
      BY <1>22 DEF Decide, Approved
    <2>2. yeses' \in 0 .. LEARN_AFTER_APPROVALS
      BY <2>0
    <2>3. pc' \in [Caller -> CallerPC] /\ \A d \in Caller : d # c => pc'[d] = pc[d]
      BY <1>22 DEF Decide
    <2>4. pc'[c] \in {"denied", "edited", "allowed"}
      BY <1>22 DEF Decide
    <2> QED
      BY <1>22, <2>1, <2>2, <2>3, <2>4 DEF Decide
  <1>23. ASSUME NEW c \in Caller, Boundary(c)
        PROVE  TypeInv'
    BY <1>23 DEF Boundary
  <1>24. ASSUME NEW c \in Caller, NEW a \in HoldAnswer, TtyPick(c, a)
        PROVE  TypeInv'
    BY <1>24 DEF TtyPick
  <1>25. ASSUME NEW q \in Caller, HoldDeadline(q)
        PROVE  TypeInv'
    BY <1>25 DEF HoldDeadline
  <1>26. ASSUME NEW q \in Caller, ParkDeadline(q)
        PROVE  TypeInv'
    BY <1>26 DEF ParkDeadline
  <1>27. ASSUME NEW c \in Caller, CallerDies(c)
        PROVE  TypeInv'
    BY <1>27 DEF CallerDies, Running
  <1>28. ASSUME NEW r \in Remote, AnswererDies(r)
        PROVE  TypeInv'
    BY <1>28 DEF AnswererDies
  <1>29. CASE UNCHANGED vars
    BY <1>29 DEF vars
  <1> HIDE DEF TypeInv, TypeOK, ControlOK, Thread, Pending, HoldAnswer,
              RemoteAnswer, CallerPC, AnswerPC, Ended, Outcome, Goto, AGoto,
              End, Yes, files, time, grants, asking, answering,
              LEARN_AFTER_APPROVALS
  <1> QED
    BY <1>1, <1>2, <1>3, <1>4, <1>5, <1>6, <1>7, <1>8, <1>9, <1>10, <1>11,
       <1>12, <1>13, <1>14, <1>15, <1>16, <1>17, <1>18, <1>19, <1>20, <1>21,
       <1>22, <1>23, <1>24, <1>25, <1>26, <1>27, <1>28, <1>29
       DEF Next, Answer, Ask

(* What the claim file is for: while a question is there, whoever won it   *)
(* left the file, and nobody else did.                                     *)
ClaimInv ==
    /\ \A t \in Thread : Winner(t) /\ aid[t] \notin cleared => aid[t] \in claimed
    /\ OneAnswerWhileHeld

(* Every step keeps the claims: a claim is made only where there is none,  *)
(* and removed only by a clear().                                          *)
LEMMA ClaimStep == TypeInv /\ ClaimInv /\ [Next]_vars => ClaimInv'
  <1> SUFFICES ASSUME TypeInv, ClaimInv, [Next]_vars
               PROVE  ClaimInv'
    OBVIOUS
  <1> USE ThreadAssumption
      DEF TypeInv, TypeOK, ControlOK, ClaimInv, OneAnswerWhileHeld, Winner,
          Thread, HoldAnswer, RemoteAnswer, CallerPC, AnswerPC, Ended,
          Outcome, Goto, AGoto, End, Yes, files, time, grants, asking,
          answering
  <1>1. ASSUME NEW t \in Thread, AnswerRead(t)
        PROVE  ClaimInv'
    BY <1>1 DEF AnswerRead
  <1>2. ASSUME NEW t \in Thread, AnswerClaim(t)
        PROVE  ClaimInv'
    BY <1>2 DEF AnswerClaim
  <1>3. ASSUME NEW t \in Thread, AnswerReread(t)
        PROVE  ClaimInv'
    BY <1>3 DEF AnswerReread
  <1>4. ASSUME NEW t \in Thread, AnswerWrite(t)
        PROVE  ClaimInv'
    BY <1>4 DEF AnswerWrite
  <1>5. ASSUME NEW t \in Thread, AnswerGrant(t)
        PROVE  ClaimInv'
    BY <1>5 DEF AnswerGrant
  <1>6. ASSUME NEW r \in Remote, NEW q \in Caller, NEW a \in RemoteAnswer, Say(r, q, a)
        PROVE  ClaimInv'
    BY <1>6 DEF Say
  <1>7. ASSUME NEW c \in Caller, Hold(c)
        PROVE  ClaimInv'
    BY <1>7 DEF Hold
  <1>8. ASSUME NEW c \in Caller, FromParked(c)
        PROVE  ClaimInv'
    BY <1>8 DEF FromParked
  <1>9. ASSUME NEW c \in Caller, Raise(c)
        PROVE  ClaimInv'
    <2>1. /\ claimed' = claimed /\ cleared' = cleared
          /\ \A t \in Thread : apc'[t] # "prompt" => apc'[t] = apc[t] /\ aid'[t] = aid[t]
      BY <1>9 DEF Raise
    <2> QED
      BY <2>1
  <1>10. ASSUME NEW c \in Caller, PromptThrows(c)
        PROVE  ClaimInv'
    BY <1>10 DEF PromptThrows
  <1>11. ASSUME NEW c \in Caller, Poll(c)
        PROVE  ClaimInv'
    BY <1>11 DEF Poll
  <1>12. ASSUME NEW c \in Caller, PollEnds(c)
        PROVE  ClaimInv'
    BY <1>12 DEF PollEnds
  <1>13. ASSUME NEW c \in Caller, TtyGivesUp(c)
        PROVE  ClaimInv'
    BY <1>13 DEF TtyGivesUp
  <1>14. ASSUME NEW c \in Caller, TtyReturns(c)
        PROVE  ClaimInv'
    BY <1>14 DEF TtyReturns
  <1>15. ASSUME NEW c \in Caller, NobodyAnswers(c)
        PROVE  ClaimInv'
    BY <1>15 DEF NobodyAnswers
  <1>16. ASSUME NEW c \in Caller, ParkForget(c)
        PROVE  ClaimInv'
    BY <1>16 DEF ParkForget
  <1>17. ASSUME NEW c \in Caller, ParkRead(c)
        PROVE  ClaimInv'
    BY <1>17 DEF ParkRead
  <1>18. ASSUME NEW c \in Caller, ParkWrite(c)
        PROVE  ClaimInv'
    BY <1>18 DEF ParkWrite
  <1>19. ASSUME NEW c \in Caller, Settle(c)
        PROVE  ClaimInv'
    BY <1>19 DEF Settle
  <1>20. ASSUME NEW c \in Caller, ClearClaim(c)
        PROVE  ClaimInv'
    BY <1>20 DEF ClearClaim
  <1>21. ASSUME NEW c \in Caller, ClearRecord(c)
        PROVE  ClaimInv'
    BY <1>21 DEF ClearRecord
  <1>22. ASSUME NEW c \in Caller, Decide(c)
        PROVE  ClaimInv'
    BY <1>22 DEF Decide
  <1>23. ASSUME NEW c \in Caller, Boundary(c)
        PROVE  ClaimInv'
    BY <1>23 DEF Boundary
  <1>24. ASSUME NEW c \in Caller, NEW a \in HoldAnswer, TtyPick(c, a)
        PROVE  ClaimInv'
    BY <1>24 DEF TtyPick
  <1>25. ASSUME NEW q \in Caller, HoldDeadline(q)
        PROVE  ClaimInv'
    BY <1>25 DEF HoldDeadline
  <1>26. ASSUME NEW q \in Caller, ParkDeadline(q)
        PROVE  ClaimInv'
    BY <1>26 DEF ParkDeadline
  <1>27. ASSUME NEW c \in Caller, CallerDies(c)
        PROVE  ClaimInv'
    BY <1>27 DEF CallerDies
  <1>28. ASSUME NEW r \in Remote, AnswererDies(r)
        PROVE  ClaimInv'
    BY <1>28 DEF AnswererDies
  <1>29. CASE UNCHANGED vars
    BY <1>29 DEF vars
  <1> HIDE DEF TypeInv, TypeOK, ControlOK, ClaimInv, OneAnswerWhileHeld,
              Winner, Thread, HoldAnswer, RemoteAnswer, CallerPC, AnswerPC,
              Ended, Outcome, Goto, AGoto, End, Yes, files, time, grants,
              asking, answering
  <1> QED
    BY <1>1, <1>2, <1>3, <1>4, <1>5, <1>6, <1>7, <1>8, <1>9, <1>10, <1>11,
       <1>12, <1>13, <1>14, <1>15, <1>16, <1>17, <1>18, <1>19, <1>20, <1>21,
       <1>22, <1>23, <1>24, <1>25, <1>26, <1>27, <1>28, <1>29
       DEF Next, Answer, Ask

(* A caller that has asked nobody yet. *)
Early == {"idle", "lookup", "raise"}

(* Who has said what: nobody before they were asked, a terminal only about *)
(* its own call, and a call that has asked nobody has no answer.           *)
VoiceInv ==
    /\ \A t \in Thread : apc[t] \in {"away", "prompt"} => aans[t] = None
    /\ \A c \in Caller : apc[c] # "away" => aid[c] = c
    /\ \A c \in Caller : pc[c] \in Early => apc[c] = "away" /\ got[c] = None

(* Nothing said is unsaid, and a call let run, or parked, stays so.        *)
Kept ==
    /\ \A t \in Thread : aans[t] # None => aans'[t] = aans[t] /\ aid'[t] = aid[t]
    /\ \A c \in Caller : pc[c] \in {"allowed", "parked"} => pc'[c] = pc[c]

(* Every step keeps who said what.                                         *)
LEMMA VoiceStep == TypeInv /\ VoiceInv /\ [Next]_vars => VoiceInv' /\ Kept
  <1> SUFFICES ASSUME TypeInv, VoiceInv, [Next]_vars
               PROVE  VoiceInv' /\ Kept
    OBVIOUS
  <1> USE ThreadAssumption, InteractiveAssumption
      DEF TypeInv, TypeOK, ControlOK, VoiceInv, Early, Kept,
          Thread, HoldAnswer, RemoteAnswer, CallerPC, AnswerPC, Ended,
          Outcome, Goto, AGoto, End, Yes, files, time, grants, asking,
          answering
  <1>1. ASSUME NEW t \in Thread, AnswerRead(t)
        PROVE  VoiceInv' /\ Kept
    BY <1>1 DEF AnswerRead
  <1>2. ASSUME NEW t \in Thread, AnswerClaim(t)
        PROVE  VoiceInv' /\ Kept
    BY <1>2 DEF AnswerClaim
  <1>3. ASSUME NEW t \in Thread, AnswerReread(t)
        PROVE  VoiceInv' /\ Kept
    BY <1>3 DEF AnswerReread
  <1>4. ASSUME NEW t \in Thread, AnswerWrite(t)
        PROVE  VoiceInv' /\ Kept
    BY <1>4 DEF AnswerWrite
  <1>5. ASSUME NEW t \in Thread, AnswerGrant(t)
        PROVE  VoiceInv' /\ Kept
    BY <1>5 DEF AnswerGrant
  <1>6. ASSUME NEW r \in Remote, NEW q \in Caller, NEW a \in RemoteAnswer, Say(r, q, a)
        PROVE  VoiceInv' /\ Kept
    BY <1>6 DEF Say
  <1>7. ASSUME NEW c \in Caller, Hold(c)
        PROVE  VoiceInv' /\ Kept
    BY <1>7 DEF Hold
  <1>8. ASSUME NEW c \in Caller, FromParked(c)
        PROVE  VoiceInv' /\ Kept
    BY <1>8 DEF FromParked
  <1>9. ASSUME NEW c \in Caller, Raise(c)
        PROVE  VoiceInv' /\ Kept
    BY <1>9 DEF Raise
  <1>10. ASSUME NEW c \in Caller, PromptThrows(c)
        PROVE  VoiceInv' /\ Kept
    BY <1>10 DEF PromptThrows
  <1>11. ASSUME NEW c \in Caller, Poll(c)
        PROVE  VoiceInv' /\ Kept
    BY <1>11 DEF Poll
  <1>12. ASSUME NEW c \in Caller, PollEnds(c)
        PROVE  VoiceInv' /\ Kept
    BY <1>12 DEF PollEnds
  <1>13. ASSUME NEW c \in Caller, TtyGivesUp(c)
        PROVE  VoiceInv' /\ Kept
    BY <1>13 DEF TtyGivesUp
  <1>14. ASSUME NEW c \in Caller, TtyReturns(c)
        PROVE  VoiceInv' /\ Kept
    BY <1>14 DEF TtyReturns
  <1>15. ASSUME NEW c \in Caller, NobodyAnswers(c)
        PROVE  VoiceInv' /\ Kept
    BY <1>15 DEF NobodyAnswers
  <1>16. ASSUME NEW c \in Caller, ParkForget(c)
        PROVE  VoiceInv' /\ Kept
    BY <1>16 DEF ParkForget
  <1>17. ASSUME NEW c \in Caller, ParkRead(c)
        PROVE  VoiceInv' /\ Kept
    BY <1>17 DEF ParkRead
  <1>18. ASSUME NEW c \in Caller, ParkWrite(c)
        PROVE  VoiceInv' /\ Kept
    BY <1>18 DEF ParkWrite
  <1>19. ASSUME NEW c \in Caller, Settle(c)
        PROVE  VoiceInv' /\ Kept
    BY <1>19 DEF Settle
  <1>20. ASSUME NEW c \in Caller, ClearClaim(c)
        PROVE  VoiceInv' /\ Kept
    BY <1>20 DEF ClearClaim
  <1>21. ASSUME NEW c \in Caller, ClearRecord(c)
        PROVE  VoiceInv' /\ Kept
    BY <1>21 DEF ClearRecord
  <1>22. ASSUME NEW c \in Caller, Decide(c)
        PROVE  VoiceInv' /\ Kept
    BY <1>22 DEF Decide
  <1>23. ASSUME NEW c \in Caller, Boundary(c)
        PROVE  VoiceInv' /\ Kept
    BY <1>23 DEF Boundary
  <1>24. ASSUME NEW c \in Caller, NEW a \in HoldAnswer, TtyPick(c, a)
        PROVE  VoiceInv' /\ Kept
    BY <1>24 DEF TtyPick
  <1>25. ASSUME NEW q \in Caller, HoldDeadline(q)
        PROVE  VoiceInv' /\ Kept
    BY <1>25 DEF HoldDeadline
  <1>26. ASSUME NEW q \in Caller, ParkDeadline(q)
        PROVE  VoiceInv' /\ Kept
    BY <1>26 DEF ParkDeadline
  <1>27. ASSUME NEW c \in Caller, CallerDies(c)
        PROVE  VoiceInv' /\ Kept
    BY <1>27 DEF CallerDies, Running
  <1>28. ASSUME NEW r \in Remote, AnswererDies(r)
        PROVE  VoiceInv' /\ Kept
    BY <1>28 DEF AnswererDies
  <1>29. CASE UNCHANGED vars
    BY <1>29 DEF vars
  <1> HIDE DEF TypeInv, TypeOK, ControlOK, VoiceInv, Kept, Early, Thread,
              HoldAnswer, RemoteAnswer, CallerPC, AnswerPC, Ended, Outcome,
              Goto, AGoto, End, Yes, files, time, grants, asking, answering
  <1> QED
    BY <1>1, <1>2, <1>3, <1>4, <1>5, <1>6, <1>7, <1>8, <1>9, <1>10, <1>11,
       <1>12, <1>13, <1>14, <1>15, <1>16, <1>17, <1>18, <1>19, <1>20, <1>21,
       <1>22, <1>23, <1>24, <1>25, <1>26, <1>27, <1>28, <1>29
       DEF Next, Answer, Ask

(* Somebody said a about question q, or there is nothing to have said. *)
Backed(q, a) == a = None \/ \E t \in Thread : aid[t] = q /\ aans[t] = a

(* Why a grant may cover the call. *)
Licensed ==
    \/ \E t \in Thread : aans[t] = "session"
    \/ Learns /\ \E d, e \in Caller : d # e /\ pc[d] = "allowed" /\ pc[e] = "allowed"

(* No answer is made up: whatever a record, a copy of it or a caller holds *)
(* was said about that question, and whatever lets a call run goes back    *)
(* to it.                                                                  *)
YesInv ==
    /\ \A q \in Caller : record[q] # None => Backed(q, record[q].answer)
    /\ \A c \in Caller : kept[c] # None => Backed(c, kept[c].answer)
    /\ \A c \in Caller : Backed(on[c], got[c])
    /\ \A c \in Caller : pc[c] = "allowed" => got[c] \in Yes
    /\ yeses > 0 => \E d \in Caller : pc[d] = "allowed"
    /\ granted => Licensed
    /\ \A c \in Caller : pc[c] = "covered" => Licensed

(* What was said stays behind what was done on it.                         *)
LEMMA BackedKept ==
  ASSUME Kept, NEW q, NEW a, Backed(q, a)
  PROVE  Backed(q, a)'
  BY DEF Kept, Backed

(* A reason for a grant stays one.                                         *)
LEMMA LicensedKept ==
  ASSUME Kept, Licensed
  PROVE  Licensed'
  <1>1. CASE \E t \in Thread : aans[t] = "session"
    BY <1>1, ThreadAssumption DEF Kept, Licensed
  <1>2. CASE Learns /\ \E d, e \in Caller : d # e /\ pc[d] = "allowed" /\ pc[e] = "allowed"
    BY <1>2 DEF Kept, Licensed
  <1> QED
    BY <1>1, <1>2 DEF Licensed

(* Every step keeps answers backed by what was said.                       *)
LEMMA YesStep == TypeInv /\ VoiceInv /\ YesInv /\ [Next]_vars => YesInv'
  <1> SUFFICES ASSUME TypeInv, VoiceInv, YesInv, [Next]_vars
               PROVE  YesInv'
    OBVIOUS
  <1>k. Kept
    BY VoiceStep
  <1>b. \A q, a : Backed(q, a) => Backed(q, a)'
    BY <1>k, BackedKept
  <1>l. Licensed => Licensed'
    BY <1>k, LicensedKept
  <1>a. \A c \in Caller : pc[c] = "allowed" => pc'[c] = "allowed"
    BY <1>k DEF Kept
  <1> USE <1>b, <1>l, <1>a, ThreadAssumption
      DEF TypeInv, TypeOK, ControlOK, VoiceInv, Early, YesInv, Pending,
          Thread, HoldAnswer, RemoteAnswer, CallerPC, AnswerPC, Ended,
          Outcome, Goto, AGoto, End, Yes, files, time, grants, asking,
          answering
  <1>1. ASSUME NEW t \in Thread, AnswerRead(t)
        PROVE  YesInv'
    BY <1>1 DEF AnswerRead
  <1>2. ASSUME NEW t \in Thread, AnswerClaim(t)
        PROVE  YesInv'
    BY <1>2 DEF AnswerClaim
  <1>3. ASSUME NEW t \in Thread, AnswerReread(t)
        PROVE  YesInv'
    BY <1>3 DEF AnswerReread
  <1>4. ASSUME NEW t \in Thread, AnswerWrite(t)
        PROVE  YesInv'
    <2>1. Backed(aid[t], aans[t])'
      BY <1>4 DEF AnswerWrite, Backed
    <2>2. record'[aid[t]].answer = aans[t] /\ \A q \in Caller : q # aid[t] => record'[q] = record[q]
      BY <1>4 DEF AnswerWrite
    <2>3. aid'[t] = aid[t] /\ aans'[t] = aans[t]
      BY <1>4 DEF AnswerWrite
    <2> QED
      BY <1>4, <2>1, <2>2, <2>3 DEF AnswerWrite
  <1>5. ASSUME NEW t \in Thread, AnswerGrant(t)
        PROVE  YesInv'
    <2>1. aans[t] = "session" => Licensed'
      BY <1>5 DEF AnswerGrant, Licensed
    <2> QED
      BY <1>5, <2>1 DEF AnswerGrant
  <1>6. ASSUME NEW r \in Remote, NEW q \in Caller, NEW a \in RemoteAnswer, Say(r, q, a)
        PROVE  YesInv'
    BY <1>6 DEF Say
  <1>7. ASSUME NEW c \in Caller, Hold(c)
        PROVE  YesInv'
    BY <1>7 DEF Hold
  <1>8. ASSUME NEW c \in Caller, FromParked(c)
        PROVE  YesInv'
    <2>0. got[c] = None
      BY <1>8 DEF FromParked
    <2>1. CASE Goto(c, "raise") /\ UNCHANGED <<got, on>>
      BY <1>8, <2>1 DEF FromParked
    <2>2. ASSUME NEW q \in Caller, ParkedInTime(q), on' = [on EXCEPT ![c] = q],
                 IF record[q].answer = None
                 THEN End(c, "parked") /\ UNCHANGED got
                 ELSE Goto(c, "clear_claim") /\ got' = [got EXCEPT ![c] = record[q].answer]
          PROVE  YesInv'
      <3>1. record[q] # None /\ Backed(q, record[q].answer) /\ Backed(q, None)
        BY <2>2 DEF ParkedInTime, Backed
      <3>2. Backed(on[c], got[c])'
        BY <1>8, <2>0, <2>2, <3>1 DEF FromParked
      <3> QED
        BY <1>8, <2>2, <3>2 DEF FromParked
    <2> QED
      BY <1>8, <2>1, <2>2 DEF FromParked
  <1>9. ASSUME NEW c \in Caller, Raise(c)
        PROVE  YesInv'
    <2>1. Backed(c, None)
      BY DEF Backed
    <2>2. got[c] = None /\ got' = got /\ kept' = kept /\ granted' = granted /\ yeses' = yeses
      BY <1>9 DEF Raise
    <2>3. /\ on' = [on EXCEPT ![c] = c]
          /\ record' = [record EXCEPT ![c] = [answer |-> None, by |-> None, parked |-> FALSE]]
          /\ pc' = [pc EXCEPT ![c] = "wait"]
      BY <1>9 DEF Raise
    <2> QED
      BY <2>1, <2>2, <2>3
  <1>10. ASSUME NEW c \in Caller, PromptThrows(c)
        PROVE  YesInv'
    BY <1>10 DEF PromptThrows
  <1>11. ASSUME NEW c \in Caller, Poll(c)
        PROVE  YesInv'
    <2>1. CASE UNCHANGED <<pc, got>>
      BY <1>11, <2>1 DEF Poll
    <2>2. CASE /\ record[c] # None
               /\ got' = [got EXCEPT ![c] = record[c].answer]
               /\ Goto(c, "settle")
      <3>1. on[c] = c
        BY <1>11 DEF Poll
      <3> QED
        BY <1>11, <2>2, <3>1 DEF Poll
    <2> QED
      BY <1>11, <2>1, <2>2 DEF Poll
  <1>12. ASSUME NEW c \in Caller, PollEnds(c)
        PROVE  YesInv'
    BY <1>12 DEF PollEnds
  <1>13. ASSUME NEW c \in Caller, TtyGivesUp(c)
        PROVE  YesInv'
    BY <1>13 DEF TtyGivesUp
  <1>14. ASSUME NEW c \in Caller, TtyReturns(c)
        PROVE  YesInv'
    <2>1. Backed(c, aans[c])
      BY <1>14 DEF TtyReturns, Backed
    <2>2. on[c] = c
      BY <1>14 DEF TtyReturns
    <2> QED
      BY <1>14, <2>1, <2>2 DEF TtyReturns
  <1>15. ASSUME NEW c \in Caller, NobodyAnswers(c)
        PROVE  YesInv'
    BY <1>15 DEF NobodyAnswers
  <1>16. ASSUME NEW c \in Caller, ParkForget(c)
        PROVE  YesInv'
    BY <1>16 DEF ParkForget
  <1>17. ASSUME NEW c \in Caller, ParkRead(c)
        PROVE  YesInv'
    BY <1>17 DEF ParkRead
  <1>18. ASSUME NEW c \in Caller, ParkWrite(c)
        PROVE  YesInv'
    <2>0. kept[c] \in Pending /\ kept[c] # None
      BY <1>18 DEF ParkWrite
    <2>1. [kept[c] EXCEPT !.parked = TRUE].answer = kept[c].answer
      BY <2>0, ParkedIsPending
    <2>2. Backed(c, kept[c].answer)
      BY <2>0
    <2> QED
      BY <1>18, <2>1, <2>2 DEF ParkWrite
  <1>19. ASSUME NEW c \in Caller, Settle(c)
        PROVE  YesInv'
    BY <1>19 DEF Settle
  <1>20. ASSUME NEW c \in Caller, ClearClaim(c)
        PROVE  YesInv'
    BY <1>20 DEF ClearClaim
  <1>21. ASSUME NEW c \in Caller, ClearRecord(c)
        PROVE  YesInv'
    BY <1>21 DEF ClearRecord
  <1>22. ASSUME NEW c \in Caller, Decide(c)
        PROVE  YesInv'
    <2>0. /\ pc[c] = "decide"
          /\ \A d \in Caller : d # c => pc'[d] = pc[d]
          /\ pc'[c] \in {"denied", "edited", "allowed"}
          /\ UNCHANGED <<record, kept, on, got, aid, aans>>
      BY <1>22 DEF Decide
    <2>1. pc'[c] = "allowed" => got[c] \in Yes
      BY <1>22 DEF Decide
    <2>2. CASE UNCHANGED <<granted, yeses>>
      BY <2>0, <2>1, <2>2
    <2>3. CASE got[c] \in Yes /\ End(c, "allowed") /\ Approved(got[c] = "session")
      <3>1. pc'[c] = "allowed"
        BY <2>3
      <3>2. got[c] = "session" => Licensed'
        BY <2>0 DEF Backed, Licensed
      <3>3. Learns /\ yeses > 0 => Licensed'
        BY <2>0, <3>1 DEF Licensed
      <3>4. granted' => granted \/ got[c] = "session" \/ (Learns /\ yeses + 1 >= 2)
        BY <2>3, FlagsAssumption DEF Approved, LEARN_AFTER_APPROVALS
      <3>5. yeses + 1 >= 2 => yeses > 0
        BY DEF LEARN_AFTER_APPROVALS
      <3>6. granted' => Licensed'
        BY <3>2, <3>3, <3>4, <3>5
      <3> QED
        BY <2>0, <2>1, <3>1, <3>6
    <2> QED
      BY <1>22, <2>2, <2>3 DEF Decide
  <1>23. ASSUME NEW c \in Caller, Boundary(c)
        PROVE  YesInv'
    BY <1>23 DEF Boundary
  <1>24. ASSUME NEW c \in Caller, NEW a \in HoldAnswer, TtyPick(c, a)
        PROVE  YesInv'
    BY <1>24 DEF TtyPick
  <1>25. ASSUME NEW q \in Caller, HoldDeadline(q)
        PROVE  YesInv'
    BY <1>25 DEF HoldDeadline
  <1>26. ASSUME NEW q \in Caller, ParkDeadline(q)
        PROVE  YesInv'
    BY <1>26 DEF ParkDeadline
  <1>27. ASSUME NEW c \in Caller, CallerDies(c)
        PROVE  YesInv'
    BY <1>27 DEF CallerDies, Running
  <1>28. ASSUME NEW r \in Remote, AnswererDies(r)
        PROVE  YesInv'
    BY <1>28 DEF AnswererDies
  <1>29. CASE UNCHANGED vars
    BY <1>29 DEF vars
  <1> HIDE DEF TypeInv, TypeOK, ControlOK, VoiceInv, Early, YesInv, Pending,
              Thread, HoldAnswer, RemoteAnswer, CallerPC, AnswerPC, Ended,
              Outcome, Goto, AGoto, End, Yes, files, time, grants, asking,
              answering
  <1> QED
    BY <1>1, <1>2, <1>3, <1>4, <1>5, <1>6, <1>7, <1>8, <1>9, <1>10, <1>11,
       <1>12, <1>13, <1>14, <1>15, <1>16, <1>17, <1>18, <1>19, <1>20, <1>21,
       <1>22, <1>23, <1>24, <1>25, <1>26, <1>27, <1>28, <1>29
       DEF Next, Answer, Ask

-----------------------------------------------------------------------------
(* A caller whose question is up and not parked yet. *)
Open == {"wait", "park_forget", "park_read", "park_write", "settle"}

(* A question is parked only by the caller that asked it, as its last step,  *)
(* and only a parked question is taken up by another caller.                 *)
ParkedInv ==
    /\ \A q \in Caller : record[q] # None /\ record[q].parked => pc[q] = "parked"
    /\ \A t \in Thread : copy[t] # None /\ copy[t].parked => pc[aid[t]] = "parked"
    /\ \A c, q \in Caller : on[c] = q /\ c # q => pc[q] = "parked"
    /\ \A c \in Caller : pc[c] \in Open => on[c] = c
    /\ \A t \in Thread : apc[t] \in {"away", "prompt", "read"} => copy[t] = None

(* Every step keeps parked questions to those who parked them. *)
LEMMA ParkedStep == TypeInv /\ VoiceInv /\ ParkedInv /\ [Next]_vars => ParkedInv'
  <1> SUFFICES ASSUME TypeInv, VoiceInv, ParkedInv, [Next]_vars
               PROVE  ParkedInv'
    OBVIOUS
  <1>k. \A c \in Caller : pc[c] = "parked" => pc'[c] = "parked"
    BY VoiceStep DEF Kept
  <1> USE <1>k, ThreadAssumption, RecordAssumption, InteractiveAssumption DEF TypeInv, TypeOK, ControlOK, Thread, HoldAnswer, RemoteAnswer, CallerPC, AnswerPC, Ended, Outcome, Goto, AGoto, End, Yes, files, time, grants, asking, answering, VoiceInv, Early, ParkedInv, Open, Pending
  <1>1. ASSUME NEW t \in Thread, AnswerRead(t)
        PROVE  ParkedInv'
    BY <1>1 DEF AnswerRead
  <1>2. ASSUME NEW t \in Thread, AnswerClaim(t)
        PROVE  ParkedInv'
    BY <1>2 DEF AnswerClaim
  <1>3. ASSUME NEW t \in Thread, AnswerReread(t)
        PROVE  ParkedInv'
    BY <1>3 DEF AnswerReread
  <1>4. ASSUME NEW t \in Thread, AnswerWrite(t)
        PROVE  ParkedInv'
    <2>1. copy[t] \in Pending /\ aid[t] \in Caller
      BY <1>4 DEF AnswerWrite
    <2>2. record'[aid[t]].parked = copy[t].parked /\ \A q \in Caller : q # aid[t] => record'[q] = record[q]
      BY <1>4, <2>1 DEF AnswerWrite
    <2>3. UNCHANGED <<copy, aid, on, pc>> /\ \A u \in Thread : apc'[u] \in {"away", "prompt", "read"} => apc'[u] = apc[u]
      BY <1>4 DEF AnswerWrite
    <2> QED
      BY <2>1, <2>2, <2>3
  <1>5. ASSUME NEW t \in Thread, AnswerGrant(t)
        PROVE  ParkedInv'
    BY <1>5 DEF AnswerGrant
  <1>6. ASSUME NEW r \in Remote, NEW q \in Caller, NEW a \in RemoteAnswer, Say(r, q, a)
        PROVE  ParkedInv'
    <2>1. UNCHANGED <<record, copy, on, pc>> /\ copy[r] = None
      BY <1>6 DEF Say
    <2>2. \A u \in Thread : u # r => aid'[u] = aid[u] /\ apc'[u] = apc[u]
      BY <1>6 DEF Say
    <2> QED
      BY <2>1, <2>2
  <1>7. ASSUME NEW c \in Caller, Hold(c)
        PROVE  ParkedInv'
    <2>1. UNCHANGED <<record, copy, aid, apc, on>>
      BY <1>7 DEF Hold
    <2>2. \A d \in Caller : pc'[d] \in Open => pc[d] \in Open
      BY <1>7 DEF Hold
    <2> QED
      BY <2>1, <2>2
  <1>8. ASSUME NEW c \in Caller, FromParked(c)
        PROVE  ParkedInv'
    <2>1. UNCHANGED <<record, copy, aid, apc>> /\ pc'[c] \notin Open /\ \A d \in Caller : d # c => pc'[d] = pc[d] /\ on'[d] = on[d]
      BY <1>8 DEF FromParked
    <2>2. on'[c] = on[c] \/ (on'[c] \in Caller /\ pc[on'[c]] = "parked")
      <3>1. ASSUME NEW q \in Caller, ParkedInTime(q), on' = [on EXCEPT ![c] = q]
            PROVE  on'[c] \in Caller /\ pc[on'[c]] = "parked"
        BY <3>1 DEF ParkedInTime
      <3>2. on' = on \/ \E q \in Caller : ParkedInTime(q) /\ on' = [on EXCEPT ![c] = q]
        BY <1>8 DEF FromParked
      <3>3. CASE on' = on
        BY <3>3
      <3>4. CASE \E q \in Caller : ParkedInTime(q) /\ on' = [on EXCEPT ![c] = q]
        <4>1. PICK q \in Caller : ParkedInTime(q) /\ on' = [on EXCEPT ![c] = q]
          BY <3>4
        <4> QED
          BY <3>1, <4>1
      <3> QED
        BY <3>2, <3>3, <3>4
    <2> QED
      BY <2>1, <2>2
  <1>9. ASSUME NEW c \in Caller, Raise(c)
        PROVE  ParkedInv'
    <2>1. UNCHANGED copy /\ copy[c] = None /\ \A q \in Caller : q # c => record'[q] = record[q] /\ on'[q] = on[q]
      BY <1>9 DEF Raise
    <2>2. \A u \in Thread : u # c => aid'[u] = aid[u] /\ apc'[u] = apc[u]
      BY <1>9 DEF Raise
    <2>3. /\ record'[c].parked = FALSE /\ on'[c] = c
          /\ \A d \in Caller : d # c => pc'[d] = pc[d]
      BY <1>9 DEF Raise
    <2> QED
      BY <2>1, <2>2, <2>3
  <1>10. ASSUME NEW c \in Caller, PromptThrows(c)
        PROVE  ParkedInv'
    BY <1>10 DEF PromptThrows
  <1>11. ASSUME NEW c \in Caller, Poll(c)
        PROVE  ParkedInv'
    <2>1. UNCHANGED <<record, copy, aid, apc, on>>
      BY <1>11 DEF Poll
    <2>2. \A d \in Caller : pc'[d] \in Open => pc[d] \in Open
      BY <1>11 DEF Poll
    <2> QED
      BY <2>1, <2>2
  <1>12. ASSUME NEW c \in Caller, PollEnds(c)
        PROVE  ParkedInv'
    BY <1>12 DEF PollEnds
  <1>13. ASSUME NEW c \in Caller, TtyGivesUp(c)
        PROVE  ParkedInv'
    BY <1>13 DEF TtyGivesUp
  <1>14. ASSUME NEW c \in Caller, TtyReturns(c)
        PROVE  ParkedInv'
    BY <1>14 DEF TtyReturns
  <1>15. ASSUME NEW c \in Caller, NobodyAnswers(c)
        PROVE  ParkedInv'
    BY <1>15 DEF NobodyAnswers
  <1>16. ASSUME NEW c \in Caller, ParkForget(c)
        PROVE  ParkedInv'
    BY <1>16 DEF ParkForget
  <1>17. ASSUME NEW c \in Caller, ParkRead(c)
        PROVE  ParkedInv'
    <2>1. UNCHANGED <<record, copy, aid, apc, on>>
      BY <1>17 DEF ParkRead
    <2>2. \A d \in Caller : pc'[d] \in Open => pc[d] \in Open
      BY <1>17 DEF ParkRead
    <2> QED
      BY <2>1, <2>2
  <1>18. ASSUME NEW c \in Caller, ParkWrite(c)
        PROVE  ParkedInv'
    BY <1>18 DEF ParkWrite
  <1>19. ASSUME NEW c \in Caller, Settle(c)
        PROVE  ParkedInv'
    BY <1>19 DEF Settle
  <1>20. ASSUME NEW c \in Caller, ClearClaim(c)
        PROVE  ParkedInv'
    BY <1>20 DEF ClearClaim
  <1>21. ASSUME NEW c \in Caller, ClearRecord(c)
        PROVE  ParkedInv'
    BY <1>21 DEF ClearRecord
  <1>22. ASSUME NEW c \in Caller, Decide(c)
        PROVE  ParkedInv'
    <2>1. UNCHANGED <<record, copy, aid, apc, on>>
      BY <1>22 DEF Decide
    <2>2. \A d \in Caller : pc'[d] \in Open => pc[d] \in Open
      BY <1>22 DEF Decide
    <2> QED
      BY <2>1, <2>2
  <1>23. ASSUME NEW c \in Caller, Boundary(c)
        PROVE  ParkedInv'
    BY <1>23 DEF Boundary
  <1>24. ASSUME NEW c \in Caller, NEW a \in HoldAnswer, TtyPick(c, a)
        PROVE  ParkedInv'
    BY <1>24 DEF TtyPick
  <1>25. ASSUME NEW q \in Caller, HoldDeadline(q)
        PROVE  ParkedInv'
    BY <1>25 DEF HoldDeadline
  <1>26. ASSUME NEW q \in Caller, ParkDeadline(q)
        PROVE  ParkedInv'
    BY <1>26 DEF ParkDeadline
  <1>27. ASSUME NEW c \in Caller, CallerDies(c)
        PROVE  ParkedInv'
    BY <1>27 DEF CallerDies, Running
  <1>28. ASSUME NEW r \in Remote, AnswererDies(r)
        PROVE  ParkedInv'
    BY <1>28 DEF AnswererDies
  <1>29. CASE UNCHANGED vars
    BY <1>29 DEF vars
  <1> HIDE DEF TypeInv, TypeOK, ControlOK, Thread, HoldAnswer, RemoteAnswer, CallerPC, AnswerPC, Ended, Outcome, Goto, AGoto, End, Yes, files, time, grants, asking, answering, VoiceInv, Early, ParkedInv, Open, Pending
  <1> QED
    BY <1>1, <1>2, <1>3, <1>4, <1>5, <1>6, <1>7, <1>8, <1>9, <1>10, <1>11, <1>12, <1>13,
       <1>14, <1>15, <1>16, <1>17, <1>18, <1>19, <1>20, <1>21, <1>22, <1>23, <1>24, <1>25,
       <1>26, <1>27, <1>28, <1>29 DEF Next, Answer, Ask

(* The question of a caller that has not asked is not there; the one of a    *)
(* caller that waits is, its claim was never cleared, and an answer in it    *)
(* is the only one.                                                          *)
OpenInv ==
    \A c \in Caller :
        /\ pc[c] \in Early => /\ record[c] = None /\ c \notin cleared
                              /\ \A t \in Thread : aid[t] # c
        /\ pc[c] \in Open => record[c] # None /\ c \notin cleared
        /\ pc[c] \in Open /\ record[c].answer # None =>
              c \in claimed /\ \A t \in Thread : aid[t] = c => apc[t] # "write"

(* Every step keeps an open question there, with one answer. *)
LEMMA OpenStep ==
    TypeInv /\ ClaimInv /\ VoiceInv /\ ParkedInv /\ OpenInv /\ [Next]_vars => OpenInv'
  <1> SUFFICES ASSUME TypeInv, ClaimInv, VoiceInv, ParkedInv, OpenInv, [Next]_vars
               PROVE  OpenInv'
    OBVIOUS
  <1> USE ThreadAssumption, RecordAssumption, InteractiveAssumption DEF TypeInv, TypeOK, ControlOK, Thread, HoldAnswer, RemoteAnswer, CallerPC, AnswerPC, Ended, Outcome, Goto, AGoto, End, Yes, files, time, grants, asking, answering, VoiceInv, Early, ClaimInv, OneAnswerWhileHeld, Winner, ParkedInv, OpenInv, Open, Pending
  <1>1. ASSUME NEW t \in Thread, AnswerRead(t)
        PROVE  OpenInv'
    BY <1>1 DEF AnswerRead
  <1>2. ASSUME NEW t \in Thread, AnswerClaim(t)
        PROVE  OpenInv'
    BY <1>2 DEF AnswerClaim
  <1>3. ASSUME NEW t \in Thread, AnswerReread(t)
        PROVE  OpenInv'
    BY <1>3 DEF AnswerReread
  <1>4. ASSUME NEW t \in Thread, AnswerWrite(t)
        PROVE  OpenInv'
    <2>1. aid[t] \in Caller /\ \A q \in Caller : q # aid[t] => record'[q] = record[q]
      BY <1>4 DEF AnswerWrite
    <2>2. UNCHANGED <<claimed, cleared, aid, pc>> /\ record'[aid[t]] # None
      BY <1>4 DEF AnswerWrite
    <2>3. pc[aid[t]] \in Open => aid[t] \in claimed /\ \A u \in Thread : aid[u] = aid[t] => apc'[u] # "write"
      BY <1>4 DEF AnswerWrite
    <2>4. \A u \in Thread : apc'[u] = "write" => apc[u] = "write"
      BY <1>4 DEF AnswerWrite
    <2> QED
      BY <2>1, <2>2, <2>3, <2>4
  <1>5. ASSUME NEW t \in Thread, AnswerGrant(t)
        PROVE  OpenInv'
    BY <1>5 DEF AnswerGrant
  <1>6. ASSUME NEW r \in Remote, NEW q \in Caller, NEW a \in RemoteAnswer, Say(r, q, a)
        PROVE  OpenInv'
    BY <1>6 DEF Say
  <1>7. ASSUME NEW c \in Caller, Hold(c)
        PROVE  OpenInv'
    BY <1>7 DEF Hold
  <1>8. ASSUME NEW c \in Caller, FromParked(c)
        PROVE  OpenInv'
    BY <1>8 DEF FromParked, ParkedInTime
  <1>9. ASSUME NEW c \in Caller, Raise(c)
        PROVE  OpenInv'
    <2>1. /\ record'[c] # None /\ record'[c].answer = None
          /\ \A q \in Caller : q # c => record'[q] = record[q]
      <3> DEFINE new == [answer |-> None, by |-> None, parked |-> FALSE]
      <3>1. new \in Pending /\ new.answer = None
        OBVIOUS
      <3>2. record' = [record EXCEPT ![c] = new] /\ DOMAIN record = Caller
        BY <1>9 DEF Raise
      <3>3. new # None
        BY <3>1, RecordAssumption
      <3> HIDE DEF new
      <3> QED
        BY <3>1, <3>2, <3>3
    <2>2. /\ \A q \in Caller : q # c => pc'[q] = pc[q]
          /\ pc'[c] = "wait" /\ c \notin cleared
      BY <1>9 DEF Raise
    <2>3. UNCHANGED <<claimed, cleared>>
      BY <1>9 DEF Raise
    <2>4. \A u \in Thread : u # c => aid'[u] = aid[u] /\ apc'[u] = apc[u]
      BY <1>9 DEF Raise
    <2>5. aid'[c] \in {aid[c], c} /\ (apc'[c] = "write" => apc[c] = "write")
      BY <1>9 DEF Raise
    <2>6. \A d \in Caller, u \in Thread : d # c /\ aid'[u] = d
             => aid[u] = d /\ (apc'[u] = "write" => apc[u] = "write")
      BY <2>4, <2>5
    <2> HIDE DEF TypeInv, TypeOK, ControlOK, VoiceInv, ClaimInv, ParkedInv, Pending,
                 HoldAnswer, RemoteAnswer, CallerPC, AnswerPC, Ended, Outcome, Thread
    <2> QED
      BY <2>1, <2>2, <2>3, <2>6
  <1>10. ASSUME NEW c \in Caller, PromptThrows(c)
        PROVE  OpenInv'
    BY <1>10 DEF PromptThrows
  <1>11. ASSUME NEW c \in Caller, Poll(c)
        PROVE  OpenInv'
    BY <1>11 DEF Poll
  <1>12. ASSUME NEW c \in Caller, PollEnds(c)
        PROVE  OpenInv'
    BY <1>12 DEF PollEnds
  <1>13. ASSUME NEW c \in Caller, TtyGivesUp(c)
        PROVE  OpenInv'
    BY <1>13 DEF TtyGivesUp
  <1>14. ASSUME NEW c \in Caller, TtyReturns(c)
        PROVE  OpenInv'
    BY <1>14 DEF TtyReturns
  <1>15. ASSUME NEW c \in Caller, NobodyAnswers(c)
        PROVE  OpenInv'
    BY <1>15 DEF NobodyAnswers
  <1>16. ASSUME NEW c \in Caller, ParkForget(c)
        PROVE  OpenInv'
    BY <1>16 DEF ParkForget
  <1>17. ASSUME NEW c \in Caller, ParkRead(c)
        PROVE  OpenInv'
    BY <1>17 DEF ParkRead
  <1>18. ASSUME NEW c \in Caller, ParkWrite(c)
        PROVE  OpenInv'
    BY <1>18 DEF ParkWrite
  <1>19. ASSUME NEW c \in Caller, Settle(c)
        PROVE  OpenInv'
    BY <1>19 DEF Settle
  <1>20. ASSUME NEW c \in Caller, ClearClaim(c)
        PROVE  OpenInv'
    BY <1>20 DEF ClearClaim
  <1>21. ASSUME NEW c \in Caller, ClearRecord(c)
        PROVE  OpenInv'
    BY <1>21 DEF ClearRecord
  <1>22. ASSUME NEW c \in Caller, Decide(c)
        PROVE  OpenInv'
    BY <1>22 DEF Decide
  <1>23. ASSUME NEW c \in Caller, Boundary(c)
        PROVE  OpenInv'
    BY <1>23 DEF Boundary
  <1>24. ASSUME NEW c \in Caller, NEW a \in HoldAnswer, TtyPick(c, a)
        PROVE  OpenInv'
    BY <1>24 DEF TtyPick
  <1>25. ASSUME NEW q \in Caller, HoldDeadline(q)
        PROVE  OpenInv'
    BY <1>25 DEF HoldDeadline
  <1>26. ASSUME NEW q \in Caller, ParkDeadline(q)
        PROVE  OpenInv'
    BY <1>26 DEF ParkDeadline
  <1>27. ASSUME NEW c \in Caller, CallerDies(c)
        PROVE  OpenInv'
    BY <1>27 DEF CallerDies, Running
  <1>28. ASSUME NEW r \in Remote, AnswererDies(r)
        PROVE  OpenInv'
    BY <1>28 DEF AnswererDies
  <1>29. CASE UNCHANGED vars
    BY <1>29 DEF vars
  <1> HIDE DEF TypeInv, TypeOK, ControlOK, Thread, HoldAnswer, RemoteAnswer, CallerPC, AnswerPC, Ended, Outcome, Goto, AGoto, End, Yes, files, time, grants, asking, answering, VoiceInv, Early, ClaimInv, OneAnswerWhileHeld, Winner, ParkedInv, OpenInv, Open, Pending
  <1> QED
    BY <1>1, <1>2, <1>3, <1>4, <1>5, <1>6, <1>7, <1>8, <1>9, <1>10, <1>11, <1>12, <1>13,
       <1>14, <1>15, <1>16, <1>17, <1>18, <1>19, <1>20, <1>21, <1>22, <1>23, <1>24, <1>25,
       <1>26, <1>27, <1>28, <1>29 DEF Next, Answer, Ask
-----------------------------------------------------------------------------
(* A thread that is past its one write of a record, or will never make it. *)
PastWrite(t) == apc[t] \notin {"away", "prompt", "read", "claim", "reread", "write"}

(* Past the write is past it for good. *)
LEMMA PastWriteStays ==
    ASSUME TypeInv, VoiceInv, [Next]_vars
    PROVE  \A u \in Thread : PastWrite(u) => PastWrite(u)'
  <1> USE ThreadAssumption, RecordAssumption, InteractiveAssumption DEF TypeInv, TypeOK, ControlOK, Thread, HoldAnswer, RemoteAnswer, CallerPC, AnswerPC, Ended, Outcome, Goto, AGoto, End, Yes, files, time, grants, asking, answering, VoiceInv, Early, PastWrite
  <1>1. ASSUME NEW t \in Thread, AnswerRead(t)
        PROVE  \A u \in Thread : PastWrite(u) => PastWrite(u)'
    BY <1>1 DEF AnswerRead
  <1>2. ASSUME NEW t \in Thread, AnswerClaim(t)
        PROVE  \A u \in Thread : PastWrite(u) => PastWrite(u)'
    BY <1>2 DEF AnswerClaim
  <1>3. ASSUME NEW t \in Thread, AnswerReread(t)
        PROVE  \A u \in Thread : PastWrite(u) => PastWrite(u)'
    BY <1>3 DEF AnswerReread
  <1>4. ASSUME NEW t \in Thread, AnswerWrite(t)
        PROVE  \A u \in Thread : PastWrite(u) => PastWrite(u)'
    BY <1>4 DEF AnswerWrite
  <1>5. ASSUME NEW t \in Thread, AnswerGrant(t)
        PROVE  \A u \in Thread : PastWrite(u) => PastWrite(u)'
    BY <1>5 DEF AnswerGrant
  <1>6. ASSUME NEW r \in Remote, NEW q \in Caller, NEW a \in RemoteAnswer, Say(r, q, a)
        PROVE  \A u \in Thread : PastWrite(u) => PastWrite(u)'
    BY <1>6 DEF Say
  <1>7. ASSUME NEW c \in Caller, Hold(c)
        PROVE  \A u \in Thread : PastWrite(u) => PastWrite(u)'
    BY <1>7 DEF Hold
  <1>8. ASSUME NEW c \in Caller, FromParked(c)
        PROVE  \A u \in Thread : PastWrite(u) => PastWrite(u)'
    BY <1>8 DEF FromParked
  <1>9. ASSUME NEW c \in Caller, Raise(c)
        PROVE  \A u \in Thread : PastWrite(u) => PastWrite(u)'
    BY <1>9 DEF Raise
  <1>10. ASSUME NEW c \in Caller, PromptThrows(c)
        PROVE  \A u \in Thread : PastWrite(u) => PastWrite(u)'
    BY <1>10 DEF PromptThrows
  <1>11. ASSUME NEW c \in Caller, Poll(c)
        PROVE  \A u \in Thread : PastWrite(u) => PastWrite(u)'
    BY <1>11 DEF Poll
  <1>12. ASSUME NEW c \in Caller, PollEnds(c)
        PROVE  \A u \in Thread : PastWrite(u) => PastWrite(u)'
    BY <1>12 DEF PollEnds
  <1>13. ASSUME NEW c \in Caller, TtyGivesUp(c)
        PROVE  \A u \in Thread : PastWrite(u) => PastWrite(u)'
    BY <1>13 DEF TtyGivesUp
  <1>14. ASSUME NEW c \in Caller, TtyReturns(c)
        PROVE  \A u \in Thread : PastWrite(u) => PastWrite(u)'
    BY <1>14 DEF TtyReturns
  <1>15. ASSUME NEW c \in Caller, NobodyAnswers(c)
        PROVE  \A u \in Thread : PastWrite(u) => PastWrite(u)'
    BY <1>15 DEF NobodyAnswers
  <1>16. ASSUME NEW c \in Caller, ParkForget(c)
        PROVE  \A u \in Thread : PastWrite(u) => PastWrite(u)'
    BY <1>16 DEF ParkForget
  <1>17. ASSUME NEW c \in Caller, ParkRead(c)
        PROVE  \A u \in Thread : PastWrite(u) => PastWrite(u)'
    BY <1>17 DEF ParkRead
  <1>18. ASSUME NEW c \in Caller, ParkWrite(c)
        PROVE  \A u \in Thread : PastWrite(u) => PastWrite(u)'
    BY <1>18 DEF ParkWrite
  <1>19. ASSUME NEW c \in Caller, Settle(c)
        PROVE  \A u \in Thread : PastWrite(u) => PastWrite(u)'
    BY <1>19 DEF Settle
  <1>20. ASSUME NEW c \in Caller, ClearClaim(c)
        PROVE  \A u \in Thread : PastWrite(u) => PastWrite(u)'
    BY <1>20 DEF ClearClaim
  <1>21. ASSUME NEW c \in Caller, ClearRecord(c)
        PROVE  \A u \in Thread : PastWrite(u) => PastWrite(u)'
    BY <1>21 DEF ClearRecord
  <1>22. ASSUME NEW c \in Caller, Decide(c)
        PROVE  \A u \in Thread : PastWrite(u) => PastWrite(u)'
    BY <1>22 DEF Decide
  <1>23. ASSUME NEW c \in Caller, Boundary(c)
        PROVE  \A u \in Thread : PastWrite(u) => PastWrite(u)'
    BY <1>23 DEF Boundary
  <1>24. ASSUME NEW c \in Caller, NEW a \in HoldAnswer, TtyPick(c, a)
        PROVE  \A u \in Thread : PastWrite(u) => PastWrite(u)'
    BY <1>24 DEF TtyPick
  <1>25. ASSUME NEW q \in Caller, HoldDeadline(q)
        PROVE  \A u \in Thread : PastWrite(u) => PastWrite(u)'
    BY <1>25 DEF HoldDeadline
  <1>26. ASSUME NEW q \in Caller, ParkDeadline(q)
        PROVE  \A u \in Thread : PastWrite(u) => PastWrite(u)'
    BY <1>26 DEF ParkDeadline
  <1>27. ASSUME NEW c \in Caller, CallerDies(c)
        PROVE  \A u \in Thread : PastWrite(u) => PastWrite(u)'
    BY <1>27 DEF CallerDies
  <1>28. ASSUME NEW r \in Remote, AnswererDies(r)
        PROVE  \A u \in Thread : PastWrite(u) => PastWrite(u)'
    BY <1>28 DEF AnswererDies
  <1>29. CASE UNCHANGED vars
    BY <1>29 DEF vars
  <1> HIDE DEF TypeInv, TypeOK, ControlOK, Thread, HoldAnswer, RemoteAnswer, CallerPC, AnswerPC, Ended, Outcome, Goto, AGoto, End, Yes, files, time, grants, asking, answering, VoiceInv, Early, PastWrite
  <1> QED
    BY <1>1, <1>2, <1>3, <1>4, <1>5, <1>6, <1>7, <1>8, <1>9, <1>10, <1>11, <1>12, <1>13,
       <1>14, <1>15, <1>16, <1>17, <1>18, <1>19, <1>20, <1>21, <1>22, <1>23, <1>24, <1>25,
       <1>26, <1>27, <1>28, <1>29 DEF Next, Answer, Ask

(* The answer in a record of question q was written by who said it. *)
Authored(q, r) ==
    r.answer # None => /\ r.by \in Thread /\ PastWrite(r.by)
                       /\ aid[r.by] = q /\ aans[r.by] = r.answer

(* So is every answer in a record and in park()'s copy of one. *)
AuthorInv ==
    /\ \A q \in Caller : record[q] # None => Authored(q, record[q])
    /\ \A c \in Caller : kept[c] # None => Authored(c, kept[c])

(* Who wrote an answer stays who wrote it. *)
LEMMA AuthoredKept ==
    ASSUME TypeInv, VoiceInv, [Next]_vars, NEW q, NEW r, Authored(q, r)
    PROVE  Authored(q, r)'
  <1>1. Kept
    BY VoiceStep
  <1>2. CASE r.answer = None
    BY <1>2 DEF Authored
  <1>3. CASE r.answer # None
    <2>1. /\ r.by \in Thread /\ PastWrite(r.by) /\ aid[r.by] = q /\ aans[r.by] = r.answer
      BY <1>3 DEF Authored
    <2>2. PastWrite(r.by)'
      BY <2>1, PastWriteStays
    <2> QED
      BY <1>1, <1>3, <2>1, <2>2 DEF Kept, Authored
  <1> QED
    BY <1>2, <1>3

(* Every step keeps who wrote each answer. *)
LEMMA AuthorStep == TypeInv /\ VoiceInv /\ AuthorInv /\ [Next]_vars => AuthorInv'
  <1> SUFFICES ASSUME TypeInv, VoiceInv, AuthorInv, [Next]_vars
               PROVE  AuthorInv'
    OBVIOUS
  <1>b. \A q, r : Authored(q, r) => Authored(q, r)'
    BY AuthoredKept
  <1> USE <1>b, ThreadAssumption, RecordAssumption, InteractiveAssumption DEF TypeInv, TypeOK, ControlOK, Thread, HoldAnswer, RemoteAnswer, CallerPC, AnswerPC, Ended, Outcome, Goto, AGoto, End, Yes, files, time, grants, asking, answering, AuthorInv
  <1>1. ASSUME NEW t \in Thread, AnswerRead(t)
        PROVE  AuthorInv'
    BY <1>1 DEF AnswerRead
  <1>2. ASSUME NEW t \in Thread, AnswerClaim(t)
        PROVE  AuthorInv'
    BY <1>2 DEF AnswerClaim
  <1>3. ASSUME NEW t \in Thread, AnswerReread(t)
        PROVE  AuthorInv'
    BY <1>3 DEF AnswerReread
  <1>4. ASSUME NEW t \in Thread, AnswerWrite(t)
        PROVE  AuthorInv'
    <2> DEFINE new == [answer |-> aans[t], by |-> t, parked |-> copy[t].parked]
    <2>1. new.answer = aans[t] /\ new.by = t
      OBVIOUS
    <2>2. UNCHANGED <<kept, aid, aans>> /\ record' = [record EXCEPT ![aid[t]] = new] /\ aid[t] \in Caller
      BY <1>4 DEF AnswerWrite
    <2>3. PastWrite(t)'
      BY <1>4 DEF AnswerWrite, PastWrite
    <2> HIDE DEF new
    <2>4. Authored(aid[t], new)'
      <3>1. aid'[t] = aid[t] /\ aans'[t] = aans[t]
        BY <2>2
      <3>2. new'.by \in Thread /\ new'.answer = aans'[t] /\ new'.by = t
        BY DEF new
      <3> QED
        BY <2>3, <3>1, <3>2 DEF Authored
    <2>5. record'[aid[t]] = new'
      BY <1>4, <2>2 DEF AnswerWrite, new
    <2> QED
      BY <2>2, <2>4, <2>5
  <1>5. ASSUME NEW t \in Thread, AnswerGrant(t)
        PROVE  AuthorInv'
    BY <1>5 DEF AnswerGrant
  <1>6. ASSUME NEW r \in Remote, NEW q \in Caller, NEW a \in RemoteAnswer, Say(r, q, a)
        PROVE  AuthorInv'
    BY <1>6 DEF Say
  <1>7. ASSUME NEW c \in Caller, Hold(c)
        PROVE  AuthorInv'
    BY <1>7 DEF Hold
  <1>8. ASSUME NEW c \in Caller, FromParked(c)
        PROVE  AuthorInv'
    BY <1>8 DEF FromParked
  <1>9. ASSUME NEW c \in Caller, Raise(c)
        PROVE  AuthorInv'
    <2>1. record'[c].answer = None /\ UNCHANGED kept /\ \A q \in Caller : q # c => record'[q] = record[q]
      BY <1>9 DEF Raise
    <2>2. Authored(c, record[c])'
      BY <2>1 DEF Authored
    <2> QED
      BY <2>1, <2>2
  <1>10. ASSUME NEW c \in Caller, PromptThrows(c)
        PROVE  AuthorInv'
    BY <1>10 DEF PromptThrows
  <1>11. ASSUME NEW c \in Caller, Poll(c)
        PROVE  AuthorInv'
    BY <1>11 DEF Poll
  <1>12. ASSUME NEW c \in Caller, PollEnds(c)
        PROVE  AuthorInv'
    BY <1>12 DEF PollEnds
  <1>13. ASSUME NEW c \in Caller, TtyGivesUp(c)
        PROVE  AuthorInv'
    BY <1>13 DEF TtyGivesUp
  <1>14. ASSUME NEW c \in Caller, TtyReturns(c)
        PROVE  AuthorInv'
    BY <1>14 DEF TtyReturns
  <1>15. ASSUME NEW c \in Caller, NobodyAnswers(c)
        PROVE  AuthorInv'
    BY <1>15 DEF NobodyAnswers
  <1>16. ASSUME NEW c \in Caller, ParkForget(c)
        PROVE  AuthorInv'
    BY <1>16 DEF ParkForget
  <1>17. ASSUME NEW c \in Caller, ParkRead(c)
        PROVE  AuthorInv'
    BY <1>17 DEF ParkRead
  <1>18. ASSUME NEW c \in Caller, ParkWrite(c)
        PROVE  AuthorInv'
    <2> DEFINE new == [kept[c] EXCEPT !.parked = TRUE]
    <2>1. kept[c] \in Pending /\ kept[c] # None
      BY <1>18 DEF ParkWrite
    <2>2. new.answer = kept[c].answer /\ new.by = kept[c].by
      BY <2>1 DEF Pending
    <2>3. UNCHANGED <<kept, aid, aans, apc>> /\ record' = [record EXCEPT ![c] = new]
      BY <1>18 DEF ParkWrite
    <2> HIDE DEF new
    <2>4. record'[c].answer = kept[c].answer /\ record'[c].by = kept[c].by
      BY <2>2, <2>3
    <2>5. Authored(c, kept[c])
      BY <2>1
    <2>6. Authored(c, record[c])'
      BY <2>3, <2>4, <2>5 DEF Authored, PastWrite
    <2> QED
      BY <2>3, <2>6
  <1>19. ASSUME NEW c \in Caller, Settle(c)
        PROVE  AuthorInv'
    BY <1>19 DEF Settle
  <1>20. ASSUME NEW c \in Caller, ClearClaim(c)
        PROVE  AuthorInv'
    BY <1>20 DEF ClearClaim
  <1>21. ASSUME NEW c \in Caller, ClearRecord(c)
        PROVE  AuthorInv'
    BY <1>21 DEF ClearRecord
  <1>22. ASSUME NEW c \in Caller, Decide(c)
        PROVE  AuthorInv'
    BY <1>22 DEF Decide
  <1>23. ASSUME NEW c \in Caller, Boundary(c)
        PROVE  AuthorInv'
    BY <1>23 DEF Boundary
  <1>24. ASSUME NEW c \in Caller, NEW a \in HoldAnswer, TtyPick(c, a)
        PROVE  AuthorInv'
    BY <1>24 DEF TtyPick
  <1>25. ASSUME NEW q \in Caller, HoldDeadline(q)
        PROVE  AuthorInv'
    BY <1>25 DEF HoldDeadline
  <1>26. ASSUME NEW q \in Caller, ParkDeadline(q)
        PROVE  AuthorInv'
    BY <1>26 DEF ParkDeadline
  <1>27. ASSUME NEW c \in Caller, CallerDies(c)
        PROVE  AuthorInv'
    BY <1>27 DEF CallerDies
  <1>28. ASSUME NEW r \in Remote, AnswererDies(r)
        PROVE  AuthorInv'
    BY <1>28 DEF AnswererDies
  <1>29. CASE UNCHANGED vars
    BY <1>29 DEF vars
  <1> HIDE DEF TypeInv, TypeOK, ControlOK, Thread, HoldAnswer, RemoteAnswer, CallerPC, AnswerPC, Ended, Outcome, Goto, AGoto, End, Yes, files, time, grants, asking, answering, AuthorInv
  <1> QED
    BY <1>1, <1>2, <1>3, <1>4, <1>5, <1>6, <1>7, <1>8, <1>9, <1>10, <1>11, <1>12, <1>13,
       <1>14, <1>15, <1>16, <1>17, <1>18, <1>19, <1>20, <1>21, <1>22, <1>23, <1>24, <1>25,
       <1>26, <1>27, <1>28, <1>29 DEF Next, Answer, Ask

(* A caller without a terminal acts on the answer in its question's file. *)
FileInv ==
    \A c \in Caller \ Interactive :
        /\ apc[c] = "away"
        /\ pc[c] = "settle" /\ got[c] # None => record[c].answer = got[c]
        /\ pc[c] = "wait" => got[c] = None

(* Every step leaves the answer a caller took from the file in it. *)
LEMMA FileStep ==
    TypeInv /\ VoiceInv /\ ParkedInv /\ OpenInv /\ FileInv /\ [Next]_vars => FileInv'
  <1> SUFFICES ASSUME TypeInv, VoiceInv, ParkedInv, OpenInv, FileInv, [Next]_vars
               PROVE  FileInv'
    OBVIOUS
  <1> USE ThreadAssumption, RecordAssumption, InteractiveAssumption DEF TypeInv, TypeOK, ControlOK, Thread, HoldAnswer, RemoteAnswer, CallerPC, AnswerPC, Ended, Outcome, Goto, AGoto, End, Yes, files, time, grants, asking, answering, VoiceInv, Early, ParkedInv, OpenInv, Open, FileInv, Pending
  <1>1. ASSUME NEW t \in Thread, AnswerRead(t)
        PROVE  FileInv'
    BY <1>1 DEF AnswerRead
  <1>2. ASSUME NEW t \in Thread, AnswerClaim(t)
        PROVE  FileInv'
    BY <1>2 DEF AnswerClaim
  <1>3. ASSUME NEW t \in Thread, AnswerReread(t)
        PROVE  FileInv'
    BY <1>3 DEF AnswerReread
  <1>4. ASSUME NEW t \in Thread, AnswerWrite(t)
        PROVE  FileInv'
    BY <1>4 DEF AnswerWrite
  <1>5. ASSUME NEW t \in Thread, AnswerGrant(t)
        PROVE  FileInv'
    BY <1>5 DEF AnswerGrant
  <1>6. ASSUME NEW r \in Remote, NEW q \in Caller, NEW a \in RemoteAnswer, Say(r, q, a)
        PROVE  FileInv'
    BY <1>6 DEF Say
  <1>7. ASSUME NEW c \in Caller, Hold(c)
        PROVE  FileInv'
    BY <1>7 DEF Hold
  <1>8. ASSUME NEW c \in Caller, FromParked(c)
        PROVE  FileInv'
    BY <1>8 DEF FromParked, ParkedInTime
  <1>9. ASSUME NEW c \in Caller, Raise(c)
        PROVE  FileInv'
    BY <1>9 DEF Raise
  <1>10. ASSUME NEW c \in Caller, PromptThrows(c)
        PROVE  FileInv'
    BY <1>10 DEF PromptThrows
  <1>11. ASSUME NEW c \in Caller, Poll(c)
        PROVE  FileInv'
    BY <1>11 DEF Poll
  <1>12. ASSUME NEW c \in Caller, PollEnds(c)
        PROVE  FileInv'
    BY <1>12 DEF PollEnds
  <1>13. ASSUME NEW c \in Caller, TtyGivesUp(c)
        PROVE  FileInv'
    BY <1>13 DEF TtyGivesUp
  <1>14. ASSUME NEW c \in Caller, TtyReturns(c)
        PROVE  FileInv'
    BY <1>14 DEF TtyReturns
  <1>15. ASSUME NEW c \in Caller, NobodyAnswers(c)
        PROVE  FileInv'
    BY <1>15 DEF NobodyAnswers
  <1>16. ASSUME NEW c \in Caller, ParkForget(c)
        PROVE  FileInv'
    BY <1>16 DEF ParkForget
  <1>17. ASSUME NEW c \in Caller, ParkRead(c)
        PROVE  FileInv'
    BY <1>17 DEF ParkRead
  <1>18. ASSUME NEW c \in Caller, ParkWrite(c)
        PROVE  FileInv'
    BY <1>18 DEF ParkWrite
  <1>19. ASSUME NEW c \in Caller, Settle(c)
        PROVE  FileInv'
    BY <1>19 DEF Settle
  <1>20. ASSUME NEW c \in Caller, ClearClaim(c)
        PROVE  FileInv'
    BY <1>20 DEF ClearClaim
  <1>21. ASSUME NEW c \in Caller, ClearRecord(c)
        PROVE  FileInv'
    BY <1>21 DEF ClearRecord
  <1>22. ASSUME NEW c \in Caller, Decide(c)
        PROVE  FileInv'
    BY <1>22 DEF Decide
  <1>23. ASSUME NEW c \in Caller, Boundary(c)
        PROVE  FileInv'
    BY <1>23 DEF Boundary
  <1>24. ASSUME NEW c \in Caller, NEW a \in HoldAnswer, TtyPick(c, a)
        PROVE  FileInv'
    BY <1>24 DEF TtyPick
  <1>25. ASSUME NEW q \in Caller, HoldDeadline(q)
        PROVE  FileInv'
    BY <1>25 DEF HoldDeadline
  <1>26. ASSUME NEW q \in Caller, ParkDeadline(q)
        PROVE  FileInv'
    BY <1>26 DEF ParkDeadline
  <1>27. ASSUME NEW c \in Caller, CallerDies(c)
        PROVE  FileInv'
    BY <1>27 DEF CallerDies, Running
  <1>28. ASSUME NEW r \in Remote, AnswererDies(r)
        PROVE  FileInv'
    BY <1>28 DEF AnswererDies
  <1>29. CASE UNCHANGED vars
    BY <1>29 DEF vars
  <1> HIDE DEF TypeInv, TypeOK, ControlOK, Thread, HoldAnswer, RemoteAnswer, CallerPC, AnswerPC, Ended, Outcome, Goto, AGoto, End, Yes, files, time, grants, asking, answering, VoiceInv, Early, ParkedInv, OpenInv, Open, FileInv, Pending
  <1> QED
    BY <1>1, <1>2, <1>3, <1>4, <1>5, <1>6, <1>7, <1>8, <1>9, <1>10, <1>11, <1>12, <1>13,
       <1>14, <1>15, <1>16, <1>17, <1>18, <1>19, <1>20, <1>21, <1>22, <1>23, <1>24, <1>25,
       <1>26, <1>27, <1>28, <1>29 DEF Next, Answer, Ask
-----------------------------------------------------------------------------
(* Each call past the project boundary has a single yes of its own, given    *)
(* and no longer to be spent.                                                *)
SpentOn(g) ==
    /\ \A c \in Caller : second[c] = "passed" =>
          g[c] \notin once /\ apc[g[c]] = "answered" /\ aans[g[c]] = "once"
    /\ \A c, d \in Caller : second[c] = "passed" /\ second[d] = "passed" /\ g[c] = g[d]
          => c = d

(* The single yeses to spend are given ones, and those spent are apart. *)
SpentInv ==
    /\ \A t \in once : apc[t] = "answered" /\ aans[t] = "once"
    /\ ~granted => \E g \in [Caller -> Thread] : SpentOn(g)

(* Away from the boundary nothing passes it, no yes is spent, and a yes is   *)
(* added as it is given.                                                     *)
OffBoundary ==
    /\ second' = second
    /\ \A t \in once' : t \in once \/ (apc[t] = "grant" /\ aans[t] = "once" /\ apc'[t] = "answered")

(* A step is of the boundary or off it; what is granted or answered stays. *)
LEMMA BoundaryFrame ==
    ASSUME TypeInv, VoiceInv, [Next]_vars
    PROVE  /\ granted => granted'
           /\ \A u \in Thread : apc[u] = "answered" => apc'[u] = "answered"
           /\ OffBoundary \/ \E c \in Caller : Boundary(c)
  <1> DEFINE Goal == /\ granted => granted'
                     /\ \A u \in Thread : apc[u] = "answered" => apc'[u] = "answered"
                     /\ OffBoundary \/ \E c \in Caller : Boundary(c)
  <1> USE ThreadAssumption, RecordAssumption, InteractiveAssumption DEF TypeInv, TypeOK, ControlOK, Thread, HoldAnswer, RemoteAnswer, CallerPC, AnswerPC, Ended, Outcome, Goto, AGoto, End, Yes, files, time, grants, asking, answering, VoiceInv, Early, OffBoundary
  <1>1. ASSUME NEW t \in Thread, AnswerRead(t)
        PROVE  Goal
    BY <1>1 DEF AnswerRead
  <1>2. ASSUME NEW t \in Thread, AnswerClaim(t)
        PROVE  Goal
    BY <1>2 DEF AnswerClaim
  <1>3. ASSUME NEW t \in Thread, AnswerReread(t)
        PROVE  Goal
    BY <1>3 DEF AnswerReread
  <1>4. ASSUME NEW t \in Thread, AnswerWrite(t)
        PROVE  Goal
    BY <1>4 DEF AnswerWrite
  <1>5. ASSUME NEW t \in Thread, AnswerGrant(t)
        PROVE  Goal
    BY <1>5 DEF AnswerGrant
  <1>6. ASSUME NEW r \in Remote, NEW q \in Caller, NEW a \in RemoteAnswer, Say(r, q, a)
        PROVE  Goal
    BY <1>6 DEF Say
  <1>7. ASSUME NEW c \in Caller, Hold(c)
        PROVE  Goal
    BY <1>7 DEF Hold
  <1>8. ASSUME NEW c \in Caller, FromParked(c)
        PROVE  Goal
    BY <1>8 DEF FromParked
  <1>9. ASSUME NEW c \in Caller, Raise(c)
        PROVE  Goal
    BY <1>9 DEF Raise
  <1>10. ASSUME NEW c \in Caller, PromptThrows(c)
        PROVE  Goal
    BY <1>10 DEF PromptThrows
  <1>11. ASSUME NEW c \in Caller, Poll(c)
        PROVE  Goal
    BY <1>11 DEF Poll
  <1>12. ASSUME NEW c \in Caller, PollEnds(c)
        PROVE  Goal
    BY <1>12 DEF PollEnds
  <1>13. ASSUME NEW c \in Caller, TtyGivesUp(c)
        PROVE  Goal
    BY <1>13 DEF TtyGivesUp
  <1>14. ASSUME NEW c \in Caller, TtyReturns(c)
        PROVE  Goal
    BY <1>14 DEF TtyReturns
  <1>15. ASSUME NEW c \in Caller, NobodyAnswers(c)
        PROVE  Goal
    BY <1>15 DEF NobodyAnswers
  <1>16. ASSUME NEW c \in Caller, ParkForget(c)
        PROVE  Goal
    BY <1>16 DEF ParkForget
  <1>17. ASSUME NEW c \in Caller, ParkRead(c)
        PROVE  Goal
    BY <1>17 DEF ParkRead
  <1>18. ASSUME NEW c \in Caller, ParkWrite(c)
        PROVE  Goal
    BY <1>18 DEF ParkWrite
  <1>19. ASSUME NEW c \in Caller, Settle(c)
        PROVE  Goal
    BY <1>19 DEF Settle
  <1>20. ASSUME NEW c \in Caller, ClearClaim(c)
        PROVE  Goal
    BY <1>20 DEF ClearClaim
  <1>21. ASSUME NEW c \in Caller, ClearRecord(c)
        PROVE  Goal
    BY <1>21 DEF ClearRecord
  <1>22. ASSUME NEW c \in Caller, Decide(c)
        PROVE  Goal
    <2>1. granted => granted'
      BY <1>22 DEF Decide, Approved
    <2>2. UNCHANGED <<apc, second, once>>
      BY <1>22 DEF Decide
    <2> QED
      BY <2>1, <2>2
  <1>23. ASSUME NEW c \in Caller, Boundary(c)
        PROVE  Goal
    <2>1. granted' = granted /\ apc' = apc
      BY <1>23 DEF Boundary
    <2> QED
      BY <1>23, <2>1
  <1>24. ASSUME NEW c \in Caller, NEW a \in HoldAnswer, TtyPick(c, a)
        PROVE  Goal
    BY <1>24 DEF TtyPick
  <1>25. ASSUME NEW q \in Caller, HoldDeadline(q)
        PROVE  Goal
    BY <1>25 DEF HoldDeadline
  <1>26. ASSUME NEW q \in Caller, ParkDeadline(q)
        PROVE  Goal
    BY <1>26 DEF ParkDeadline
  <1>27. ASSUME NEW c \in Caller, CallerDies(c)
        PROVE  Goal
    BY <1>27 DEF CallerDies
  <1>28. ASSUME NEW r \in Remote, AnswererDies(r)
        PROVE  Goal
    BY <1>28 DEF AnswererDies
  <1>29. CASE UNCHANGED vars
    BY <1>29 DEF vars
  <1> HIDE DEF TypeInv, TypeOK, ControlOK, Thread, HoldAnswer, RemoteAnswer, CallerPC, AnswerPC, Ended, Outcome, Goto, AGoto, End, Yes, files, time, grants, asking, answering, VoiceInv, Early, OffBoundary
  <1> QED
    BY <1>1, <1>2, <1>3, <1>4, <1>5, <1>6, <1>7, <1>8, <1>9, <1>10, <1>11, <1>12, <1>13,
       <1>14, <1>15, <1>16, <1>17, <1>18, <1>19, <1>20, <1>21, <1>22, <1>23, <1>24, <1>25,
       <1>26, <1>27, <1>28, <1>29 DEF Next, Answer, Ask

(* Every step keeps the single yeses apart. *)
LEMMA SpentStep == TypeInv /\ VoiceInv /\ SpentInv /\ [Next]_vars => SpentInv'
  <1> SUFFICES ASSUME TypeInv, VoiceInv, SpentInv, [Next]_vars
               PROVE  SpentInv'
    OBVIOUS
  <1>1. /\ granted => granted'
        /\ \A u \in Thread : apc[u] = "answered" => apc'[u] = "answered"
        /\ OffBoundary \/ \E c \in Caller : Boundary(c)
    BY BoundaryFrame
  <1>2. \A u \in Thread : aans[u] = "once" => aans'[u] = "once"
    BY VoiceStep, ThreadAssumption DEF Kept
  <1>3. once \subseteq Thread /\ once' \subseteq Thread
    BY TypeStep DEF TypeInv, TypeOK
  <1>4. ASSUME OffBoundary, NEW g \in [Caller -> Thread], SpentOn(g)
        PROVE  SpentOn(g)'
    <2>1. ASSUME NEW c \in Caller, second'[c] = "passed"
          PROVE  g[c] \notin once' /\ apc'[g[c]] = "answered" /\ aans'[g[c]] = "once"
      <3>1. g[c] \in Thread /\ g[c] \notin once /\ apc[g[c]] = "answered" /\ aans[g[c]] = "once"
        BY <1>4, <2>1 DEF SpentOn, OffBoundary
      <3> QED
        BY <1>1, <1>2, <1>4, <3>1 DEF OffBoundary
    <2> QED
      BY <1>4, <2>1 DEF SpentOn, OffBoundary
  <1>5. CASE OffBoundary
    <2>1. \A t \in once' : apc'[t] = "answered" /\ aans'[t] = "once"
      BY <1>1, <1>2, <1>3, <1>5 DEF OffBoundary, SpentInv
    <2> QED
      BY <1>1, <1>4, <1>5, <2>1 DEF SpentInv
  <1>6. ASSUME NEW c \in Caller, Boundary(c)
        PROVE  SpentInv'
    <2>1. /\ UNCHANGED <<apc, aans, granted>> /\ once' \subseteq once
          /\ second' \in [Caller -> {"due", "passed", "asked"}]
          /\ second[c] = "due" /\ \A d \in Caller : d # c => second'[d] = second[d]
      BY <1>6, TypeStep DEF Boundary, TypeInv, TypeOK, answering
    <2>2. ASSUME ~granted
          PROVE  \E g \in [Caller -> Thread] : SpentOn(g)'
      <3>1. PICK g \in [Caller -> Thread] : SpentOn(g)
        BY <2>2 DEF SpentInv
      <3>2. CASE second'[c] # "passed"
        BY <2>1, <3>1, <3>2 DEF SpentOn
      <3>3. CASE second'[c] = "passed"
        <4>1. PICK t \in once : t \notin once'
          BY <1>6, <2>2, <3>3 DEF Boundary, TypeInv, TypeOK
        <4>2. t \in Thread /\ apc[t] = "answered" /\ aans[t] = "once"
          BY <1>3 DEF SpentInv
        <4> DEFINE h == [g EXCEPT ![c] = t]
        <4>3. h \in [Caller -> Thread] /\ h[c] = t /\ \A d \in Caller : d # c => h[d] = g[d]
          BY <4>2
        <4> HIDE DEF h
        <4>4. \A d \in Caller : second'[d] = "passed" /\ d # c =>
                 h[d] = g[d] /\ g[d] \notin once /\ apc[g[d]] = "answered" /\ aans[g[d]] = "once"
          BY <2>1, <3>1, <4>3 DEF SpentOn
        <4>5. SpentOn(h)'
          <5>1. \A d \in Caller : second'[d] = "passed" =>
                   h[d] \notin once' /\ apc'[h[d]] = "answered" /\ aans'[h[d]] = "once"
            BY <2>1, <4>1, <4>2, <4>3, <4>4
          <5>2. \A d, e \in Caller : second'[d] = "passed" /\ second'[e] = "passed" /\ h[d] = h[e] => d = e
            BY <2>1, <3>1, <4>1, <4>3, <4>4 DEF SpentOn
          <5>3. h' = h
            BY <4>3 DEF h
          <5> QED
            BY <5>1, <5>2, <5>3 DEF SpentOn
        <4>6. h' = h
          BY DEF h
        <4> QED
          BY <4>3, <4>5, <4>6 DEF SpentOn
      <3> QED
        BY <3>2, <3>3
    <2> QED
      BY <1>3, <2>1, <2>2 DEF SpentInv
  <1> QED
    BY <1>1, <1>5, <1>6
-----------------------------------------------------------------------------
(* A caller acting on a single yes to question q: it read it and has the     *)
(* question still to clear, or has cleared it and goes on.                   *)
Taking == {"clear_claim", "clear_record"}
Taken == {"decide", "allowed"}
Uses(c, q) == on[c] = q /\ got[c] = "once" /\ pc[c] \in Taking \cup Taken

(* Each of them has a yes of its own, and the one in q's record, once its    *)
(* taker has cleared, is another.                                            *)
TakenFrom(q, f) ==
    /\ \A c \in Caller : Uses(c, q) =>
          PastWrite(f[c]) /\ aid[f[c]] = q /\ aans[f[c]] = "once"
    /\ \A c, d \in Caller : Uses(c, q) /\ Uses(d, q) /\ f[c] = f[d] => c = d
    /\ \A c \in Caller : Uses(c, q) /\ pc[c] \in Taken /\ record[q] # None
          => record[q].by # f[c]

(* Where the tries of the call run one after another. *)
SerialInv ==
    /\ \A c, d \in Caller : Running(c) /\ Running(d) => c = d
    /\ \A q \in Caller : pc[q] = "parked" => \E f \in [Caller -> Thread] : TakenFrom(q, f)

(* What a step does to who uses a parked question, and to its record. *)
ParkedFrame(q) ==
    /\ \A c \in Caller : Uses(c, q)' => Uses(c, q) \/ FromParked(c)
    /\ \A c \in Caller : Uses(c, q)' /\ pc'[c] \in Taken /\ record'[q] # None => pc[c] \in Taken
    /\ record'[q] # None => \/ record'[q] = record[q]
                            \/ record'[q].by \in Thread /\ apc[record'[q].by] = "write"

(* Only FromParked takes a parked question up, and clear() removes it. *)
LEMMA ParkedFrameStep ==
    ASSUME TypeInv, VoiceInv, ParkedInv, [Next]_vars, NEW p \in Caller, pc[p] = "parked"
    PROVE  ParkedFrame(p)
  <1> USE ThreadAssumption, RecordAssumption, InteractiveAssumption DEF TypeInv, TypeOK, ControlOK, Thread, HoldAnswer, RemoteAnswer, CallerPC, AnswerPC, Ended, Outcome, Goto, AGoto, End, Yes, files, time, grants, asking, answering, ParkedInv, Open, ParkedFrame, Uses, Taking, Taken
  <1>1. ASSUME NEW t \in Thread, AnswerRead(t)
        PROVE  ParkedFrame(p)
    BY <1>1 DEF AnswerRead
  <1>2. ASSUME NEW t \in Thread, AnswerClaim(t)
        PROVE  ParkedFrame(p)
    BY <1>2 DEF AnswerClaim
  <1>3. ASSUME NEW t \in Thread, AnswerReread(t)
        PROVE  ParkedFrame(p)
    BY <1>3 DEF AnswerReread
  <1>4. ASSUME NEW t \in Thread, AnswerWrite(t)
        PROVE  ParkedFrame(p)
    BY <1>4 DEF AnswerWrite
  <1>5. ASSUME NEW t \in Thread, AnswerGrant(t)
        PROVE  ParkedFrame(p)
    BY <1>5 DEF AnswerGrant
  <1>6. ASSUME NEW r \in Remote, NEW q \in Caller, NEW a \in RemoteAnswer, Say(r, q, a)
        PROVE  ParkedFrame(p)
    BY <1>6 DEF Say
  <1>7. ASSUME NEW c \in Caller, Hold(c)
        PROVE  ParkedFrame(p)
    BY <1>7 DEF Hold
  <1>8. ASSUME NEW c \in Caller, FromParked(c)
        PROVE  ParkedFrame(p)
    <2>1. record' = record /\ pc'[c] \notin Taken /\ \A d \in Caller : d # c => pc'[d] = pc[d] /\ on'[d] = on[d] /\ got'[d] = got[d]
      BY <1>8 DEF FromParked
    <2> QED
      BY <1>8, <2>1
  <1>9. ASSUME NEW c \in Caller, Raise(c)
        PROVE  ParkedFrame(p)
    BY <1>9 DEF Raise
  <1>10. ASSUME NEW c \in Caller, PromptThrows(c)
        PROVE  ParkedFrame(p)
    BY <1>10 DEF PromptThrows
  <1>11. ASSUME NEW c \in Caller, Poll(c)
        PROVE  ParkedFrame(p)
    BY <1>11 DEF Poll
  <1>12. ASSUME NEW c \in Caller, PollEnds(c)
        PROVE  ParkedFrame(p)
    BY <1>12 DEF PollEnds
  <1>13. ASSUME NEW c \in Caller, TtyGivesUp(c)
        PROVE  ParkedFrame(p)
    BY <1>13 DEF TtyGivesUp
  <1>14. ASSUME NEW c \in Caller, TtyReturns(c)
        PROVE  ParkedFrame(p)
    BY <1>14 DEF TtyReturns
  <1>15. ASSUME NEW c \in Caller, NobodyAnswers(c)
        PROVE  ParkedFrame(p)
    BY <1>15 DEF NobodyAnswers
  <1>16. ASSUME NEW c \in Caller, ParkForget(c)
        PROVE  ParkedFrame(p)
    BY <1>16 DEF ParkForget
  <1>17. ASSUME NEW c \in Caller, ParkRead(c)
        PROVE  ParkedFrame(p)
    BY <1>17 DEF ParkRead
  <1>18. ASSUME NEW c \in Caller, ParkWrite(c)
        PROVE  ParkedFrame(p)
    BY <1>18 DEF ParkWrite
  <1>19. ASSUME NEW c \in Caller, Settle(c)
        PROVE  ParkedFrame(p)
    BY <1>19 DEF Settle
  <1>20. ASSUME NEW c \in Caller, ClearClaim(c)
        PROVE  ParkedFrame(p)
    BY <1>20 DEF ClearClaim
  <1>21. ASSUME NEW c \in Caller, ClearRecord(c)
        PROVE  ParkedFrame(p)
    BY <1>21 DEF ClearRecord
  <1>22. ASSUME NEW c \in Caller, Decide(c)
        PROVE  ParkedFrame(p)
    BY <1>22 DEF Decide
  <1>23. ASSUME NEW c \in Caller, Boundary(c)
        PROVE  ParkedFrame(p)
    BY <1>23 DEF Boundary
  <1>24. ASSUME NEW c \in Caller, NEW a \in HoldAnswer, TtyPick(c, a)
        PROVE  ParkedFrame(p)
    BY <1>24 DEF TtyPick
  <1>25. ASSUME NEW q \in Caller, HoldDeadline(q)
        PROVE  ParkedFrame(p)
    BY <1>25 DEF HoldDeadline
  <1>26. ASSUME NEW q \in Caller, ParkDeadline(q)
        PROVE  ParkedFrame(p)
    BY <1>26 DEF ParkDeadline
  <1>27. ASSUME NEW c \in Caller, CallerDies(c)
        PROVE  ParkedFrame(p)
    BY <1>27 DEF CallerDies, Running
  <1>28. ASSUME NEW r \in Remote, AnswererDies(r)
        PROVE  ParkedFrame(p)
    BY <1>28 DEF AnswererDies
  <1>29. CASE UNCHANGED vars
    BY <1>29 DEF vars
  <1> HIDE DEF TypeInv, TypeOK, ControlOK, Thread, HoldAnswer, RemoteAnswer, CallerPC, AnswerPC, Ended, Outcome, Goto, AGoto, End, Yes, files, time, grants, asking, answering, ParkedInv, Open, ParkedFrame, Uses, Taking, Taken
  <1> QED
    BY <1>1, <1>2, <1>3, <1>4, <1>5, <1>6, <1>7, <1>8, <1>9, <1>10, <1>11, <1>12, <1>13,
       <1>14, <1>15, <1>16, <1>17, <1>18, <1>19, <1>20, <1>21, <1>22, <1>23, <1>24, <1>25,
       <1>26, <1>27, <1>28, <1>29 DEF Next, Answer, Ask

(* A caller starts only where none runs. *)
LEMMA SerialRun ==
    ASSUME TypeInv, ~Overlap, \A c, d \in Caller : Running(c) /\ Running(d) => c = d,
           [Next]_vars
    PROVE  \A c, d \in Caller : Running(c)' /\ Running(d)' => c = d
  <1>1. CASE \E c \in Caller : Hold(c)
    <2>1. PICK c \in Caller : Hold(c)
      BY <1>1
    <2>2. \A d \in Caller : d # c => ~Running(d)'
      BY <2>1 DEF Hold, Running, Goto, End, TypeInv, TypeOK
    <2> QED
      BY <2>2
  <1>2. CASE ~\E c \in Caller : Hold(c)
    <2>1. \A d \in Caller : Running(d)' => Running(d)
      <3> USE DEF TypeInv, TypeOK, ControlOK, Thread, HoldAnswer, RemoteAnswer, CallerPC, AnswerPC, Ended, Outcome, Goto, AGoto, End, Yes, files, time, grants, asking, answering, Running
      <3>1. ASSUME NEW t \in Thread, AnswerRead(t)
            PROVE  \A d \in Caller : Running(d)' => Running(d)
        BY <3>1 DEF AnswerRead
      <3>2. ASSUME NEW t \in Thread, AnswerClaim(t)
            PROVE  \A d \in Caller : Running(d)' => Running(d)
        BY <3>2 DEF AnswerClaim
      <3>3. ASSUME NEW t \in Thread, AnswerReread(t)
            PROVE  \A d \in Caller : Running(d)' => Running(d)
        BY <3>3 DEF AnswerReread
      <3>4. ASSUME NEW t \in Thread, AnswerWrite(t)
            PROVE  \A d \in Caller : Running(d)' => Running(d)
        BY <3>4 DEF AnswerWrite
      <3>5. ASSUME NEW t \in Thread, AnswerGrant(t)
            PROVE  \A d \in Caller : Running(d)' => Running(d)
        BY <3>5 DEF AnswerGrant
      <3>6. ASSUME NEW r \in Remote, NEW q \in Caller, NEW a \in RemoteAnswer, Say(r, q, a)
            PROVE  \A d \in Caller : Running(d)' => Running(d)
        BY <3>6 DEF Say
      <3>7. ASSUME NEW c \in Caller, Hold(c)
            PROVE  \A d \in Caller : Running(d)' => Running(d)
        BY <1>2, <3>7
      <3>8. ASSUME NEW c \in Caller, FromParked(c)
            PROVE  \A d \in Caller : Running(d)' => Running(d)
        BY <3>8 DEF FromParked
      <3>9. ASSUME NEW c \in Caller, Raise(c)
            PROVE  \A d \in Caller : Running(d)' => Running(d)
        BY <3>9 DEF Raise
      <3>10. ASSUME NEW c \in Caller, PromptThrows(c)
            PROVE  \A d \in Caller : Running(d)' => Running(d)
        BY <3>10 DEF PromptThrows
      <3>11. ASSUME NEW c \in Caller, Poll(c)
            PROVE  \A d \in Caller : Running(d)' => Running(d)
        BY <3>11 DEF Poll
      <3>12. ASSUME NEW c \in Caller, PollEnds(c)
            PROVE  \A d \in Caller : Running(d)' => Running(d)
        BY <3>12 DEF PollEnds
      <3>13. ASSUME NEW c \in Caller, TtyGivesUp(c)
            PROVE  \A d \in Caller : Running(d)' => Running(d)
        BY <3>13 DEF TtyGivesUp
      <3>14. ASSUME NEW c \in Caller, TtyReturns(c)
            PROVE  \A d \in Caller : Running(d)' => Running(d)
        BY <3>14 DEF TtyReturns
      <3>15. ASSUME NEW c \in Caller, NobodyAnswers(c)
            PROVE  \A d \in Caller : Running(d)' => Running(d)
        BY <3>15 DEF NobodyAnswers
      <3>16. ASSUME NEW c \in Caller, ParkForget(c)
            PROVE  \A d \in Caller : Running(d)' => Running(d)
        BY <3>16 DEF ParkForget
      <3>17. ASSUME NEW c \in Caller, ParkRead(c)
            PROVE  \A d \in Caller : Running(d)' => Running(d)
        BY <3>17 DEF ParkRead
      <3>18. ASSUME NEW c \in Caller, ParkWrite(c)
            PROVE  \A d \in Caller : Running(d)' => Running(d)
        BY <3>18 DEF ParkWrite
      <3>19. ASSUME NEW c \in Caller, Settle(c)
            PROVE  \A d \in Caller : Running(d)' => Running(d)
        BY <3>19 DEF Settle
      <3>20. ASSUME NEW c \in Caller, ClearClaim(c)
            PROVE  \A d \in Caller : Running(d)' => Running(d)
        BY <3>20 DEF ClearClaim
      <3>21. ASSUME NEW c \in Caller, ClearRecord(c)
            PROVE  \A d \in Caller : Running(d)' => Running(d)
        BY <3>21 DEF ClearRecord
      <3>22. ASSUME NEW c \in Caller, Decide(c)
            PROVE  \A d \in Caller : Running(d)' => Running(d)
        BY <3>22 DEF Decide
      <3>23. ASSUME NEW c \in Caller, Boundary(c)
            PROVE  \A d \in Caller : Running(d)' => Running(d)
        BY <3>23 DEF Boundary
      <3>24. ASSUME NEW c \in Caller, NEW a \in HoldAnswer, TtyPick(c, a)
            PROVE  \A d \in Caller : Running(d)' => Running(d)
        BY <3>24 DEF TtyPick
      <3>25. ASSUME NEW q \in Caller, HoldDeadline(q)
            PROVE  \A d \in Caller : Running(d)' => Running(d)
        BY <3>25 DEF HoldDeadline
      <3>26. ASSUME NEW q \in Caller, ParkDeadline(q)
            PROVE  \A d \in Caller : Running(d)' => Running(d)
        BY <3>26 DEF ParkDeadline
      <3>27. ASSUME NEW c \in Caller, CallerDies(c)
            PROVE  \A d \in Caller : Running(d)' => Running(d)
        BY <3>27 DEF CallerDies
      <3>28. ASSUME NEW r \in Remote, AnswererDies(r)
            PROVE  \A d \in Caller : Running(d)' => Running(d)
        BY <3>28 DEF AnswererDies
      <3>29. CASE UNCHANGED vars
        BY <3>29 DEF vars
      <3> HIDE DEF TypeInv, TypeOK, ControlOK, Thread, HoldAnswer, RemoteAnswer, CallerPC, AnswerPC, Ended, Outcome, Goto, AGoto, End, Yes, files, time, grants, asking, answering, Running
      <3> QED
        BY <3>1, <3>2, <3>3, <3>4, <3>5, <3>6, <3>7, <3>8, <3>9, <3>10, <3>11, <3>12,
           <3>13, <3>14, <3>15, <3>16, <3>17, <3>18, <3>19, <3>20, <3>21, <3>22, <3>23,
           <3>24, <3>25, <3>26, <3>27, <3>28, <3>29 DEF Next, Answer, Ask
    <2> QED
      BY <2>1
  <1> QED
    BY <1>1, <1>2

(* The question a caller acts on is its own or one that was parked. *)
LEMMA OnFrame ==
    ASSUME TypeInv, [Next]_vars
    PROVE  \A d \in Caller : on'[d] \in {on[d], d} \/ ParkedInTime(on'[d])
  <1> USE DEF TypeInv, TypeOK, ControlOK, Thread, HoldAnswer, RemoteAnswer, CallerPC, AnswerPC, Ended, Outcome, Goto, AGoto, End, Yes, files, time, grants, asking, answering
  <1>1. ASSUME NEW t \in Thread, AnswerRead(t)
        PROVE  \A d \in Caller : on'[d] \in {on[d], d} \/ ParkedInTime(on'[d])
    BY <1>1 DEF AnswerRead
  <1>2. ASSUME NEW t \in Thread, AnswerClaim(t)
        PROVE  \A d \in Caller : on'[d] \in {on[d], d} \/ ParkedInTime(on'[d])
    BY <1>2 DEF AnswerClaim
  <1>3. ASSUME NEW t \in Thread, AnswerReread(t)
        PROVE  \A d \in Caller : on'[d] \in {on[d], d} \/ ParkedInTime(on'[d])
    BY <1>3 DEF AnswerReread
  <1>4. ASSUME NEW t \in Thread, AnswerWrite(t)
        PROVE  \A d \in Caller : on'[d] \in {on[d], d} \/ ParkedInTime(on'[d])
    BY <1>4 DEF AnswerWrite
  <1>5. ASSUME NEW t \in Thread, AnswerGrant(t)
        PROVE  \A d \in Caller : on'[d] \in {on[d], d} \/ ParkedInTime(on'[d])
    BY <1>5 DEF AnswerGrant
  <1>6. ASSUME NEW r \in Remote, NEW q \in Caller, NEW a \in RemoteAnswer, Say(r, q, a)
        PROVE  \A d \in Caller : on'[d] \in {on[d], d} \/ ParkedInTime(on'[d])
    BY <1>6 DEF Say
  <1>7. ASSUME NEW c \in Caller, Hold(c)
        PROVE  \A d \in Caller : on'[d] \in {on[d], d} \/ ParkedInTime(on'[d])
    BY <1>7 DEF Hold
  <1>8. ASSUME NEW c \in Caller, FromParked(c)
        PROVE  \A d \in Caller : on'[d] \in {on[d], d} \/ ParkedInTime(on'[d])
    <2>1. \A d \in Caller : d # c => on'[d] = on[d]
      BY <1>8 DEF FromParked
    <2>2. on' = on \/ \E q \in Caller : ParkedInTime(q) /\ on' = [on EXCEPT ![c] = q]
      BY <1>8 DEF FromParked
    <2>3. ASSUME NEW q \in Caller, ParkedInTime(q), on' = [on EXCEPT ![c] = q]
          PROVE  ParkedInTime(on'[c])
      BY <2>3
    <2> QED
      BY <2>1, <2>2, <2>3
  <1>9. ASSUME NEW c \in Caller, Raise(c)
        PROVE  \A d \in Caller : on'[d] \in {on[d], d} \/ ParkedInTime(on'[d])
    BY <1>9 DEF Raise
  <1>10. ASSUME NEW c \in Caller, PromptThrows(c)
        PROVE  \A d \in Caller : on'[d] \in {on[d], d} \/ ParkedInTime(on'[d])
    BY <1>10 DEF PromptThrows
  <1>11. ASSUME NEW c \in Caller, Poll(c)
        PROVE  \A d \in Caller : on'[d] \in {on[d], d} \/ ParkedInTime(on'[d])
    BY <1>11 DEF Poll
  <1>12. ASSUME NEW c \in Caller, PollEnds(c)
        PROVE  \A d \in Caller : on'[d] \in {on[d], d} \/ ParkedInTime(on'[d])
    BY <1>12 DEF PollEnds
  <1>13. ASSUME NEW c \in Caller, TtyGivesUp(c)
        PROVE  \A d \in Caller : on'[d] \in {on[d], d} \/ ParkedInTime(on'[d])
    BY <1>13 DEF TtyGivesUp
  <1>14. ASSUME NEW c \in Caller, TtyReturns(c)
        PROVE  \A d \in Caller : on'[d] \in {on[d], d} \/ ParkedInTime(on'[d])
    BY <1>14 DEF TtyReturns
  <1>15. ASSUME NEW c \in Caller, NobodyAnswers(c)
        PROVE  \A d \in Caller : on'[d] \in {on[d], d} \/ ParkedInTime(on'[d])
    BY <1>15 DEF NobodyAnswers
  <1>16. ASSUME NEW c \in Caller, ParkForget(c)
        PROVE  \A d \in Caller : on'[d] \in {on[d], d} \/ ParkedInTime(on'[d])
    BY <1>16 DEF ParkForget
  <1>17. ASSUME NEW c \in Caller, ParkRead(c)
        PROVE  \A d \in Caller : on'[d] \in {on[d], d} \/ ParkedInTime(on'[d])
    BY <1>17 DEF ParkRead
  <1>18. ASSUME NEW c \in Caller, ParkWrite(c)
        PROVE  \A d \in Caller : on'[d] \in {on[d], d} \/ ParkedInTime(on'[d])
    BY <1>18 DEF ParkWrite
  <1>19. ASSUME NEW c \in Caller, Settle(c)
        PROVE  \A d \in Caller : on'[d] \in {on[d], d} \/ ParkedInTime(on'[d])
    BY <1>19 DEF Settle
  <1>20. ASSUME NEW c \in Caller, ClearClaim(c)
        PROVE  \A d \in Caller : on'[d] \in {on[d], d} \/ ParkedInTime(on'[d])
    BY <1>20 DEF ClearClaim
  <1>21. ASSUME NEW c \in Caller, ClearRecord(c)
        PROVE  \A d \in Caller : on'[d] \in {on[d], d} \/ ParkedInTime(on'[d])
    BY <1>21 DEF ClearRecord
  <1>22. ASSUME NEW c \in Caller, Decide(c)
        PROVE  \A d \in Caller : on'[d] \in {on[d], d} \/ ParkedInTime(on'[d])
    BY <1>22 DEF Decide
  <1>23. ASSUME NEW c \in Caller, Boundary(c)
        PROVE  \A d \in Caller : on'[d] \in {on[d], d} \/ ParkedInTime(on'[d])
    BY <1>23 DEF Boundary
  <1>24. ASSUME NEW c \in Caller, NEW a \in HoldAnswer, TtyPick(c, a)
        PROVE  \A d \in Caller : on'[d] \in {on[d], d} \/ ParkedInTime(on'[d])
    BY <1>24 DEF TtyPick
  <1>25. ASSUME NEW q \in Caller, HoldDeadline(q)
        PROVE  \A d \in Caller : on'[d] \in {on[d], d} \/ ParkedInTime(on'[d])
    BY <1>25 DEF HoldDeadline
  <1>26. ASSUME NEW q \in Caller, ParkDeadline(q)
        PROVE  \A d \in Caller : on'[d] \in {on[d], d} \/ ParkedInTime(on'[d])
    BY <1>26 DEF ParkDeadline
  <1>27. ASSUME NEW c \in Caller, CallerDies(c)
        PROVE  \A d \in Caller : on'[d] \in {on[d], d} \/ ParkedInTime(on'[d])
    BY <1>27 DEF CallerDies
  <1>28. ASSUME NEW r \in Remote, AnswererDies(r)
        PROVE  \A d \in Caller : on'[d] \in {on[d], d} \/ ParkedInTime(on'[d])
    BY <1>28 DEF AnswererDies
  <1>29. CASE UNCHANGED vars
    BY <1>29 DEF vars
  <1> HIDE DEF TypeInv, TypeOK, ControlOK, Thread, HoldAnswer, RemoteAnswer, CallerPC, AnswerPC, Ended, Outcome, Goto, AGoto, End, Yes, files, time, grants, asking, answering
  <1> QED
    BY <1>1, <1>2, <1>3, <1>4, <1>5, <1>6, <1>7, <1>8, <1>9, <1>10, <1>11, <1>12, <1>13,
       <1>14, <1>15, <1>16, <1>17, <1>18, <1>19, <1>20, <1>21, <1>22, <1>23, <1>24, <1>25,
       <1>26, <1>27, <1>28, <1>29 DEF Next, Answer, Ask

(* Every step keeps the yeses to a parked question apart, where the tries of *)
(* the call run one after another.                                           *)
LEMMA SerialStep ==
    ASSUME TypeInv, VoiceInv, ParkedInv, AuthorInv, SerialInv, ~Overlap, [Next]_vars
    PROVE  SerialInv'
  <1>1. \A c, d \in Caller : Running(c)' /\ Running(d)' => c = d
    BY SerialRun DEF SerialInv
  <1>2. ASSUME NEW q \in Caller, pc'[q] = "parked"
        PROVE  \E f \in [Caller -> Thread] : TakenFrom(q, f)'
    <2>1. CASE pc[q] # "parked"
      <3>1. \A c \in Caller : ~Uses(c, q)'
        <4>1. \A c \in Caller : c # q => on[c] # q
          BY <2>1 DEF ParkedInv
        <4>2. ~ParkedInTime(q)
          BY <2>1 DEF ParkedInv, ParkedInTime
        <4>3. \A c \in Caller : on'[c] = q => c = q
          BY <4>1, <4>2, OnFrame
        <4> QED
          BY <1>2, <4>3 DEF Uses, Taking, Taken
      <3> DEFINE f == [c \in Caller |-> q]
      <3>2. f \in [Caller -> Thread]
        BY DEF Thread
      <3>3. TakenFrom(q, f)'
        BY <3>1 DEF TakenFrom
      <3>4. f' = f
        OBVIOUS
      <3> QED
        BY <3>2, <3>3, <3>4 DEF TakenFrom
    <2>2. CASE pc[q] = "parked"
      <3>1. PICK f \in [Caller -> Thread] : TakenFrom(q, f)
        BY <2>2 DEF SerialInv
      <3>2. ParkedFrame(q)
        BY <2>2, ParkedFrameStep
      <3>3. \A u \in Thread : /\ PastWrite(u) => PastWrite(u)'
                              /\ aans[u] = "once" => aans'[u] = "once" /\ aid'[u] = aid[u]
        BY PastWriteStays, VoiceStep, ThreadAssumption DEF Kept
      <3>4. CASE \A c \in Caller : Uses(c, q)' => Uses(c, q)
        BY <3>1, <3>2, <3>3, <3>4 DEF TakenFrom, ParkedFrame, PastWrite
      <3>5. ASSUME NEW c \in Caller, Uses(c, q)', ~Uses(c, q)
            PROVE  \E h \in [Caller -> Thread] : TakenFrom(q, h)'
        <4>1. FromParked(c) /\ on'[c] = q /\ got'[c] = "once" /\ pc'[c] \in Taking \cup Taken
          BY <3>2, <3>5 DEF ParkedFrame, Uses
        <4>2. /\ record' = record /\ pc[c] = "lookup" /\ pc'[c] \notin Taken
              /\ \A d \in Caller : d # c => pc'[d] = pc[d] /\ on'[d] = on[d] /\ got'[d] = got[d]
              /\ UNCHANGED <<aid, aans, apc>>
          BY <4>1 DEF FromParked, Goto, End, Taken, TypeInv, TypeOK, answering, files
        <4>3. record[q] # None /\ record[q].answer = "once"
          <5>1. PICK r \in Caller : /\ ParkedInTime(r) /\ on' = [on EXCEPT ![c] = r]
                                    /\ got' = [got EXCEPT ![c] = record[r].answer]
            BY <4>1 DEF FromParked, Goto, End, Taking, Taken, TypeInv, TypeOK
          <5>2. r = q
            BY <4>1, <5>1 DEF TypeInv, TypeOK
          <5> QED
            BY <4>1, <5>1, <5>2 DEF ParkedInTime, TypeInv, TypeOK
        <4>4. PICK t \in Thread : t = record[q].by /\ PastWrite(t) /\ aid[t] = q /\ aans[t] = "once"
          BY <4>3, ThreadAssumption DEF AuthorInv, Authored
        <4>5. \A d \in Caller : d # c /\ Uses(d, q)' => Uses(d, q) /\ pc[d] \in Taken
          <5>1. ASSUME NEW d \in Caller, d # c, Uses(d, q)'
                PROVE  Uses(d, q) /\ pc[d] \in Taken
            <6>1. Uses(d, q)
              BY <4>2, <5>1 DEF Uses
            <6>2. Running(c) /\ ~Running(d)
              BY <4>2, <5>1 DEF Running, Ended, SerialInv
            <6> QED
              BY <6>1, <6>2 DEF Uses, Running, Ended, Taking, Taken
          <5> QED
            BY <5>1
        <4> DEFINE h == [f EXCEPT ![c] = t]
        <4>6. h \in [Caller -> Thread] /\ h[c] = t /\ \A d \in Caller : d # c => h[d] = f[d]
          OBVIOUS
        <4>7. h' = h
          OBVIOUS
        <4> HIDE DEF h
        <4>8. \A d \in Caller : d # c /\ Uses(d, q)' =>
                 PastWrite(f[d]) /\ aid[f[d]] = q /\ aans[f[d]] = "once" /\ f[d] # t
          BY <3>1, <4>3, <4>4, <4>5 DEF TakenFrom
        <4>9. \A d \in Caller : Uses(d, q)' =>
                 PastWrite(h[d])' /\ aid'[h[d]] = q /\ aans'[h[d]] = "once"
          BY <4>2, <4>4, <4>6, <4>7, <4>8 DEF PastWrite
        <4>10. \A d, e \in Caller : Uses(d, q)' /\ Uses(e, q)' /\ h[d] = h[e] => d = e
          BY <3>1, <4>5, <4>6, <4>8 DEF TakenFrom
        <4>11. \A d \in Caller : Uses(d, q)' /\ pc'[d] \in Taken => record'[q].by # h[d]
          BY <4>2, <4>4, <4>6, <4>8
        <4>12. TakenFrom(q, h)'
          BY <4>7, <4>9, <4>10, <4>11 DEF TakenFrom
        <4> QED
          BY <4>6, <4>7, <4>12 DEF TakenFrom
      <3> QED
        BY <3>4, <3>5
    <2> QED
      BY <2>1, <2>2
  <1> QED
    BY <1>1, <1>2 DEF SerialInv
-----------------------------------------------------------------------------
(* The inductive invariant. *)
HeldInv ==
    /\ TypeInv /\ ClaimInv /\ VoiceInv /\ YesInv
    /\ ParkedInv /\ OpenInv /\ AuthorInv /\ FileInv /\ SpentInv
    /\ ~Overlap => SerialInv

(* The whole invariant holds always.                                       *)
LEMMA HeldInvariant == Spec => []HeldInv
  <1>1. Init => HeldInv
    <2> SUFFICES ASSUME Init PROVE HeldInv
      OBVIOUS
    <2>0. TypeOK
      <3>1. 0 \in 0 .. LEARN_AFTER_APPROVALS /\ 0 \in 0 .. MaxCrashes
        BY CrashesAssumption DEF LEARN_AFTER_APPROVALS
      <3>2. "idle" \in CallerPC /\ "away" \in AnswerPC
        BY DEF CallerPC, AnswerPC
      <3> QED
        BY <3>1, <3>2 DEF Init, TypeOK
    <2>1. TypeInv
      BY <2>0 DEF Init, TypeInv, ControlOK
    <2>2. ClaimInv
      BY DEF Init, ClaimInv, OneAnswerWhileHeld, Winner
    <2>3. VoiceInv
      BY DEF Init, VoiceInv, Early, Thread
    <2>4. YesInv
      BY DEF Init, YesInv, Backed, Thread
    <2>5. ParkedInv /\ OpenInv /\ FileInv
      BY InteractiveAssumption, ThreadAssumption
         DEF Init, ParkedInv, OpenInv, FileInv, Open, Early, Thread
    <2>6. AuthorInv
      BY DEF Init, AuthorInv
    <2>7. SpentInv /\ SerialInv
      <3>1. [c \in Caller |-> c] \in [Caller -> Thread]
        BY DEF Thread
      <3>2. \A g : SpentOn(g)
        BY DEF Init, SpentOn
      <3> QED
        BY <3>1, <3>2 DEF Init, SpentInv, SerialInv, Running
    <2> QED
      BY <2>1, <2>2, <2>3, <2>4, <2>5, <2>6, <2>7 DEF HeldInv
  <1>2. HeldInv /\ [Next]_vars => HeldInv'
    <2> SUFFICES ASSUME HeldInv, [Next]_vars PROVE HeldInv'
      OBVIOUS
    <2>1. (TypeInv /\ ClaimInv /\ VoiceInv /\ YesInv)'
      BY TypeStep, ClaimStep, VoiceStep, YesStep DEF HeldInv
    <2>2. (ParkedInv /\ OpenInv /\ AuthorInv /\ FileInv /\ SpentInv)'
      BY ParkedStep, OpenStep, AuthorStep, FileStep, SpentStep DEF HeldInv
    <2>3. ~Overlap => SerialInv'
      BY SerialStep DEF HeldInv
    <2> QED
      BY <2>1, <2>2, <2>3 DEF HeldInv
  <1> QED
    BY <1>1, <1>2, PTL DEF Spec

(* Type correctness of held calls, for any number of callers and answers.  *)
THEOREM HeldTypeCorrect == Spec => []TypeOK
  <1>1. HeldInv => TypeOK
    BY DEF HeldInv, TypeInv
  <1> QED
    BY <1>1, HeldInvariant, PTL

(* However many people answer one question at once, and whoever dies in    *)
(* between, exactly one answer is taken while the question is there        *)
(* (PendingApprovals.answer and claim).                                    *)
THEOREM HeldTakesOneAnswer == Spec => []OneAnswerWhileHeld
  <1>1. HeldInv => OneAnswerWhileHeld
    BY DEF HeldInv, ClaimInv
  <1> QED
    BY <1>1, HeldInvariant, PTL

(* The gate fails closed, with any number of tries, answers and crashes:   *)
(* no call runs that nobody said yes to (HoldService.hold).                *)
THEOREM HeldFailsClosed == Spec => []RunsOnlyOnAYes
  <1>1. HeldInv => RunsOnlyOnAYes
    <2> SUFFICES ASSUME HeldInv PROVE RunsOnlyOnAYes
      OBVIOUS
    <2>1. ASSUME NEW c \in Caller, pc[c] = "allowed"
          PROVE  Said(on[c], Yes) # {}
      <3>1. got[c] \in Yes /\ Backed(on[c], got[c])
        BY <2>1 DEF HeldInv, YesInv
      <3>2. PICK t \in Thread : aid[t] = on[c] /\ aans[t] = got[c]
        BY <3>1, ThreadAssumption DEF Backed, Yes
      <3> QED
        BY <3>1, <3>2 DEF Said
    <2>2. ASSUME NEW c \in Caller, pc[c] = "covered"
          PROVE  Licensed
      BY <2>2 DEF HeldInv, YesInv
    <2> QED
      BY <2>1, <2>2 DEF RunsOnlyOnAYes, Licensed
  <1> QED
    BY <1>1, HeldInvariant, PTL

(* A caller that has no terminal acts on the answer in its file, whoever     *)
(* answers, takes up parked questions or dies meanwhile (waitForAnswer and   *)
(* the answeredBy it reports).                                               *)
THEOREM HeldRecordDecides == Spec => []RecordDecides
  <1>1. HeldInv => RecordDecides
    BY DEF HeldInv, OpenInv, FileInv, Open, RecordDecides
  <1> QED
    BY <1>1, HeldInvariant, PTL

(* Where the tries of a call run one after another, however many there are,  *)
(* whoever dies in between and however often its question is parked, each    *)
(* "once" runs one call (fromParked, clear and resultOf).                    *)
THEOREM HeldOnceRunsOneCall ==
    ASSUME ~Overlap, IsFiniteSet(Thread)
    PROVE  Spec => []EachOnceRunsOneCall
  <1>1. HeldInv => EachOnceRunsOneCall
    <2> SUFFICES ASSUME HeldInv, NEW q \in Caller
                 PROVE  Cardinality({c \in Caller : pc[c] = "allowed" /\ on[c] = q /\ got[c] = "once"})
                          <= Cardinality(Said(q, {"once"}))
      BY DEF EachOnceRunsOneCall
    <2> DEFINE Ran == {c \in Caller : pc[c] = "allowed" /\ on[c] = q /\ got[c] = "once"}
    <2> DEFINE Onces == Said(q, {"once"})
    <2>1. IsFiniteSet(Onces)
      <3>1. Onces \subseteq Thread
        BY DEF Said
      <3> QED
        BY <3>1, FS_Subset
    <2>2. \A c \in Ran : Uses(c, q)
      BY DEF Uses, Taken
    <2>3. \E f \in [Caller -> Thread] :
             /\ \A c \in Ran : f[c] \in Onces
             /\ \A c, d \in Ran : f[c] = f[d] => c = d
      <3>1. CASE pc[q] = "parked"
        <4>1. PICK f \in [Caller -> Thread] : TakenFrom(q, f)
          BY <3>1 DEF HeldInv, SerialInv
        <4> QED
          BY <2>2, <4>1 DEF TakenFrom, Said
      <3>2. CASE pc[q] # "parked" /\ Ran # {}
        <4>1. \A c \in Ran : c = q
          BY <3>2 DEF HeldInv, ParkedInv
        <4>2. pc[q] = "allowed" /\ Backed(q, "once")
          BY <3>2, <4>1 DEF HeldInv, YesInv
        <4>3. PICK t \in Thread : aid[t] = q /\ aans[t] = "once"
          BY <4>2, ThreadAssumption DEF Backed
        <4> DEFINE f == [c \in Caller |-> t]
        <4>4. f \in [Caller -> Thread] /\ \A c \in Ran : f[c] \in Onces
          BY <4>3 DEF Said
        <4> QED
          BY <4>1, <4>4
      <3>3. CASE Ran = {}
        <4>1. [c \in Caller |-> c] \in [Caller -> Thread]
          BY DEF Thread
        <4> QED
          BY <3>3, <4>1
      <3> QED
        BY <3>1, <3>2, <3>3
    <2>4. PICK f \in [Caller -> Thread] : /\ \A c \in Ran : f[c] \in Onces
                                          /\ \A c, d \in Ran : f[c] = f[d] => c = d
      BY <2>3
    <2> DEFINE g == [c \in Ran |-> f[c]]
    <2>5. g \in Injection(Ran, Onces)
      BY <2>4 DEF Injection, IsInjective
    <2> HIDE DEF g, Ran, Onces
    <2>6. Cardinality(Ran) <= Cardinality(Onces)
      BY <2>1, <2>5, FS_Injection
    <2> QED
      BY <2>6 DEF Ran, Onces
  <1> QED
    BY <1>1, HeldInvariant, PTL

(* However many calls reach the project boundary at once, no more pass it on *)
(* a single yes than were given (takeOnce).                                  *)
THEOREM HeldOncePassesOneBoundary ==
    ASSUME IsFiniteSet(Thread)
    PROVE  Spec => []EachOncePassesOneBoundary
  <1>1. HeldInv => EachOncePassesOneBoundary
    <2> SUFFICES ASSUME HeldInv, ~granted
                 PROVE  Cardinality({c \in Caller : second[c] = "passed"})
                          <= Cardinality({t \in Thread : apc[t] = "answered" /\ aans[t] = "once"})
      BY DEF EachOncePassesOneBoundary
    <2> DEFINE Past == {c \in Caller : second[c] = "passed"}
    <2> DEFINE Onces == {t \in Thread : apc[t] = "answered" /\ aans[t] = "once"}
    <2>1. IsFiniteSet(Onces)
      BY FS_Subset
    <2>2. PICK f \in [Caller -> Thread] : SpentOn(f)
      BY DEF HeldInv, SpentInv
    <2> DEFINE g == [c \in Past |-> f[c]]
    <2>3. g \in Injection(Past, Onces)
      BY <2>2 DEF SpentOn, Injection, IsInjective
    <2> HIDE DEF g, Past, Onces
    <2>4. Cardinality(Past) <= Cardinality(Onces)
      BY <2>1, <2>3, FS_Injection
    <2> QED
      BY <2>4 DEF Past, Onces
  <1> QED
    BY <1>1, HeldInvariant, PTL
=============================================================================
