------------------------- MODULE ChatApprovalProofs -------------------------
(***************************************************************************)
(* For any number of calls, pauses and people, where the hooks of a        *)
(* session follow one another (Serial): the hold in the agent's chat keeps *)
(* the promise of Consent, at most one question waits, and each answer is  *)
(* told once.  Remote answers still interleave with every step of a hook.  *)
(*                                                                         *)
(* ChatInv has five layers, each proved from the ones before.  ControlOK,  *)
(* SerialInv and FilledInv: what a hook holds, that it is the only one,    *)
(* and that a picker the agent filled in never answers.  VoiceInv: every   *)
(* copy of an answer, in a record, a hook's hands or on its way to the     *)
(* agent, is what its giver said of that very question.  GoneInv: the      *)
(* answer a call ran on is in none of those places any more, so no second  *)
(* call finds it.  QuestionInv: a hook that will write an unanswered copy  *)
(* back writes it where no other question is open.  ToldInv: every copy of *)
(* an answer the agent was told says so.                                   *)
(***************************************************************************)
EXTENDS ChatApproval, FiniteSetTheorems, TLAPS

(* The hooks of the session; the other givers are remote. *)
Hook == Call \cup Pause

(* The steps of a hook that holds a copy of the question it found or raised. *)
Holding == {"keep", "places", "wait", "reask", "clear_claim", "clear_record",
            "settle", "also_read", "also_keep"}

(* What a process holds where its next step uses it. *)
ControlOK ==
    /\ \A c \in Call : pc[c] \in Holding => at[c] \in Id /\ copy[c] \in Pending
    /\ \A g \in Giver : pc[g] \in {"read", "claim", "write", "grant", "picked"}
                            => at[g] \in Id
    /\ \A g \in Giver : pc[g] \in {"claim", "write", "grant"} => copy[g] \in Pending
    /\ \A p \in Pause : pc[p] # "tell" => tell[p] = {}

TypeInv == TypeOK /\ ControlOK

(* At most one hook of the session is under way. *)
SerialInv == \A p, q \in Hook : UnderWay(p) /\ UnderWay(q) => p = q

(* A picker the agent filled in never comes to answering. *)
FilledInv ==
    \A p \in Pause :
        /\ pc[p] \in {"idle", "prompt", "listen", "read", "claim", "write"} => p \notin filled
        /\ p \in opened => p \notin filled /\ pc[p] = "picked"

(* A copy of the question i carries no answer, or one its giver, a person, gave it. *)
Voiced(i, r) ==
    \/ r.answer = None /\ r.by = None
    \/ /\ r.answer \in Answer /\ r.by \in Giver
       /\ said[r.by] = r.answer /\ at[r.by] = i

(* Every copy of a question there is, is voiced; a giver answers the one it   *)
(* read unanswered, once; a session's grant goes back to a "session".         *)
RecordsVoiced == \A i \in Id : record[i] # None => Voiced(i, record[i])

CopiesVoiced ==
    \A c \in Call :
        /\ pc[c] \in Holding => Voiced(at[c], copy[c])
        /\ pc[c] = "keep" => copy[c].answer = None
        /\ pc[c] \in {"clear_claim", "clear_record", "settle"} => copy[c].answer # None

TellsVoiced ==
    \A p \in Pause : \A t \in tell[p] : Voiced(t[1], t[2]) /\ t[2].answer # None

GiversVoiced ==
    \A g \in Giver :
        /\ pc[g] \in {"claim", "write"} => copy[g].answer = None /\ copy[g].by = None
        /\ pc[g] = "grant" => Voiced(at[g], copy[g]) /\ copy[g].by = g
        /\ said[g] # None => pc[g] \in {"grant", "tell", "done"}

GrantsVoiced == granted => \E g \in Giver : said[g] = "session"

VoiceInv ==
    RecordsVoiced /\ CopiesVoiced /\ TellsVoiced /\ GiversVoiced /\ GrantsVoiced

(* A call that ran on an answer ran on one somebody gave. *)
RanInv ==
    \A d \in Call : ranOn[d] # None => pc[d] = "ran" /\ said[ranOn[d]] # None

(* No copy of g's answer is left that a hook could act on or write back. *)
Gone(g) ==
    /\ \A i \in Id : record[i] # None => record[i].by # g
    /\ \A c \in Call : pc[c] \in Holding => copy[c].by # g
    /\ \A p \in Pause : \A t \in tell[p] : t[2].by # g
    /\ g \in Pause => pc[g] # "grant"

(* The answer a hook is about to act on is in no record. *)
Cleared(c) == \A i \in Id : record[i] # None => record[i].by # copy[c].by

GoneInv ==
    faults = 0 =>
        /\ \A d \in Call : ranOn[d] # None => Gone(ranOn[d])
        /\ \A c \in Call : pc[c] = "settle" => Cleared(c)

(* Where a question may be written unanswered, no other one is open. *)
QuestionInv ==
    /\ \A c \in Call : pc[c] = "raise" => OpenInSession = {}
    /\ \A c \in Call :
          /\ pc[c] \in {"keep", "places", "wait", "reask", "also_read", "also_keep"}
          /\ copy[c].answer = None
          /\ at[c] \notin expired
          => \A j \in OpenInSession : j = at[c]
    /\ \A i, j \in OpenInSession : i = j

(* Every copy of an answer the agent was told is marked told, and what a pause *)
(* is about to tell as new was not told before.                                *)
HeardOnce == \A g \in Giver : heard[g] = 0 \/ (heard[g] = 1 /\ said[g] # None)

RecordsTold ==
    \A i \in Id : record[i] # None /\ record[i].by # None
                    => record[i].told \/ heard[record[i].by] = 0

CopiesTold ==
    \A c \in Call : pc[c] \in Holding /\ copy[c].by # None
                      => copy[c].told \/ heard[copy[c].by] = 0

GrantsUntold == \A p \in Pause : pc[p] = "grant" => heard[p] = 0

TellsApart == \A p \in Pause : \A t, u \in tell[p] : t[1] = u[1] => t = u

TellsUntold ==
    \A p \in Pause : \A t \in tell[p] :
        heard[t[2].by] = 0 \/ (at[p] # None /\ t[2].by # p)

ToldInv ==
    HeardOnce /\ RecordsTold /\ CopiesTold /\ GrantsUntold /\ TellsApart /\ TellsUntold

(* Who the processes are. *)
LEMMA Processes ==
    /\ Call \subseteq Process /\ Giver \subseteq Process
    /\ Pause \subseteq Giver /\ Remote \subseteq Giver
    /\ Call \cap Giver = {} /\ None \notin Giver /\ None \notin Answer
    /\ None \notin Id
  BY ProcessAssumption DEF Process, Giver, Answer, Id

(* A copy of a question with a field rewritten is a question. *)
LEMMA Rewritten ==
    ASSUME NEW r \in Pending
    PROVE  /\ \A b \in BOOLEAN :
                LET q == [r EXCEPT !.away = b] IN
                  q \in Pending /\ q.answer = r.answer /\ q.by = r.by /\ q.told = r.told
           /\ LET q == [r EXCEPT !.told = TRUE] IN
                q \in Pending /\ q.answer = r.answer /\ q.by = r.by /\ q.told = TRUE
           /\ \A a \in Answer, g \in Giver :
                LET q == [r EXCEPT !.answer = a, !.by = g] IN
                  q \in Pending /\ q.answer = a /\ q.by = g /\ q.told = r.told
  BY DEF Pending

(* raise() writes a new question, unanswered and untold. *)
LEMMA RaiseWrites ==
    ASSUME TypeOK, Serial, NEW c \in Call, Raise(c)
    PROVE  /\ ms' \in Id /\ at'[c] = ms' /\ copy'[c] = record'[ms']
           /\ record'[ms'] \in Pending /\ record'[ms'].answer = None
           /\ record'[ms'].by = None /\ record'[ms'].told = FALSE
           /\ record' \in [Id -> Pending \cup {None}]
           /\ \A i \in Id : i # ms' => record'[i] = record[i]
           /\ ms' \in 0 .. MaxMs
  <1> DEFINE fresh == [answer |-> None, by |-> None, told |-> FALSE, away |-> FALSE]
  <1>1. fresh \in Pending /\ fresh.answer = None /\ fresh.by = None /\ fresh.told = FALSE
    BY DEF Pending
  <1>2. ms' \in Id /\ ms' \in 0 .. MaxMs
    BY BoundAssumption DEF Raise, TypeOK, Id
  <1>3. record' = [record EXCEPT ![ms'] = fresh]
    BY DEF Raise
  <1> HIDE DEF fresh
  <1>4. record'[ms'] = fresh /\ record' \in [Id -> Pending \cup {None}]
        /\ \A i \in Id : i # ms' => record'[i] = record[i]
    BY <1>1, <1>2, <1>3 DEF TypeOK
  <1>5. at'[c] = ms' /\ copy'[c] = record'[ms']
    BY Processes DEF Raise, TypeOK
  <1> QED
    BY <1>1, <1>2, <1>4, <1>5

(* keep() writes the raised question with its route. *)
LEMMA KeepWrites ==
    ASSUME TypeOK, ControlOK, NEW c \in Call, Keep(c)
    PROVE  /\ copy'[c] \in Pending /\ copy'[c].answer = copy[c].answer
           /\ copy'[c].by = copy[c].by /\ copy'[c].told = copy[c].told
           /\ copy' \in [Process -> Pending \cup {None}]
           /\ \A q \in Process : q # c => copy'[q] = copy[q]
           /\ record' = [record EXCEPT ![at[c]] = copy'[c]]
           /\ at[c] \in Id
  <1>1. copy[c] \in Pending /\ at[c] \in Id /\ c \in Process
    BY Processes DEF Keep, ControlOK, Holding
  <1>2. PICK dm \in BOOLEAN : copy' = [copy EXCEPT ![c].away = dm]
                              /\ record' = [record EXCEPT ![at[c]] = copy'[c]]
    BY DEF Keep
  <1>3. copy' = [copy EXCEPT ![c] = [copy[c] EXCEPT !.away = dm]]
    BY <1>2 
  <1>4. [copy[c] EXCEPT !.away = dm] \in Pending
    BY <1>1, Rewritten
  <1>5. copy'[c] = [copy[c] EXCEPT !.away = dm]
        /\ copy' \in [Process -> Pending \cup {None}]
        /\ \A q \in Process : q # c => copy'[q] = copy[q]
    BY <1>1, <1>3, <1>4 DEF TypeOK
  <1> QED
    BY <1>1, <1>2, <1>5, Rewritten

(* alsoOn writes back the copy it read, marked. *)
LEMMA AlsoOnKeepWrites ==
    ASSUME TypeOK, ControlOK, NEW c \in Call, AlsoOnKeep(c)
    PROVE  \E q \in Pending :
              /\ q.answer = copy[c].answer /\ q.by = copy[c].by /\ q.told = copy[c].told
              /\ record' = [record EXCEPT ![at[c]] = q]
              /\ at[c] \in Id
  <1>1. copy[c] \in Pending /\ at[c] \in Id
    BY DEF AlsoOnKeep, ControlOK, Holding
  <1>2. record' = [record EXCEPT ![at[c]] = [copy[c] EXCEPT !.away = TRUE]]
    BY DEF AlsoOnKeep
  <1> QED
    BY <1>1, <1>2, Rewritten

(* answer() writes the copy it read with the giver's answer. *)
LEMMA AnswerWriteWrites ==
    ASSUME TypeOK, ControlOK, NEW g \in Giver, AnswerWrite(g)
    PROVE  /\ copy'[g] \in Pending /\ copy'[g].answer \in Answer
           /\ copy'[g].by = g /\ copy'[g].told = copy[g].told
           /\ copy' \in [Process -> Pending \cup {None}]
           /\ \A q \in Process : q # g => copy'[q] = copy[q]
           /\ record' = [record EXCEPT ![at[g]] = copy'[g]]
           /\ said' = [said EXCEPT ![g] = IF g \in filled THEN None ELSE copy'[g].answer]
           /\ at[g] \in Id
  <1>1. copy[g] \in Pending /\ at[g] \in Id /\ g \in Process
    BY Processes DEF AnswerWrite, ControlOK
  <1>2. PICK a \in Answer :
            /\ copy' = [copy EXCEPT ![g].answer = a, ![g].by = g]
            /\ said' = [said EXCEPT ![g] = IF g \in filled THEN None ELSE a]
    BY DEF AnswerWrite
  <1>3. copy' = [copy EXCEPT ![g] = [copy[g] EXCEPT !.answer = a, !.by = g]]
    BY <1>1, <1>2 DEF TypeOK
  <1>4. [copy[g] EXCEPT !.answer = a, !.by = g] \in Pending
    BY <1>1, Rewritten
  <1>5. copy'[g] = [copy[g] EXCEPT !.answer = a, !.by = g]
        /\ copy' \in [Process -> Pending \cup {None}]
        /\ \A q \in Process : q # g => copy'[q] = copy[q]
    BY <1>1, <1>3, <1>4 DEF TypeOK
  <1>6. copy'[g].answer = a /\ copy'[g].by = g /\ copy'[g].told = copy[g].told
    BY <1>1, <1>5 DEF Pending
  <1>7. record' = [record EXCEPT ![at[g]] = copy'[g]]
    BY DEF AnswerWrite
  <1> QED
    BY <1>1, <1>2, <1>4, <1>5, <1>6, <1>7

(* A pause p tells t and writes its record back as q, marked told. *)
Marks(p, t, q) ==
    /\ t[1] \in Id /\ t[2] \in Pending
    /\ q.answer = t[2].answer /\ q.by = t[2].by /\ q.told = TRUE
    /\ record' = [record EXCEPT ![t[1]] = q]
    /\ heard' \in [Giver -> Nat]
    /\ \A g \in Giver : heard'[g] = IF g = t[2].by THEN heard[g] + Hears(p, t) ELSE heard[g]
    /\ tell' = [tell EXCEPT ![p] = tell[p] \ {t}]

(* markTold does that for one of the answers it tells. *)
LEMMA MarkToldWrites ==
    ASSUME TypeOK, NEW p \in Pause, MarkTold(p)
    PROVE  \E t \in tell[p], q \in Pending : Marks(p, t, q)
  <1>1. PICK t \in tell[p] :
              /\ record' = [record EXCEPT ![t[1]] = [t[2] EXCEPT !.told = TRUE]]
              /\ heard' = [heard EXCEPT ![t[2].by] = heard[t[2].by] + Hears(p, t)]
              /\ tell' = [tell EXCEPT ![p] = tell[p] \ {t}]
    BY DEF MarkTold
  <1>2. t[1] \in Id /\ t[2] \in Pending
    BY DEF TypeOK
  <1>3. Hears(p, t) \in Nat
    BY DEF Hears
  <1>4. \A g \in Giver :
            heard'[g] = IF g = t[2].by THEN heard[g] + Hears(p, t) ELSE heard[g]
    BY <1>1 DEF TypeOK
  <1>5. heard' \in [Giver -> Nat]
    <2>1. DOMAIN heard' = Giver /\ heard' = [g \in Giver |-> heard'[g]]
      BY <1>1 DEF TypeOK
    <2>2. \A g \in Giver : heard'[g] \in Nat
      BY <1>3, <1>4 DEF TypeOK
    <2> QED
      BY <2>1, <2>2
  <1>6. LET q == [t[2] EXCEPT !.told = TRUE] IN
          q \in Pending /\ q.answer = t[2].answer /\ q.by = t[2].by /\ q.told = TRUE
    BY <1>2, Rewritten
  <1> QED
    BY <1>1, <1>2, <1>4, <1>5, <1>6 DEF Marks

(* Every step keeps the types. *)
LEMMA TypeStep == Serial /\ TypeOK /\ ControlOK /\ [Next]_vars => TypeOK'
  <1> SUFFICES ASSUME Serial, TypeOK, ControlOK, [Next]_vars
               PROVE  TypeOK'
    OBVIOUS
  <1> USE Processes, SerialAssumption, BoundAssumption
      DEF TypeOK, ControlOK, CallPC, GiverPC, Holding, Goto, Returns, files, hooks, history
  <1>1. ASSUME NEW c \in Call, Start(c) PROVE TypeOK'
    BY <1>1 DEF Start
  <1>2. ASSUME NEW c \in Call, WithSessionGrant(c) PROVE TypeOK'
    BY <1>2 DEF WithSessionGrant
  <1>3. ASSUME NEW c \in Call, WithChatAnswer(c) PROVE TypeOK'
    BY <1>3 DEF WithChatAnswer
  <1>4. ASSUME NEW c \in Call, ClearClaim(c) PROVE TypeOK'
    BY <1>4 DEF ClearClaim
  <1>5. ASSUME NEW c \in Call, ClearRecord(c) PROVE TypeOK'
    BY <1>5 DEF ClearRecord
  <1>6. ASSUME NEW c \in Call, Settle(c) PROVE TypeOK'
    <2>1. copy[c].by \in Giver \cup {None}
      BY <1>6 DEF Settle, Pending
    <2> QED
      BY <1>6, <2>1 DEF Settle
  <1>7. ASSUME NEW c \in Call, HoldInChat(c) PROVE TypeOK'
    BY <1>7 DEF HoldInChat
  <1>8. ASSUME NEW c \in Call, Raise(c) PROVE TypeOK'
    BY <1>8, RaiseWrites DEF Raise
  <1>9. ASSUME NEW c \in Call, Keep(c) PROVE TypeOK'
    BY <1>9, KeepWrites DEF Keep
  <1>10. ASSUME NEW c \in Call, AnswerPlaces(c) PROVE TypeOK'
    BY <1>10 DEF AnswerPlaces
  <1>11. ASSUME NEW c \in Call, SpokenAnswer(c) PROVE TypeOK'
    BY <1>11 DEF SpokenAnswer
  <1>12. ASSUME NEW c \in Call, WaitOver(c) PROVE TypeOK'
    BY <1>12 DEF WaitOver
  <1>13. ASSUME NEW c \in Call, AlsoOnRead(c) PROVE TypeOK'
    BY <1>13 DEF AlsoOnRead
  <1>14. ASSUME NEW c \in Call, AlsoOnKeep(c) PROVE TypeOK'
    <2>1. record' \in [Id -> Pending \cup {None}]
      BY <1>14, AlsoOnKeepWrites
    <2> QED
      BY <1>14, <2>1 DEF AlsoOnKeep
  <1>15. ASSUME NEW c \in Call, HookFileFails(c) PROVE TypeOK'
    BY <1>15 DEF HookFileFails
  <1>16. ASSUME NEW g \in Giver, AnswerRead(g) PROVE TypeOK'
    BY <1>16 DEF AnswerRead
  <1>17. ASSUME NEW g \in Giver, AnswerClaim(g) PROVE TypeOK'
    BY <1>17 DEF AnswerClaim
  <1>18. ASSUME NEW g \in Giver, AnswerWrite(g) PROVE TypeOK'
    <2>1. /\ copy' \in [Process -> Pending \cup {None}]
          /\ copy'[g] \in Pending /\ copy'[g].answer \in Answer
          /\ record' = [record EXCEPT ![at[g]] = copy'[g]]
          /\ said' = [said EXCEPT ![g] = IF g \in filled THEN None ELSE copy'[g].answer]
      BY <1>18, AnswerWriteWrites
    <2>2. said' \in [Giver -> Answer \cup {None}]
      BY <2>1
    <2> QED
      BY <1>18, <2>1, <2>2 DEF AnswerWrite
  <1>19. ASSUME NEW g \in Giver, AnswerGrant(g) PROVE TypeOK'
    BY <1>19 DEF AnswerGrant
  <1>20. ASSUME NEW r \in Remote, RemoteAnswers(r) PROVE TypeOK'
    BY <1>20 DEF RemoteAnswers, OpenInSession, Listed
  <1>21. ASSUME NEW p \in Pause, PauseStarts(p) PROVE TypeOK'
    BY <1>21 DEF PauseStarts
  <1>22. ASSUME NEW p \in Pause, AnswerInChat(p) PROVE TypeOK'
    BY <1>22 DEF AnswerInChat, OpenInSession, Listed
  <1>23. ASSUME NEW p \in Pause, AnswersArrived(p) PROVE TypeOK'
    <2>1. {<<i, record[i]>> : i \in AnsweredUntold} \in SUBSET (Id \X Pending)
      BY DEF AnsweredUntold, Listed
    <2> QED
      BY <1>23, <2>1 DEF AnswersArrived
  <1>24. ASSUME NEW p \in Pause, ListenEnds(p) PROVE TypeOK'
    BY <1>24 DEF ListenEnds
  <1>25. ASSUME NEW p \in Pause, PickerOpens(p) PROVE TypeOK'
    BY <1>25 DEF PickerOpens
  <1>26. ASSUME NEW p \in Pause, PickerUnseen(p) PROVE TypeOK'
    BY <1>26 DEF PickerUnseen
  <1>27. ASSUME NEW p \in Pause, Picked(p) PROVE TypeOK'
    BY <1>27 DEF Picked
  <1>28. ASSUME NEW p \in Pause, MarkTold(p) PROVE TypeOK'
    <2>1. PICK t \in tell[p], q \in Pending : Marks(p, t, q)
      BY <1>28, MarkToldWrites
    <2>2. tell' \in [Pause -> SUBSET (Id \X Pending)]
      BY <2>1 DEF Marks
    <2> QED
      BY <1>28, <2>1, <2>2 DEF MarkTold, Marks
  <1>29. ASSUME NEW i \in Id, Expire(i) PROVE TypeOK'
    BY <1>29 DEF Expire
  <1>30. CASE UNCHANGED vars
    BY <1>30 DEF vars
  <1> QED
    BY <1>1, <1>2, <1>3, <1>4, <1>5, <1>6, <1>7, <1>8, <1>9, <1>10, <1>11, <1>12, <1>13,
       <1>14, <1>15, <1>16, <1>17, <1>18, <1>19, <1>20, <1>21, <1>22, <1>23, <1>24, <1>25,
       <1>26, <1>27, <1>28, <1>29, <1>30 DEF Next, CallStep, AnswerStep, PauseStep

(* Every step leaves each process holding what its next step uses. *)
LEMMA ControlStep == Serial /\ TypeOK /\ ControlOK /\ [Next]_vars => ControlOK'
  <1> SUFFICES ASSUME Serial, TypeOK, ControlOK, [Next]_vars
               PROVE  ControlOK'
    OBVIOUS
  <1> USE Processes DEF TypeOK, ControlOK, Holding, Goto, Returns, files, hooks, history
  <1>1. ASSUME NEW c \in Call, Start(c) PROVE ControlOK'
    BY <1>1 DEF Start
  <1>2. ASSUME NEW c \in Call, WithSessionGrant(c) PROVE ControlOK'
    BY <1>2 DEF WithSessionGrant
  <1>3. ASSUME NEW c \in Call, WithChatAnswer(c) PROVE ControlOK'
    BY <1>3 DEF WithChatAnswer, OpenQuestion, Listed
  <1>4. ASSUME NEW c \in Call, ClearClaim(c) PROVE ControlOK'
    BY <1>4 DEF ClearClaim
  <1>5. ASSUME NEW c \in Call, ClearRecord(c) PROVE ControlOK'
    BY <1>5 DEF ClearRecord
  <1>6. ASSUME NEW c \in Call, Settle(c) PROVE ControlOK'
    BY <1>6 DEF Settle
  <1>7. ASSUME NEW c \in Call, HoldInChat(c) PROVE ControlOK'
    BY <1>7 DEF HoldInChat, OpenQuestion, Listed
  <1>8. ASSUME NEW c \in Call, Raise(c) PROVE ControlOK'
    BY <1>8, RaiseWrites DEF Raise
  <1>9. ASSUME NEW c \in Call, Keep(c) PROVE ControlOK'
    BY <1>9, KeepWrites DEF Keep
  <1>10. ASSUME NEW c \in Call, AnswerPlaces(c) PROVE ControlOK'
    BY <1>10 DEF AnswerPlaces
  <1>11. ASSUME NEW c \in Call, SpokenAnswer(c) PROVE ControlOK'
    BY <1>11 DEF SpokenAnswer
  <1>12. ASSUME NEW c \in Call, WaitOver(c) PROVE ControlOK'
    BY <1>12 DEF WaitOver
  <1>13. ASSUME NEW c \in Call, AlsoOnRead(c) PROVE ControlOK'
    BY <1>13 DEF AlsoOnRead
  <1>14. ASSUME NEW c \in Call, AlsoOnKeep(c) PROVE ControlOK'
    BY <1>14 DEF AlsoOnKeep
  <1>15. ASSUME NEW c \in Call, HookFileFails(c) PROVE ControlOK'
    BY <1>15 DEF HookFileFails
  <1>16. ASSUME NEW g \in Giver, AnswerRead(g) PROVE ControlOK'
    BY <1>16 DEF AnswerRead
  <1>17. ASSUME NEW g \in Giver, AnswerClaim(g) PROVE ControlOK'
    BY <1>17 DEF AnswerClaim
  <1>18. ASSUME NEW g \in Giver, AnswerWrite(g) PROVE ControlOK'
    BY <1>18, AnswerWriteWrites DEF AnswerWrite
  <1>19. ASSUME NEW g \in Giver, AnswerGrant(g) PROVE ControlOK'
    BY <1>19 DEF AnswerGrant
  <1>20. ASSUME NEW r \in Remote, RemoteAnswers(r) PROVE ControlOK'
    BY <1>20 DEF RemoteAnswers, OpenInSession, Listed
  <1>21. ASSUME NEW p \in Pause, PauseStarts(p) PROVE ControlOK'
    BY <1>21 DEF PauseStarts
  <1>22. ASSUME NEW p \in Pause, AnswerInChat(p) PROVE ControlOK'
    BY <1>22 DEF AnswerInChat, OpenInSession, Listed
  <1>23. ASSUME NEW p \in Pause, AnswersArrived(p) PROVE ControlOK'
    BY <1>23 DEF AnswersArrived
  <1>24. ASSUME NEW p \in Pause, ListenEnds(p) PROVE ControlOK'
    BY <1>24 DEF ListenEnds
  <1>25. ASSUME NEW p \in Pause, PickerOpens(p) PROVE ControlOK'
    BY <1>25 DEF PickerOpens
  <1>26. ASSUME NEW p \in Pause, PickerUnseen(p) PROVE ControlOK'
    BY <1>26 DEF PickerUnseen
  <1>27. ASSUME NEW p \in Pause, Picked(p) PROVE ControlOK'
    BY <1>27 DEF Picked
  <1>28. ASSUME NEW p \in Pause, MarkTold(p) PROVE ControlOK'
    BY <1>28 DEF MarkTold
  <1>29. ASSUME NEW i \in Id, Expire(i) PROVE ControlOK'
    BY <1>29 DEF Expire
  <1>30. CASE UNCHANGED vars
    BY <1>30 DEF vars
  <1> QED
    BY <1>1, <1>2, <1>3, <1>4, <1>5, <1>6, <1>7, <1>8, <1>9, <1>10, <1>11, <1>12, <1>13,
       <1>14, <1>15, <1>16, <1>17, <1>18, <1>19, <1>20, <1>21, <1>22, <1>23, <1>24, <1>25,
       <1>26, <1>27, <1>28, <1>29, <1>30 DEF Next, CallStep, AnswerStep, PauseStep

(* Hooks that start only when none is under way leave one at a time. *)
LEMMA SerialStep == Serial /\ TypeOK /\ SerialInv /\ [Next]_vars => SerialInv'
  <1> SUFFICES ASSUME Serial, TypeOK, SerialInv, [Next]_vars
               PROVE  SerialInv'
    OBVIOUS
  <1> USE ProcessAssumption, Processes
      DEF TypeOK, SerialInv, UnderWay, Done, Hook, Goto, files, hooks, history
  <1>1. ASSUME NEW c \in Call, Start(c) PROVE SerialInv'
    BY <1>1 DEF Start, MayStart
  <1>2. ASSUME NEW c \in Call, WithSessionGrant(c) PROVE SerialInv'
    BY <1>2 DEF WithSessionGrant
  <1>3. ASSUME NEW c \in Call, WithChatAnswer(c) PROVE SerialInv'
    BY <1>3 DEF WithChatAnswer
  <1>4. ASSUME NEW c \in Call, ClearClaim(c) PROVE SerialInv'
    BY <1>4 DEF ClearClaim
  <1>5. ASSUME NEW c \in Call, ClearRecord(c) PROVE SerialInv'
    BY <1>5 DEF ClearRecord
  <1>6. ASSUME NEW c \in Call, Settle(c) PROVE SerialInv'
    BY <1>6 DEF Settle
  <1>7. ASSUME NEW c \in Call, HoldInChat(c) PROVE SerialInv'
    BY <1>7 DEF HoldInChat
  <1>8. ASSUME NEW c \in Call, Raise(c) PROVE SerialInv'
    BY <1>8 DEF Raise
  <1>9. ASSUME NEW c \in Call, Keep(c) PROVE SerialInv'
    BY <1>9 DEF Keep
  <1>10. ASSUME NEW c \in Call, AnswerPlaces(c) PROVE SerialInv'
    BY <1>10 DEF AnswerPlaces
  <1>11. ASSUME NEW c \in Call, SpokenAnswer(c) PROVE SerialInv'
    BY <1>11 DEF SpokenAnswer
  <1>12. ASSUME NEW c \in Call, WaitOver(c) PROVE SerialInv'
    BY <1>12 DEF WaitOver
  <1>13. ASSUME NEW c \in Call, AlsoOnRead(c) PROVE SerialInv'
    BY <1>13 DEF AlsoOnRead
  <1>14. ASSUME NEW c \in Call, AlsoOnKeep(c) PROVE SerialInv'
    BY <1>14 DEF AlsoOnKeep
  <1>15. ASSUME NEW c \in Call, HookFileFails(c) PROVE SerialInv'
    BY <1>15 DEF HookFileFails
  <1>16. ASSUME NEW g \in Giver, AnswerRead(g) PROVE SerialInv'
    BY <1>16 DEF AnswerRead
  <1>17. ASSUME NEW g \in Giver, AnswerClaim(g) PROVE SerialInv'
    BY <1>17 DEF AnswerClaim
  <1>18. ASSUME NEW g \in Giver, AnswerWrite(g) PROVE SerialInv'
    BY <1>18 DEF AnswerWrite
  <1>19. ASSUME NEW g \in Giver, AnswerGrant(g) PROVE SerialInv'
    BY <1>19 DEF AnswerGrant
  <1>20. ASSUME NEW r \in Remote, RemoteAnswers(r) PROVE SerialInv'
    BY <1>20 DEF RemoteAnswers
  <1>21. ASSUME NEW p \in Pause, PauseStarts(p) PROVE SerialInv'
    BY <1>21 DEF PauseStarts, MayStart
  <1>22. ASSUME NEW p \in Pause, AnswerInChat(p) PROVE SerialInv'
    BY <1>22 DEF AnswerInChat
  <1>23. ASSUME NEW p \in Pause, AnswersArrived(p) PROVE SerialInv'
    BY <1>23 DEF AnswersArrived
  <1>24. ASSUME NEW p \in Pause, ListenEnds(p) PROVE SerialInv'
    BY <1>24 DEF ListenEnds
  <1>25. ASSUME NEW p \in Pause, PickerOpens(p) PROVE SerialInv'
    BY <1>25 DEF PickerOpens
  <1>26. ASSUME NEW p \in Pause, PickerUnseen(p) PROVE SerialInv'
    BY <1>26 DEF PickerUnseen
  <1>27. ASSUME NEW p \in Pause, Picked(p) PROVE SerialInv'
    BY <1>27 DEF Picked
  <1>28. ASSUME NEW p \in Pause, MarkTold(p) PROVE SerialInv'
    BY <1>28 DEF MarkTold
  <1>29. ASSUME NEW i \in Id, Expire(i) PROVE SerialInv'
    BY <1>29 DEF Expire
  <1>30. CASE UNCHANGED vars
    BY <1>30 DEF vars
  <1> QED
    BY <1>1, <1>2, <1>3, <1>4, <1>5, <1>6, <1>7, <1>8, <1>9, <1>10, <1>11, <1>12, <1>13,
       <1>14, <1>15, <1>16, <1>17, <1>18, <1>19, <1>20, <1>21, <1>22, <1>23, <1>24, <1>25,
       <1>26, <1>27, <1>28, <1>29, <1>30 DEF Next, CallStep, AnswerStep, PauseStep

(* A filled picker is never seen opening, so it never comes to answering. *)
LEMMA FilledStep == TypeOK /\ FilledInv /\ [Next]_vars => FilledInv'
  <1> SUFFICES ASSUME TypeOK, FilledInv, [Next]_vars
               PROVE  FilledInv'
    OBVIOUS
  <1> USE Processes DEF TypeOK, FilledInv, Goto, files, hooks, history
  <1>1. ASSUME NEW c \in Call, Start(c) PROVE FilledInv'
    BY <1>1 DEF Start
  <1>2. ASSUME NEW c \in Call, WithSessionGrant(c) PROVE FilledInv'
    BY <1>2 DEF WithSessionGrant
  <1>3. ASSUME NEW c \in Call, WithChatAnswer(c) PROVE FilledInv'
    BY <1>3 DEF WithChatAnswer
  <1>4. ASSUME NEW c \in Call, ClearClaim(c) PROVE FilledInv'
    BY <1>4 DEF ClearClaim
  <1>5. ASSUME NEW c \in Call, ClearRecord(c) PROVE FilledInv'
    BY <1>5 DEF ClearRecord
  <1>6. ASSUME NEW c \in Call, Settle(c) PROVE FilledInv'
    BY <1>6 DEF Settle
  <1>7. ASSUME NEW c \in Call, HoldInChat(c) PROVE FilledInv'
    BY <1>7 DEF HoldInChat
  <1>8. ASSUME NEW c \in Call, Raise(c) PROVE FilledInv'
    BY <1>8 DEF Raise
  <1>9. ASSUME NEW c \in Call, Keep(c) PROVE FilledInv'
    BY <1>9 DEF Keep
  <1>10. ASSUME NEW c \in Call, AnswerPlaces(c) PROVE FilledInv'
    BY <1>10 DEF AnswerPlaces
  <1>11. ASSUME NEW c \in Call, SpokenAnswer(c) PROVE FilledInv'
    BY <1>11 DEF SpokenAnswer
  <1>12. ASSUME NEW c \in Call, WaitOver(c) PROVE FilledInv'
    BY <1>12 DEF WaitOver
  <1>13. ASSUME NEW c \in Call, AlsoOnRead(c) PROVE FilledInv'
    BY <1>13 DEF AlsoOnRead
  <1>14. ASSUME NEW c \in Call, AlsoOnKeep(c) PROVE FilledInv'
    BY <1>14 DEF AlsoOnKeep
  <1>15. ASSUME NEW c \in Call, HookFileFails(c) PROVE FilledInv'
    BY <1>15 DEF HookFileFails
  <1>16. ASSUME NEW g \in Giver, AnswerRead(g) PROVE FilledInv'
    BY <1>16 DEF AnswerRead
  <1>17. ASSUME NEW g \in Giver, AnswerClaim(g) PROVE FilledInv'
    BY <1>17 DEF AnswerClaim
  <1>18. ASSUME NEW g \in Giver, AnswerWrite(g) PROVE FilledInv'
    BY <1>18 DEF AnswerWrite
  <1>19. ASSUME NEW g \in Giver, AnswerGrant(g) PROVE FilledInv'
    BY <1>19 DEF AnswerGrant
  <1>20. ASSUME NEW r \in Remote, RemoteAnswers(r) PROVE FilledInv'
    BY <1>20 DEF RemoteAnswers
  <1>21. ASSUME NEW p \in Pause, PauseStarts(p) PROVE FilledInv'
    BY <1>21 DEF PauseStarts
  <1>22. ASSUME NEW p \in Pause, AnswerInChat(p) PROVE FilledInv'
    BY <1>22 DEF AnswerInChat
  <1>23. ASSUME NEW p \in Pause, AnswersArrived(p) PROVE FilledInv'
    BY <1>23 DEF AnswersArrived
  <1>24. ASSUME NEW p \in Pause, ListenEnds(p) PROVE FilledInv'
    BY <1>24 DEF ListenEnds
  <1>25. ASSUME NEW p \in Pause, PickerOpens(p) PROVE FilledInv'
    BY <1>25 DEF PickerOpens
  <1>26. ASSUME NEW p \in Pause, PickerUnseen(p) PROVE FilledInv'
    BY <1>26 DEF PickerUnseen
  <1>27. ASSUME NEW p \in Pause, Picked(p) PROVE FilledInv'
    BY <1>27 DEF Picked
  <1>28. ASSUME NEW p \in Pause, MarkTold(p) PROVE FilledInv'
    BY <1>28 DEF MarkTold
  <1>29. ASSUME NEW i \in Id, Expire(i) PROVE FilledInv'
    BY <1>29 DEF Expire
  <1>30. CASE UNCHANGED vars
    BY <1>30 DEF vars
  <1> QED
    BY <1>1, <1>2, <1>3, <1>4, <1>5, <1>6, <1>7, <1>8, <1>9, <1>10, <1>11, <1>12, <1>13,
       <1>14, <1>15, <1>16, <1>17, <1>18, <1>19, <1>20, <1>21, <1>22, <1>23, <1>24, <1>25,
       <1>26, <1>27, <1>28, <1>29, <1>30 DEF Next, CallStep, AnswerStep, PauseStep

(* What a person said, and about which question, stays. *)
SaidStays == \A g \in Giver : said[g] # None => said'[g] = said[g] /\ at'[g] = at[g]

(* Nobody answers twice. *)
LEMMA SaidStep == TypeOK /\ VoiceInv /\ [Next]_vars => SaidStays
  <1> SUFFICES ASSUME TypeOK, VoiceInv, [Next]_vars
               PROVE  SaidStays
    OBVIOUS
  <1>0. \A g \in Giver : said[g] # None => pc[g] \in {"grant", "tell", "done"}
    BY DEF VoiceInv, GiversVoiced
  <1> USE <1>0, Processes DEF TypeOK, SaidStays, Goto, Returns, files, hooks, history
  <1>1. ASSUME NEW c \in Call, Start(c) PROVE SaidStays
    BY <1>1 DEF Start
  <1>2. ASSUME NEW c \in Call, WithSessionGrant(c) PROVE SaidStays
    BY <1>2 DEF WithSessionGrant
  <1>3. ASSUME NEW c \in Call, WithChatAnswer(c) PROVE SaidStays
    BY <1>3 DEF WithChatAnswer
  <1>4. ASSUME NEW c \in Call, ClearClaim(c) PROVE SaidStays
    BY <1>4 DEF ClearClaim
  <1>5. ASSUME NEW c \in Call, ClearRecord(c) PROVE SaidStays
    BY <1>5 DEF ClearRecord
  <1>6. ASSUME NEW c \in Call, Settle(c) PROVE SaidStays
    BY <1>6 DEF Settle
  <1>7. ASSUME NEW c \in Call, HoldInChat(c) PROVE SaidStays
    BY <1>7 DEF HoldInChat
  <1>8. ASSUME NEW c \in Call, Raise(c) PROVE SaidStays
    BY <1>8 DEF Raise
  <1>9. ASSUME NEW c \in Call, Keep(c) PROVE SaidStays
    BY <1>9 DEF Keep
  <1>10. ASSUME NEW c \in Call, AnswerPlaces(c) PROVE SaidStays
    BY <1>10 DEF AnswerPlaces
  <1>11. ASSUME NEW c \in Call, SpokenAnswer(c) PROVE SaidStays
    BY <1>11 DEF SpokenAnswer
  <1>12. ASSUME NEW c \in Call, WaitOver(c) PROVE SaidStays
    BY <1>12 DEF WaitOver
  <1>13. ASSUME NEW c \in Call, AlsoOnRead(c) PROVE SaidStays
    BY <1>13 DEF AlsoOnRead
  <1>14. ASSUME NEW c \in Call, AlsoOnKeep(c) PROVE SaidStays
    BY <1>14 DEF AlsoOnKeep
  <1>15. ASSUME NEW c \in Call, HookFileFails(c) PROVE SaidStays
    BY <1>15 DEF HookFileFails
  <1>16. ASSUME NEW g \in Giver, AnswerRead(g) PROVE SaidStays
    BY <1>16 DEF AnswerRead
  <1>17. ASSUME NEW g \in Giver, AnswerClaim(g) PROVE SaidStays
    BY <1>17 DEF AnswerClaim
  <1>18. ASSUME NEW g \in Giver, AnswerWrite(g) PROVE SaidStays
    BY <1>18 DEF AnswerWrite
  <1>19. ASSUME NEW g \in Giver, AnswerGrant(g) PROVE SaidStays
    BY <1>19 DEF AnswerGrant
  <1>20. ASSUME NEW r \in Remote, RemoteAnswers(r) PROVE SaidStays
    BY <1>20 DEF RemoteAnswers
  <1>21. ASSUME NEW p \in Pause, PauseStarts(p) PROVE SaidStays
    BY <1>21 DEF PauseStarts
  <1>22. ASSUME NEW p \in Pause, AnswerInChat(p) PROVE SaidStays
    BY <1>22 DEF AnswerInChat
  <1>23. ASSUME NEW p \in Pause, AnswersArrived(p) PROVE SaidStays
    BY <1>23 DEF AnswersArrived
  <1>24. ASSUME NEW p \in Pause, ListenEnds(p) PROVE SaidStays
    BY <1>24 DEF ListenEnds
  <1>25. ASSUME NEW p \in Pause, PickerOpens(p) PROVE SaidStays
    BY <1>25 DEF PickerOpens
  <1>26. ASSUME NEW p \in Pause, PickerUnseen(p) PROVE SaidStays
    BY <1>26 DEF PickerUnseen
  <1>27. ASSUME NEW p \in Pause, Picked(p) PROVE SaidStays
    BY <1>27 DEF Picked
  <1>28. ASSUME NEW p \in Pause, MarkTold(p) PROVE SaidStays
    BY <1>28 DEF MarkTold
  <1>29. ASSUME NEW i \in Id, Expire(i) PROVE SaidStays
    BY <1>29 DEF Expire
  <1>30. CASE UNCHANGED vars
    BY <1>30 DEF vars
  <1> QED
    BY <1>1, <1>2, <1>3, <1>4, <1>5, <1>6, <1>7, <1>8, <1>9, <1>10, <1>11, <1>12, <1>13,
       <1>14, <1>15, <1>16, <1>17, <1>18, <1>19, <1>20, <1>21, <1>22, <1>23, <1>24, <1>25,
       <1>26, <1>27, <1>28, <1>29, <1>30 DEF Next, CallStep, AnswerStep, PauseStep

(* Which steps write a record, move a call's hook, and change what a pause  *)
(* is about to tell.                                                        *)
RecordWritten ==
    \/ \E c \in Call : ClearRecord(c) \/ Raise(c) \/ Keep(c) \/ AlsoOnKeep(c)
    \/ \E g \in Giver : AnswerWrite(g)
    \/ \E p \in Pause : MarkTold(p)

TellWritten ==
    \/ \E g \in Giver : AnswerGrant(g)
    \/ \E p \in Pause : AnswersArrived(p) \/ PickerOpens(p) \/ Picked(p) \/ MarkTold(p)

CallsStand ==
    /\ \A c \in Call : pc'[c] = pc[c] /\ at'[c] = at[c] /\ copy'[c] = copy[c]
    /\ ranOn' = ranOn

(* No other step does. *)
LEMMA Frames ==
    ASSUME TypeOK, ControlOK, [Next]_vars
    PROVE  /\ record' = record \/ RecordWritten
           /\ tell' = tell \/ TellWritten
           /\ CallsStand \/ \E c \in Call : Start(c) \/ CallStep(c) \/ HookFileFails(c)
  <1>1. record' = record \/ RecordWritten
    BY DEF RecordWritten, Next, vars, files, hooks, history, CallStep, AnswerStep,
       PauseStep,
       Start, WithSessionGrant, WithChatAnswer, ClearClaim, Settle, HoldInChat, AnswerPlaces,
       SpokenAnswer, WaitOver, AlsoOnRead, HookFileFails, AnswerRead, AnswerClaim, AnswerGrant,
       RemoteAnswers, PauseStarts, AnswerInChat, AnswersArrived, ListenEnds, PickerOpens,
       PickerUnseen, Picked, Expire
  <1>2. tell' = tell \/ TellWritten
    BY DEF TellWritten, Next, vars, files, hooks, history, CallStep, AnswerStep,
       PauseStep,
       Start, WithSessionGrant, WithChatAnswer, ClearClaim, ClearRecord, Settle, HoldInChat,
       Raise, Keep, AnswerPlaces, SpokenAnswer, WaitOver, AlsoOnRead, AlsoOnKeep, HookFileFails,
       AnswerRead, AnswerClaim, AnswerWrite, RemoteAnswers, PauseStarts, AnswerInChat,
       ListenEnds, PickerUnseen, Expire
  <1>3. ASSUME NEW g \in Giver, AnswerStep(g) PROVE CallsStand
    <2>1. CASE AnswerWrite(g)
      <3>1. \A q \in Process : q # g => copy'[q] = copy[q]
        BY <2>1, AnswerWriteWrites
      <3> QED
        BY <2>1, <3>1, Processes DEF CallsStand, TypeOK, AnswerWrite, Goto, history
    <2> QED
      BY <1>3, <2>1, Processes DEF CallsStand, TypeOK, AnswerStep, AnswerRead,
         AnswerClaim,
         AnswerGrant, Goto, history
  <1>4. ASSUME NEW r \in Remote, RemoteAnswers(r) PROVE CallsStand
    BY <1>4, Processes DEF CallsStand, TypeOK, RemoteAnswers, Goto, history
  <1>5. ASSUME NEW p \in Pause, PauseStarts(p) \/ PauseStep(p) PROVE CallsStand
    BY <1>5, Processes DEF CallsStand, TypeOK, PauseStarts, PauseStep, AnswerInChat,
       AnswersArrived, ListenEnds, PickerOpens, PickerUnseen, Picked, MarkTold, Goto, history
  <1>6. ASSUME NEW i \in Id, Expire(i) PROVE CallsStand
    BY <1>6 DEF CallsStand, Expire, hooks, history
  <1>7. CASE UNCHANGED vars
    BY <1>7 DEF CallsStand, vars, files, hooks, history
  <1> QED
    BY <1>1, <1>2, <1>3, <1>4, <1>5, <1>6, <1>7 DEF Next

(* Whatever a hook writes into a record, its answer is one its giver gave. *)
LEMMA RecordsVoicedStep ==
    ASSUME Serial, TypeOK, ControlOK, SerialInv, FilledInv, VoiceInv, [Next]_vars,
           SaidStays
    PROVE  RecordsVoiced'
  <1> USE ProcessAssumption, Processes
      DEF TypeOK, VoiceInv, RecordsVoiced, Voiced, SaidStays
  <1>1. CASE record' = record
    BY <1>1
  <1>2. ASSUME NEW c \in Call, ClearRecord(c) PROVE RecordsVoiced'
    BY <1>2 DEF ClearRecord
  <1>3. ASSUME NEW c \in Call, Raise(c) PROVE RecordsVoiced'
    <2>1. /\ record'[ms'].answer = None /\ record'[ms'].by = None
          /\ \A i \in Id : i # ms' => record'[i] = record[i]
      BY <1>3, RaiseWrites
    <2>2. ASSUME NEW i \in Id, record'[i] # None PROVE Voiced(i, record[i])'
      BY <2>1, <2>2
    <2> QED
      BY <2>2
  <1>4. ASSUME NEW c \in Call, Keep(c) PROVE RecordsVoiced'
    BY <1>4, KeepWrites DEF CopiesVoiced, Holding, Keep
  <1>5. ASSUME NEW c \in Call, AlsoOnKeep(c) PROVE RecordsVoiced'
    <2>1. Voiced(at[c], copy[c])
      BY <1>5 DEF CopiesVoiced, Holding, AlsoOnKeep
    <2>2. PICK q \in Pending :
              /\ q.answer = copy[c].answer /\ q.by = copy[c].by /\ q.told = copy[c].told
              /\ record' = [record EXCEPT ![at[c]] = q]
              /\ at[c] \in Id
      BY <1>5, AlsoOnKeepWrites
    <2> QED
      BY <2>1, <2>2
  <1>6. ASSUME NEW g \in Giver, AnswerWrite(g) PROVE RecordsVoiced'
    BY <1>6, AnswerWriteWrites DEF AnswerWrite, FilledInv
  <1>7. ASSUME NEW p \in Pause, MarkTold(p) PROVE RecordsVoiced'
    <2>1. PICK t \in tell[p], q \in Pending : Marks(p, t, q)
      BY <1>7, MarkToldWrites
    <2> QED
      BY <2>1 DEF Marks, TellsVoiced
  <1> QED
    BY <1>1, <1>2, <1>3, <1>4, <1>5, <1>6, <1>7, Frames DEF RecordWritten

(* A hook on a call holds the question as a record had it. *)
LEMMA CopiesVoicedStep ==
    ASSUME Serial, TypeOK, ControlOK, SerialInv, FilledInv, VoiceInv, [Next]_vars,
           SaidStays
    PROVE  CopiesVoiced'
  <1> USE ProcessAssumption, Processes
      DEF TypeOK, ControlOK, VoiceInv, CopiesVoiced, Voiced, SaidStays, Holding, Goto
  <1>1. CASE CallsStand
    BY <1>1 DEF CallsStand
  <1>2. ASSUME NEW c \in Call, Start(c) PROVE CopiesVoiced'
    BY <1>2 DEF Start
  <1>3. ASSUME NEW c \in Call, WithSessionGrant(c) PROVE CopiesVoiced'
    BY <1>3 DEF WithSessionGrant
  <1>4. ASSUME NEW c \in Call, WithChatAnswer(c) PROVE CopiesVoiced'
    BY <1>4 DEF WithChatAnswer, OpenQuestion, Listed, RecordsVoiced
  <1>5. ASSUME NEW c \in Call, ClearClaim(c) PROVE CopiesVoiced'
    BY <1>5 DEF ClearClaim
  <1>6. ASSUME NEW c \in Call, ClearRecord(c) PROVE CopiesVoiced'
    BY <1>6 DEF ClearRecord
  <1>7. ASSUME NEW c \in Call, Settle(c) PROVE CopiesVoiced'
    BY <1>7 DEF Settle, Returns
  <1>8. ASSUME NEW c \in Call, HoldInChat(c) PROVE CopiesVoiced'
    BY <1>8 DEF HoldInChat, OpenQuestion, Listed, RecordsVoiced
  <1>9. ASSUME NEW c \in Call, Raise(c) PROVE CopiesVoiced'
    <2>1. copy'[c].answer = None /\ copy'[c].by = None
      BY <1>9, RaiseWrites
    <2>2. pc'[c] = "keep"
      BY <1>9 DEF Raise
    <2>3. \A d \in Call : d # c => pc'[d] = pc[d] /\ at'[d] = at[d] /\ copy'[d] = copy[d]
      BY <1>9 DEF Raise
    <2> QED
      BY <2>1, <2>2, <2>3
  <1>10. ASSUME NEW c \in Call, Keep(c) PROVE CopiesVoiced'
    BY <1>10, KeepWrites DEF Keep
  <1>11. ASSUME NEW c \in Call, AnswerPlaces(c) PROVE CopiesVoiced'
    BY <1>11 DEF AnswerPlaces, Returns
  <1>12. ASSUME NEW c \in Call, SpokenAnswer(c) PROVE CopiesVoiced'
    BY <1>12 DEF SpokenAnswer
  <1>13. ASSUME NEW c \in Call, WaitOver(c) PROVE CopiesVoiced'
    BY <1>13 DEF WaitOver
  <1>14. ASSUME NEW c \in Call, AlsoOnRead(c) PROVE CopiesVoiced'
    BY <1>14 DEF AlsoOnRead, RecordsVoiced
  <1>15. ASSUME NEW c \in Call, AlsoOnKeep(c) PROVE CopiesVoiced'
    BY <1>15 DEF AlsoOnKeep, Returns
  <1>16. ASSUME NEW c \in Call, HookFileFails(c) PROVE CopiesVoiced'
    BY <1>16 DEF HookFileFails, Returns
  <1> QED
    BY <1>1, <1>2, <1>3, <1>4, <1>5, <1>6, <1>7, <1>8, <1>9, <1>10, <1>11, <1>12, <1>13,
       <1>14, <1>15, <1>16, Frames DEF CallStep

(* What a pause is about to tell came from a record, or is its own answer. *)
LEMMA TellsVoicedStep ==
    ASSUME Serial, TypeOK, ControlOK, SerialInv, FilledInv, VoiceInv, [Next]_vars,
           SaidStays
    PROVE  TellsVoiced'
  <1> USE ProcessAssumption, Processes
      DEF TypeOK, ControlOK, VoiceInv, RecordsVoiced, TellsVoiced, Voiced, SaidStays
  <1>1. CASE tell' = tell
    BY <1>1
  <1>2. ASSUME NEW g \in Giver, AnswerGrant(g) PROVE TellsVoiced'
    <2>1. Voiced(at[g], copy[g]) /\ copy[g].by = g
      BY <1>2 DEF AnswerGrant, GiversVoiced
    <2>2. copy[g].answer # None
      BY <2>1
    <2>3. \A p \in Pause : \A t \in tell'[p] : t \in tell[p] \/ t = <<at[g], copy[g]>>
      BY <1>2 DEF AnswerGrant
    <2> QED
      BY <2>1, <2>2, <2>3
  <1>3. ASSUME NEW p \in Pause, AnswersArrived(p) PROVE TellsVoiced'
    BY <1>3 DEF AnswersArrived, AnsweredUntold, Listed
  <1>4. ASSUME NEW p \in Pause, PickerOpens(p) PROVE TellsVoiced'
    BY <1>4 DEF PickerOpens
  <1>5. ASSUME NEW p \in Pause, Picked(p) PROVE TellsVoiced'
    BY <1>5 DEF Picked
  <1>6. ASSUME NEW p \in Pause, MarkTold(p) PROVE TellsVoiced'
    <2>1. PICK t \in tell[p], q \in Pending : Marks(p, t, q)
      BY <1>6, MarkToldWrites
    <2> QED
      BY <2>1 DEF Marks
  <1> QED
    BY <1>1, <1>2, <1>3, <1>4, <1>5, <1>6, Frames DEF TellWritten

(* A giver answers the question it read unanswered, and once. *)
LEMMA GiversVoicedStep ==
    ASSUME Serial, TypeOK, ControlOK, SerialInv, FilledInv, VoiceInv, [Next]_vars,
           SaidStays
    PROVE  GiversVoiced'
  <1> USE ProcessAssumption, Processes
      DEF TypeOK, ControlOK, VoiceInv, GiversVoiced, Voiced, SaidStays, Goto,
          files, hooks, history
  <1>1. ASSUME NEW c \in Call, Start(c) PROVE GiversVoiced'
    BY <1>1 DEF Start
  <1>2. ASSUME NEW c \in Call, WithSessionGrant(c) PROVE GiversVoiced'
    BY <1>2 DEF WithSessionGrant
  <1>3. ASSUME NEW c \in Call, WithChatAnswer(c) PROVE GiversVoiced'
    BY <1>3 DEF WithChatAnswer
  <1>4. ASSUME NEW c \in Call, ClearClaim(c) PROVE GiversVoiced'
    BY <1>4 DEF ClearClaim
  <1>5. ASSUME NEW c \in Call, ClearRecord(c) PROVE GiversVoiced'
    BY <1>5 DEF ClearRecord
  <1>6. ASSUME NEW c \in Call, Settle(c) PROVE GiversVoiced'
    BY <1>6 DEF Settle, Returns
  <1>7. ASSUME NEW c \in Call, HoldInChat(c) PROVE GiversVoiced'
    BY <1>7 DEF HoldInChat
  <1>8. ASSUME NEW c \in Call, Raise(c) PROVE GiversVoiced'
    BY <1>8 DEF Raise
  <1>9. ASSUME NEW c \in Call, Keep(c) PROVE GiversVoiced'
    BY <1>9, KeepWrites DEF Keep
  <1>10. ASSUME NEW c \in Call, AnswerPlaces(c) PROVE GiversVoiced'
    BY <1>10 DEF AnswerPlaces, Returns
  <1>11. ASSUME NEW c \in Call, SpokenAnswer(c) PROVE GiversVoiced'
    BY <1>11 DEF SpokenAnswer
  <1>12. ASSUME NEW c \in Call, WaitOver(c) PROVE GiversVoiced'
    BY <1>12 DEF WaitOver
  <1>13. ASSUME NEW c \in Call, AlsoOnRead(c) PROVE GiversVoiced'
    BY <1>13 DEF AlsoOnRead
  <1>14. ASSUME NEW c \in Call, AlsoOnKeep(c) PROVE GiversVoiced'
    BY <1>14 DEF AlsoOnKeep, Returns
  <1>15. ASSUME NEW c \in Call, HookFileFails(c) PROVE GiversVoiced'
    BY <1>15 DEF HookFileFails, Returns
  <1>16. ASSUME NEW g \in Giver, AnswerRead(g) PROVE GiversVoiced'
    <2>1. pc'[g] = "claim" => copy'[g] = record[at[g]] /\ record[at[g]] # None
                               /\ record[at[g]].answer = None
      BY <1>16 DEF AnswerRead
    <2>2. pc'[g] = "claim" => copy'[g].answer = None /\ copy'[g].by = None
      BY <1>16, <2>1 DEF AnswerRead, RecordsVoiced, Answer
    <2>3. pc'[g] \in {"claim", "done"} /\ \A h \in Giver : h # g => pc'[h] = pc[h] /\ copy'[h] = copy[h]
      BY <1>16 DEF AnswerRead
    <2>4. at' = at /\ said' = said
      BY <1>16 DEF AnswerRead, history
    <2> QED
      BY <1>16, <2>2, <2>3, <2>4 DEF AnswerRead
  <1>17. ASSUME NEW g \in Giver, AnswerClaim(g) PROVE GiversVoiced'
    BY <1>17 DEF AnswerClaim
  <1>18. ASSUME NEW g \in Giver, AnswerWrite(g) PROVE GiversVoiced'
    BY <1>18, AnswerWriteWrites DEF AnswerWrite, FilledInv
  <1>19. ASSUME NEW g \in Giver, AnswerGrant(g) PROVE GiversVoiced'
    BY <1>19 DEF AnswerGrant
  <1>20. ASSUME NEW r \in Remote, RemoteAnswers(r) PROVE GiversVoiced'
    BY <1>20 DEF RemoteAnswers
  <1>21. ASSUME NEW p \in Pause, PauseStarts(p) PROVE GiversVoiced'
    BY <1>21 DEF PauseStarts
  <1>22. ASSUME NEW p \in Pause, AnswerInChat(p) PROVE GiversVoiced'
    BY <1>22 DEF AnswerInChat
  <1>23. ASSUME NEW p \in Pause, AnswersArrived(p) PROVE GiversVoiced'
    BY <1>23 DEF AnswersArrived
  <1>24. ASSUME NEW p \in Pause, ListenEnds(p) PROVE GiversVoiced'
    BY <1>24 DEF ListenEnds
  <1>25. ASSUME NEW p \in Pause, PickerOpens(p) PROVE GiversVoiced'
    BY <1>25 DEF PickerOpens
  <1>26. ASSUME NEW p \in Pause, PickerUnseen(p) PROVE GiversVoiced'
    BY <1>26 DEF PickerUnseen
  <1>27. ASSUME NEW p \in Pause, Picked(p) PROVE GiversVoiced'
    BY <1>27 DEF Picked
  <1>28. ASSUME NEW p \in Pause, MarkTold(p) PROVE GiversVoiced'
    BY <1>28 DEF MarkTold
  <1>29. ASSUME NEW i \in Id, Expire(i) PROVE GiversVoiced'
    BY <1>29 DEF Expire
  <1>30. CASE UNCHANGED vars
    BY <1>30 DEF vars
  <1> QED
    BY <1>1, <1>2, <1>3, <1>4, <1>5, <1>6, <1>7, <1>8, <1>9, <1>10, <1>11, <1>12, <1>13,
       <1>14, <1>15, <1>16, <1>17, <1>18, <1>19, <1>20, <1>21, <1>22, <1>23, <1>24, <1>25,
       <1>26, <1>27, <1>28, <1>29, <1>30 DEF Next, CallStep, AnswerStep, PauseStep

(* A session's grant goes back to a person's "session". *)
LEMMA GrantsVoicedStep ==
    ASSUME Serial, TypeOK, ControlOK, SerialInv, FilledInv, VoiceInv, [Next]_vars,
           SaidStays
    PROVE  GrantsVoiced'
  <1> USE DEF TypeOK, VoiceInv, GrantsVoiced, SaidStays
  <1>1. CASE granted' = granted
    BY <1>1, ProcessAssumption
  <1>2. ASSUME NEW c \in Call, Settle(c) PROVE GrantsVoiced'
    BY <1>2, ProcessAssumption DEF Settle, CopiesVoiced, Holding, Voiced
  <1>3. ASSUME NEW g \in Giver, AnswerGrant(g) PROVE GrantsVoiced'
    BY <1>3, ProcessAssumption DEF AnswerGrant, GiversVoiced, Voiced
  <1>4. \/ granted' = granted
        \/ \E c \in Call : Settle(c)
        \/ \E g \in Giver : AnswerGrant(g)
    BY DEF Next, vars, files, hooks, history, CallStep, AnswerStep, PauseStep, Start,
       WithSessionGrant, WithChatAnswer, ClearClaim, ClearRecord, HoldInChat, Raise, Keep,
       AnswerPlaces, SpokenAnswer, WaitOver, AlsoOnRead, AlsoOnKeep, HookFileFails, AnswerRead,
       AnswerClaim, AnswerWrite, RemoteAnswers, PauseStarts, AnswerInChat, AnswersArrived,
       ListenEnds, PickerOpens, PickerUnseen, Picked, MarkTold, Expire
  <1> QED
    BY <1>1, <1>2, <1>3, <1>4

(* A hook under way is the only one: no other holds a copy or a telling. *)
LEMMA Alone ==
    ASSUME ControlOK, SerialInv, NEW c \in Hook, UnderWay(c)
    PROVE  /\ \A q \in Hook : q # c => pc[q] \in Done \cup {"idle"}
           /\ \A p \in Pause : p # c => tell[p] = {}
  <1>1. \A q \in Hook : q # c => pc[q] \in Done \cup {"idle"}
    BY DEF SerialInv, UnderWay
  <1>2. \A p \in Pause : p # c => pc[p] # "tell"
    BY <1>1 DEF Hook, Done
  <1> QED
    BY <1>1, <1>2 DEF ControlOK

(* Whose answer a call ran on is written once, when the call runs. *)
LEMMA RanStep ==
    ASSUME TypeOK, ControlOK, VoiceInv, RanInv, [Next]_vars, SaidStays
    PROVE  RanInv'
  <1> USE Processes DEF TypeOK, RanInv, SaidStays, Goto, history
  <1>1. CASE CallsStand
    BY <1>1 DEF CallsStand
  <1>2. ASSUME NEW c \in Call, Start(c) PROVE RanInv'
    BY <1>2 DEF Start
  <1>3. ASSUME NEW c \in Call, WithSessionGrant(c) PROVE RanInv'
    BY <1>3 DEF WithSessionGrant
  <1>4. ASSUME NEW c \in Call, WithChatAnswer(c) PROVE RanInv'
    BY <1>4 DEF WithChatAnswer
  <1>5. ASSUME NEW c \in Call, ClearClaim(c) PROVE RanInv'
    BY <1>5 DEF ClearClaim
  <1>6. ASSUME NEW c \in Call, ClearRecord(c) PROVE RanInv'
    BY <1>6 DEF ClearRecord
  <1>7. ASSUME NEW c \in Call, Settle(c) PROVE RanInv'
    <2>1. Voiced(at[c], copy[c]) /\ copy[c].answer # None
      BY <1>7 DEF Settle, VoiceInv, CopiesVoiced, Holding
    <2>2. copy[c].answer \in Yes => said[copy[c].by] # None /\ copy[c].by \in Giver
      BY <2>1 DEF Voiced
    <2> QED
      BY <1>7, <2>2 DEF Settle
  <1>8. ASSUME NEW c \in Call, HoldInChat(c) PROVE RanInv'
    BY <1>8 DEF HoldInChat
  <1>9. ASSUME NEW c \in Call, Raise(c) PROVE RanInv'
    BY <1>9 DEF Raise
  <1>10. ASSUME NEW c \in Call, Keep(c) PROVE RanInv'
    BY <1>10 DEF Keep
  <1>11. ASSUME NEW c \in Call, AnswerPlaces(c) PROVE RanInv'
    BY <1>11 DEF AnswerPlaces
  <1>12. ASSUME NEW c \in Call, SpokenAnswer(c) PROVE RanInv'
    BY <1>12 DEF SpokenAnswer
  <1>13. ASSUME NEW c \in Call, WaitOver(c) PROVE RanInv'
    BY <1>13 DEF WaitOver
  <1>14. ASSUME NEW c \in Call, AlsoOnRead(c) PROVE RanInv'
    BY <1>14 DEF AlsoOnRead
  <1>15. ASSUME NEW c \in Call, AlsoOnKeep(c) PROVE RanInv'
    BY <1>15 DEF AlsoOnKeep
  <1>16. ASSUME NEW c \in Call, HookFileFails(c) PROVE RanInv'
    BY <1>16 DEF HookFileFails
  <1> QED
    BY <1>1, <1>2, <1>3, <1>4, <1>5, <1>6, <1>7, <1>8, <1>9, <1>10, <1>11, <1>12, <1>13,
       <1>14, <1>15, <1>16, Frames DEF CallStep

(* An answer that is gone from every place stays gone: nobody says it again, *)
(* and every hook writes what it holds.                                      *)
LEMMA GoneStays ==
    ASSUME Serial, TypeOK, ControlOK, VoiceInv, [Next]_vars, NEW g \in Giver, said[g] #
           None, Gone(g)
    PROVE  Gone(g)'
  <1> USE Processes DEF TypeOK, Gone
  <1>1. \A h \in Giver : AnswerWrite(h) => h # g
    BY DEF AnswerWrite, VoiceInv, GiversVoiced
  <1>2. \A i \in Id : record'[i] # None => record'[i].by # g
    <2>1. CASE record' = record
      BY <2>1
    <2>2. ASSUME NEW c \in Call, ClearRecord(c)
          PROVE  \A i \in Id : record'[i] # None => record'[i].by # g
      BY <2>2 DEF ClearRecord
    <2>3. ASSUME NEW c \in Call, Raise(c)
          PROVE  \A i \in Id : record'[i] # None => record'[i].by # g
      BY <2>3, RaiseWrites
    <2>4. ASSUME NEW c \in Call, Keep(c)
          PROVE  \A i \in Id : record'[i] # None => record'[i].by # g
      BY <2>4, KeepWrites DEF Keep, Holding
    <2>5. ASSUME NEW c \in Call, AlsoOnKeep(c)
          PROVE  \A i \in Id : record'[i] # None => record'[i].by # g
      BY <2>5, AlsoOnKeepWrites DEF AlsoOnKeep, Holding
    <2>6. ASSUME NEW h \in Giver, AnswerWrite(h)
          PROVE  \A i \in Id : record'[i] # None => record'[i].by # g
      BY <1>1, <2>6, AnswerWriteWrites
    <2>7. ASSUME NEW p \in Pause, MarkTold(p)
          PROVE  \A i \in Id : record'[i] # None => record'[i].by # g
      <3>1. PICK t \in tell[p], q \in Pending : Marks(p, t, q)
        BY <2>7, MarkToldWrites
      <3> QED
        BY <3>1 DEF Marks
    <2> QED
      BY <2>1, <2>2, <2>3, <2>4, <2>5, <2>6, <2>7, Frames DEF RecordWritten
  <1>3. \A c \in Call : pc'[c] \in Holding => copy'[c].by # g
    <2> USE DEF Holding, Goto
    <2>1. CASE CallsStand
      BY <2>1 DEF CallsStand
    <2>2. ASSUME NEW c \in Call, Start(c)
          PROVE  \A d \in Call : pc'[d] \in Holding => copy'[d].by # g
      BY <2>2 DEF Start
    <2>3. ASSUME NEW c \in Call, WithSessionGrant(c)
          PROVE  \A d \in Call : pc'[d] \in Holding => copy'[d].by # g
      BY <2>3 DEF WithSessionGrant
    <2>4. ASSUME NEW c \in Call, WithChatAnswer(c)
          PROVE  \A d \in Call : pc'[d] \in Holding => copy'[d].by # g
      BY <2>4 DEF WithChatAnswer, OpenQuestion, Listed
    <2>5. ASSUME NEW c \in Call, ClearClaim(c)
          PROVE  \A d \in Call : pc'[d] \in Holding => copy'[d].by # g
      BY <2>5 DEF ClearClaim
    <2>6. ASSUME NEW c \in Call, ClearRecord(c)
          PROVE  \A d \in Call : pc'[d] \in Holding => copy'[d].by # g
      BY <2>6 DEF ClearRecord
    <2>7. ASSUME NEW c \in Call, Settle(c)
          PROVE  \A d \in Call : pc'[d] \in Holding => copy'[d].by # g
      BY <2>7 DEF Settle, Returns
    <2>8. ASSUME NEW c \in Call, HoldInChat(c)
          PROVE  \A d \in Call : pc'[d] \in Holding => copy'[d].by # g
      BY <2>8 DEF HoldInChat, OpenQuestion, Listed
    <2>9. ASSUME NEW c \in Call, Raise(c)
          PROVE  \A d \in Call : pc'[d] \in Holding => copy'[d].by # g
      BY <2>9, RaiseWrites DEF Raise
    <2>10. ASSUME NEW c \in Call, Keep(c)
           PROVE  \A d \in Call : pc'[d] \in Holding => copy'[d].by # g
      BY <2>10, KeepWrites DEF Keep
    <2>11. ASSUME NEW c \in Call, AnswerPlaces(c)
           PROVE  \A d \in Call : pc'[d] \in Holding => copy'[d].by # g
      BY <2>11 DEF AnswerPlaces, Returns
    <2>12. ASSUME NEW c \in Call, SpokenAnswer(c)
           PROVE  \A d \in Call : pc'[d] \in Holding => copy'[d].by # g
      BY <2>12 DEF SpokenAnswer
    <2>13. ASSUME NEW c \in Call, WaitOver(c)
           PROVE  \A d \in Call : pc'[d] \in Holding => copy'[d].by # g
      BY <2>13 DEF WaitOver
    <2>14. ASSUME NEW c \in Call, AlsoOnRead(c)
           PROVE  \A d \in Call : pc'[d] \in Holding => copy'[d].by # g
      BY <2>14 DEF AlsoOnRead, ControlOK
    <2>15. ASSUME NEW c \in Call, AlsoOnKeep(c)
           PROVE  \A d \in Call : pc'[d] \in Holding => copy'[d].by # g
      BY <2>15 DEF AlsoOnKeep, Returns
    <2>16. ASSUME NEW c \in Call, HookFileFails(c)
           PROVE  \A d \in Call : pc'[d] \in Holding => copy'[d].by # g
      BY <2>16 DEF HookFileFails, Returns
    <2> QED
      BY <2>1, <2>2, <2>3, <2>4, <2>5, <2>6, <2>7, <2>8, <2>9, <2>10, <2>11, <2>12, <2>13,
         <2>14, <2>15, <2>16, Frames DEF CallStep
  <1>4. \A p \in Pause : \A t \in tell'[p] : t[2].by # g
    <2>1. CASE tell' = tell
      BY <2>1
    <2>2. ASSUME NEW h \in Giver, AnswerGrant(h)
          PROVE  \A p \in Pause : \A t \in tell'[p] : t[2].by # g
      <3>1. copy[h].by = h
        BY <2>2 DEF AnswerGrant, VoiceInv, GiversVoiced
      <3>2. h \in Pause => h # g
        BY <2>2 DEF AnswerGrant
      <3>3. \A p \in Pause : \A t \in tell'[p] :
                t \in tell[p] \/ (t = <<at[h], copy[h]>> /\ h \in Pause)
        BY <2>2 DEF AnswerGrant
      <3> QED
        BY <3>1, <3>2, <3>3
    <2>3. ASSUME NEW p \in Pause, AnswersArrived(p)
          PROVE  \A q \in Pause : \A t \in tell'[q] : t[2].by # g
      BY <2>3 DEF AnswersArrived, AnsweredUntold, Listed
    <2>4. ASSUME NEW p \in Pause, PickerOpens(p)
          PROVE  \A q \in Pause : \A t \in tell'[q] : t[2].by # g
      BY <2>4 DEF PickerOpens
    <2>5. ASSUME NEW p \in Pause, Picked(p)
          PROVE  \A q \in Pause : \A t \in tell'[q] : t[2].by # g
      BY <2>5 DEF Picked, ControlOK
    <2>6. ASSUME NEW p \in Pause, MarkTold(p)
          PROVE  \A q \in Pause : \A t \in tell'[q] : t[2].by # g
      <3>1. PICK t \in tell[p], q \in Pending : Marks(p, t, q)
        BY <2>6, MarkToldWrites
      <3> QED
        BY <3>1 DEF Marks
    <2> QED
      BY <2>1, <2>2, <2>3, <2>4, <2>5, <2>6, Frames DEF TellWritten
  <1>5. g \in Pause => pc'[g] # "grant"
    <2> USE DEF Goto, files, hooks, history
    <2>1. ASSUME NEW c \in Call, Start(c) PROVE g \in Pause => pc'[g] # "grant"
      BY <2>1 DEF Start
    <2>2. ASSUME NEW c \in Call, WithSessionGrant(c) PROVE g \in Pause => pc'[g] # "grant"
      BY <2>2 DEF WithSessionGrant
    <2>3. ASSUME NEW c \in Call, WithChatAnswer(c) PROVE g \in Pause => pc'[g] # "grant"
      BY <2>3 DEF WithChatAnswer
    <2>4. ASSUME NEW c \in Call, ClearClaim(c) PROVE g \in Pause => pc'[g] # "grant"
      BY <2>4 DEF ClearClaim
    <2>5. ASSUME NEW c \in Call, ClearRecord(c) PROVE g \in Pause => pc'[g] # "grant"
      BY <2>5 DEF ClearRecord
    <2>6. ASSUME NEW c \in Call, Settle(c) PROVE g \in Pause => pc'[g] # "grant"
      BY <2>6 DEF Settle
    <2>7. ASSUME NEW c \in Call, HoldInChat(c) PROVE g \in Pause => pc'[g] # "grant"
      BY <2>7 DEF HoldInChat
    <2>8. ASSUME NEW c \in Call, Raise(c) PROVE g \in Pause => pc'[g] # "grant"
      BY <2>8 DEF Raise
    <2>9. ASSUME NEW c \in Call, Keep(c) PROVE g \in Pause => pc'[g] # "grant"
      BY <2>9 DEF Keep
    <2>10. ASSUME NEW c \in Call, AnswerPlaces(c) PROVE g \in Pause => pc'[g] # "grant"
      BY <2>10 DEF AnswerPlaces
    <2>11. ASSUME NEW c \in Call, SpokenAnswer(c) PROVE g \in Pause => pc'[g] # "grant"
      BY <2>11 DEF SpokenAnswer
    <2>12. ASSUME NEW c \in Call, WaitOver(c) PROVE g \in Pause => pc'[g] # "grant"
      BY <2>12 DEF WaitOver
    <2>13. ASSUME NEW c \in Call, AlsoOnRead(c) PROVE g \in Pause => pc'[g] # "grant"
      BY <2>13 DEF AlsoOnRead
    <2>14. ASSUME NEW c \in Call, AlsoOnKeep(c) PROVE g \in Pause => pc'[g] # "grant"
      BY <2>14 DEF AlsoOnKeep
    <2>15. ASSUME NEW c \in Call, HookFileFails(c) PROVE g \in Pause => pc'[g] # "grant"
      BY <2>15 DEF HookFileFails
    <2>16. ASSUME NEW h \in Giver, AnswerRead(h) PROVE g \in Pause => pc'[g] # "grant"
      BY <2>16 DEF AnswerRead
    <2>17. ASSUME NEW h \in Giver, AnswerClaim(h) PROVE g \in Pause => pc'[g] # "grant"
      BY <2>17 DEF AnswerClaim
    <2>18. ASSUME NEW h \in Giver, AnswerWrite(h) PROVE g \in Pause => pc'[g] # "grant"
      BY <2>18, <1>1 DEF AnswerWrite
    <2>19. ASSUME NEW h \in Giver, AnswerGrant(h) PROVE g \in Pause => pc'[g] # "grant"
      BY <2>19 DEF AnswerGrant
    <2>20. ASSUME NEW r \in Remote, RemoteAnswers(r) PROVE g \in Pause => pc'[g] # "grant"
      BY <2>20 DEF RemoteAnswers
    <2>21. ASSUME NEW p \in Pause, PauseStarts(p) PROVE g \in Pause => pc'[g] # "grant"
      BY <2>21 DEF PauseStarts
    <2>22. ASSUME NEW p \in Pause, AnswerInChat(p) PROVE g \in Pause => pc'[g] # "grant"
      BY <2>22 DEF AnswerInChat
    <2>23. ASSUME NEW p \in Pause, AnswersArrived(p) PROVE g \in Pause => pc'[g] # "grant"
      BY <2>23 DEF AnswersArrived
    <2>24. ASSUME NEW p \in Pause, ListenEnds(p) PROVE g \in Pause => pc'[g] # "grant"
      BY <2>24 DEF ListenEnds
    <2>25. ASSUME NEW p \in Pause, PickerOpens(p) PROVE g \in Pause => pc'[g] # "grant"
      BY <2>25 DEF PickerOpens
    <2>26. ASSUME NEW p \in Pause, PickerUnseen(p) PROVE g \in Pause => pc'[g] # "grant"
      BY <2>26 DEF PickerUnseen
    <2>27. ASSUME NEW p \in Pause, Picked(p) PROVE g \in Pause => pc'[g] # "grant"
      BY <2>27 DEF Picked
    <2>28. ASSUME NEW p \in Pause, MarkTold(p) PROVE g \in Pause => pc'[g] # "grant"
      BY <2>28 DEF MarkTold
    <2>29. ASSUME NEW i \in Id, Expire(i) PROVE g \in Pause => pc'[g] # "grant"
      BY <2>29 DEF Expire
    <2>30. CASE UNCHANGED vars
      BY <2>30 DEF vars
    <2> QED
      BY <2>1, <2>2, <2>3, <2>4, <2>5, <2>6, <2>7, <2>8, <2>9, <2>10, <2>11, <2>12, <2>13,
         <2>14, <2>15, <2>16, <2>17, <2>18, <2>19, <2>20, <2>21, <2>22, <2>23, <2>24,
         <2>25, <2>26, <2>27, <2>28, <2>29, <2>30 DEF Next, CallStep, AnswerStep,
         PauseStep
  <1> QED
    BY <1>2, <1>3, <1>4, <1>5

(* The retry that acts on an answer takes every trace of it away first, and  *)
(* nothing brings it back, while no file operation fails.                    *)
LEMMA GoneStep ==
    ASSUME Serial, TypeOK, ControlOK, SerialInv, VoiceInv, RanInv, GoneInv, [Next]_vars,
           SaidStays
    PROVE  GoneInv'
  <1> SUFFICES ASSUME faults' = 0
               PROVE  /\ \A d \in Call : ranOn'[d] # None => Gone(ranOn[d])'
                      /\ \A c \in Call : pc'[c] = "settle" => Cleared(c)'
    BY DEF GoneInv
  <1>0. faults = 0 /\ \A c \in Call : ~HookFileFails(c)
    <2>1. faults' = faults \/ \E c \in Call : HookFileFails(c)
      BY DEF Next, vars, files, hooks, history, CallStep, AnswerStep, PauseStep, Start,
         WithSessionGrant, WithChatAnswer, ClearClaim, ClearRecord, Settle, HoldInChat, Raise,
         Keep, AnswerPlaces, SpokenAnswer, WaitOver, AlsoOnRead, AlsoOnKeep, AnswerRead,
         AnswerClaim, AnswerWrite, AnswerGrant, RemoteAnswers, PauseStarts, AnswerInChat,
         AnswersArrived, ListenEnds, PickerOpens, PickerUnseen, Picked, MarkTold, Expire
    <2>2. \A c \in Call : HookFileFails(c) => faults' # 0
      BY BoundAssumption DEF HookFileFails, TypeOK
    <2> QED
      BY <2>1, <2>2
  <1>1. /\ \A d \in Call : ranOn[d] # None => Gone(ranOn[d])
        /\ \A c \in Call : pc[c] = "settle" => Cleared(c)
    BY <1>0 DEF GoneInv
  <1>2. ASSUME NEW d \in Call, ranOn'[d] # None PROVE Gone(ranOn[d])'
    <2>1. CASE ranOn'[d] = ranOn[d]
      <3>1. ranOn[d] \in Giver /\ said[ranOn[d]] # None /\ Gone(ranOn[d])
        BY <1>1, <1>2, <2>1 DEF RanInv, TypeOK
      <3>2. PICK g \in Giver : g = ranOn[d]
        BY <3>1
      <3>3. Gone(g)'
        BY <3>1, <3>2, GoneStays
      <3> QED
        BY <2>1, <3>2, <3>3 DEF Gone
    <2>2. CASE Settle(d) /\ ranOn'[d] = copy[d].by
      <3> DEFINE g == copy[d].by
      <3>1. UnderWay(d) /\ d \in Hook /\ pc[d] = "settle"
        BY <2>2 DEF Settle, UnderWay, Done, Hook
      <3>2. \A i \in Id : record[i] # None => record[i].by # g
        BY <1>1, <3>1 DEF Cleared
      <3>3. \A c \in Call : pc'[c] \notin Holding
        <4>1. \A c \in Call : c # d => pc[c] \in Done \cup {"idle"}
          BY <3>1, Alone DEF Hook
        <4>2. pc'[d] \notin Holding /\ \A c \in Call : c # d => pc'[c] = pc[c]
          BY <2>2, Processes DEF Settle, Goto, TypeOK, Holding
        <4> QED
          BY <4>1, <4>2 DEF Done, Holding
      <3>4. \A p \in Pause : tell'[p] = {}
        <4>1. \A p \in Pause : p # d
          BY Processes
        <4> QED
          BY <2>2, <3>1, <4>1, Alone DEF Settle
      <3>5. g \in Pause => pc'[g] # "grant"
        <4>1. g \in Pause => g # d /\ pc[g] \in Done \cup {"idle"}
          BY <3>1, Alone, Processes DEF Hook
        <4>2. g \in Pause => pc'[g] = pc[g]
          BY <2>2, <4>1, Processes DEF Settle, Goto, TypeOK
        <4> QED
          BY <4>1, <4>2 DEF Done
      <3>6. record' = record
        BY <2>2 DEF Settle
      <3> QED
        BY <2>2, <3>2, <3>3, <3>4, <3>5, <3>6 DEF Gone
    <2>3. ranOn' = ranOn \/ \E c \in Call : Settle(c)
      BY DEF Next, vars, files, hooks, history, CallStep, AnswerStep, PauseStep, Start,
         WithSessionGrant, WithChatAnswer, ClearClaim, ClearRecord, HoldInChat, Raise,
         Keep, AnswerPlaces, SpokenAnswer, WaitOver, AlsoOnRead, AlsoOnKeep, HookFileFails,
         AnswerRead, AnswerClaim, AnswerWrite, AnswerGrant, RemoteAnswers, PauseStarts,
         AnswerInChat, AnswersArrived, ListenEnds, PickerOpens, PickerUnseen, Picked, MarkTold,
         Expire
    <2>4. \A c \in Call : Settle(c) =>
              ranOn'[d] = ranOn[d] \/ (c = d /\ ranOn'[d] = copy[d].by)
      BY <1>2 DEF Settle, TypeOK
    <2> QED
      BY <2>1, <2>2, <2>3, <2>4
  <1>3. ASSUME NEW c \in Call, pc'[c] = "settle" PROVE Cleared(c)'
    <2>1. CASE pc[c] = "settle" /\ CallsStand
      <3>1. Cleared(c) /\ copy'[c] = copy[c]
        BY <1>1, <2>1 DEF CallsStand
      <3>2. \A p \in Pause : ~MarkTold(p)
        <4>1. c \in Hook /\ UnderWay(c) /\ \A p \in Pause : p # c
          BY <2>1, Processes DEF Hook, UnderWay, Done
        <4> QED
          BY <4>1, Alone DEF Hook, MarkTold, Done
      <3>3. \A d \in Call : ~(ClearRecord(d) \/ Raise(d) \/ Keep(d) \/ AlsoOnKeep(d))
        BY <2>1, Processes DEF CallsStand, TypeOK, ClearRecord, Raise, Keep, AlsoOnKeep,
           Goto
      <3>4. CASE record' = record
        BY <3>1, <3>4 DEF Cleared
      <3>5. ASSUME NEW g \in Giver, AnswerWrite(g) PROVE Cleared(c)'
        <4>1. said[g] = None
          BY <3>5 DEF AnswerWrite, VoiceInv, GiversVoiced
        <4>2. Voiced(at[c], copy[c]) /\ copy[c].answer # None
          BY <2>1 DEF VoiceInv, CopiesVoiced, Holding
        <4>3. copy[c].by # g
          BY <4>1, <4>2, Processes DEF Voiced
        <4> QED
          BY <3>1, <3>5, <4>3, AnswerWriteWrites DEF Cleared, TypeOK
      <3> QED
        BY <3>2, <3>3, <3>4, <3>5, Frames DEF RecordWritten
    <2>2. ASSUME ClearRecord(c) PROVE Cleared(c)'
      <3>1. Voiced(at[c], copy[c]) /\ copy[c].answer # None
        BY <2>2 DEF ClearRecord, VoiceInv, CopiesVoiced, Holding
      <3>2. \A i \in Id : record[i] # None /\ record[i].by = copy[c].by => i = at[c]
        BY <3>1, Processes DEF VoiceInv, RecordsVoiced, Voiced
      <3> QED
        BY <2>2, <3>2 DEF ClearRecord, Cleared, TypeOK
    <2>3. ASSUME NEW d \in Call, Start(d) \/ CallStep(d), ~ClearRecord(c) PROVE FALSE
      <3>1. pc[c] = "settle" \/ ClearRecord(c)
        BY <1>3, <2>3, Processes DEF TypeOK, CallStep, Goto, Start, WithSessionGrant,
           WithChatAnswer, ClearClaim,
           ClearRecord, Settle, HoldInChat, Raise, Keep, AnswerPlaces, SpokenAnswer, WaitOver,
           AlsoOnRead, AlsoOnKeep
      <3>2. d # c
        BY <1>3, <2>3, <3>1, Processes DEF TypeOK, CallStep, Goto, Start,
           WithSessionGrant, WithChatAnswer, ClearClaim,
           ClearRecord, Settle, HoldInChat, Raise, Keep, AnswerPlaces, SpokenAnswer, WaitOver,
           AlsoOnRead, AlsoOnKeep
      <3>3. UnderWay(c) /\ c \in Hook
        BY <2>3, <3>1 DEF UnderWay, Done, Hook
      <3>4. ~Start(d)
        BY <3>3 DEF Start, MayStart, Hook
      <3>5. pc[d] \in Done \cup {"idle"}
        BY <3>2, <3>3, Alone DEF Hook
      <3> QED
        BY <2>3, <3>4, <3>5 DEF Done, CallStep, WithSessionGrant, WithChatAnswer,
           ClearClaim,
           ClearRecord, Settle, HoldInChat, Raise, Keep, AnswerPlaces, SpokenAnswer, WaitOver,
           AlsoOnRead, AlsoOnKeep
    <2>4. CASE CallsStand
      BY <1>3, <2>1, <2>4 DEF CallsStand
    <2> QED
      BY <1>0, <2>2, <2>3, <2>4, Frames
  <1> QED
    BY <1>2, <1>3

(* A question becomes open where a hook raises it, or writes back a copy it  *)
(* holds unanswered, and nowhere else.                                       *)
LEMMA OpenGrows ==
    ASSUME Serial, TypeOK, ControlOK, VoiceInv, [Next]_vars
    PROVE  /\ expired \subseteq expired'
           /\ \/ OpenInSession' \subseteq OpenInSession
              \/ \E c \in Call : Raise(c) /\ OpenInSession' \subseteq OpenInSession \cup {ms'}
              \/ \E c \in Call :
                    /\ Keep(c) \/ AlsoOnKeep(c)
                    /\ copy[c].answer = None
                    /\ OpenInSession' \subseteq OpenInSession \cup ({at[c]} \ expired)
  <1> USE DEF TypeOK
  <1>0. expired' = expired \/ \E i \in Id : Expire(i)
    BY DEF Next, vars, files, hooks, history, CallStep, AnswerStep, PauseStep, Start,
       WithSessionGrant, WithChatAnswer, ClearClaim, ClearRecord, Settle, HoldInChat, Raise,
       Keep, AnswerPlaces, SpokenAnswer, WaitOver, AlsoOnRead, AlsoOnKeep, HookFileFails,
       AnswerRead, AnswerClaim, AnswerWrite, AnswerGrant, RemoteAnswers, PauseStarts,
       AnswerInChat, AnswersArrived, ListenEnds, PickerOpens, PickerUnseen, Picked, MarkTold
  <1>1. expired \subseteq expired'
    BY <1>0 DEF Expire
  <1> USE <1>1 DEF OpenInSession, Listed
  <1>2. CASE record' = record
    BY <1>2
  <1>3. ASSUME NEW c \in Call, ClearRecord(c) PROVE OpenInSession' \subseteq OpenInSession
    BY <1>3 DEF ClearRecord
  <1>4. ASSUME NEW c \in Call, Raise(c)
        PROVE  OpenInSession' \subseteq OpenInSession \cup {ms'}
    BY <1>4, RaiseWrites
  <1>5. ASSUME NEW c \in Call, Keep(c)
        PROVE  /\ copy[c].answer = None
               /\ OpenInSession' \subseteq OpenInSession \cup ({at[c]} \ expired)
    BY <1>5, KeepWrites DEF Keep, VoiceInv, CopiesVoiced
  <1>6. ASSUME NEW c \in Call, AlsoOnKeep(c)
        PROVE  IF copy[c].answer = None
               THEN OpenInSession' \subseteq OpenInSession \cup ({at[c]} \ expired)
               ELSE OpenInSession' \subseteq OpenInSession
    BY <1>6, AlsoOnKeepWrites
  <1>7. ASSUME NEW g \in Giver, AnswerWrite(g)
        PROVE  OpenInSession' \subseteq OpenInSession
    BY <1>7, AnswerWriteWrites, Processes
  <1>8. ASSUME NEW p \in Pause, MarkTold(p) PROVE OpenInSession' \subseteq OpenInSession
    <2>1. PICK t \in tell[p], q \in Pending : Marks(p, t, q)
      BY <1>8, MarkToldWrites
    <2> QED
      BY <2>1 DEF Marks, VoiceInv, TellsVoiced
  <1> HIDE DEF OpenInSession
  <1> QED
    BY <1>2, <1>3, <1>4, <1>5, <1>6, <1>7, <1>8, Frames DEF RecordWritten

(* A hook raises a question where none is open, and writes back an           *)
(* unanswered one where no other is.                                         *)
LEMMA QuestionStep ==
    ASSUME Serial, TypeOK, ControlOK, SerialInv, VoiceInv, QuestionInv, [Next]_vars
    PROVE  QuestionInv'
  <1> DEFINE Asking == {"keep", "places", "wait", "reask", "also_read", "also_keep"}
  <1>1. CASE CallsStand
    <2>1. \A c \in Call : ~(Raise(c) \/ Keep(c) \/ AlsoOnKeep(c))
      BY <1>1, Processes DEF CallsStand, TypeOK, Raise, Keep, AlsoOnKeep, Goto
    <2>2. OpenInSession' \subseteq OpenInSession /\ expired \subseteq expired'
      BY <2>1, OpenGrows
    <2> QED
      BY <1>1, <2>2 DEF CallsStand, QuestionInv
  <1>2. ASSUME NEW c \in Call, Start(c) \/ CallStep(c) \/ HookFileFails(c)
        PROVE  QuestionInv'
    <2> USE Processes DEF TypeOK, Goto
    <2>1. \A d \in Call : d # c => pc'[d] = pc[d] /\ pc[d] \in Done \cup {"idle"}
      <3>1. \A d \in Call : d # c => pc'[d] = pc[d]
        BY <1>2 DEF CallStep, Start, WithSessionGrant, WithChatAnswer, ClearClaim,
           ClearRecord, Settle, HoldInChat, Raise, Keep, AnswerPlaces, SpokenAnswer, WaitOver,
           AlsoOnRead, AlsoOnKeep, HookFileFails
      <3>2. CASE Start(c)
        BY <3>1, <3>2 DEF Start, MayStart, UnderWay
      <3>3. CASE CallStep(c) \/ HookFileFails(c)
        <4>1. UnderWay(c)
          BY <3>3 DEF UnderWay, Done, CallStep, WithSessionGrant, WithChatAnswer,
             ClearClaim,
           ClearRecord, Settle, HoldInChat, Raise, Keep, AnswerPlaces, SpokenAnswer, WaitOver,
           AlsoOnRead, AlsoOnKeep, HookFileFails
        <4> QED
          BY <3>1, <4>1, Alone DEF Hook
      <3> QED
        BY <1>2, <3>2, <3>3
    <2>2. \A d \in Call : d # c => pc'[d] \notin Asking \cup {"raise"}
      BY <2>1 DEF Done
    <2>3. \A i, j \in OpenInSession : i = j
      BY DEF QuestionInv
    <2>4. SUFFICES /\ pc'[c] = "raise" => OpenInSession' = {}
                   /\ pc'[c] \in Asking /\ copy'[c].answer = None /\ at'[c] \notin expired'
                         => \A j \in OpenInSession' : j = at'[c]
                   /\ \A i, j \in OpenInSession' : i = j
      BY <2>2 DEF QuestionInv
    <2>5. CASE Raise(c)
      <3>1. OpenInSession = {} /\ at'[c] = ms' /\ pc'[c] = "keep"
        BY <2>5, RaiseWrites DEF Raise, QuestionInv
      <3>2. OpenInSession' \subseteq {ms'}
        <4>1. \A d \in Call : ~(Keep(d) \/ AlsoOnKeep(d)) /\ (Raise(d) => d = c)
          BY <2>5 DEF Raise, Keep, AlsoOnKeep
        <4> QED
          BY <3>1, <4>1, OpenGrows
      <3> QED
        BY <3>1, <3>2
    <2>6. CASE Keep(c) \/ AlsoOnKeep(c)
      <3>1. pc[c] \in Asking /\ at[c] \in Id
        BY <2>6, KeepWrites, AlsoOnKeepWrites DEF Keep, AlsoOnKeep
      <3>2. pc'[c] # "raise" /\ (pc'[c] \in Asking => at'[c] = at[c] /\ Keep(c))
        BY <2>6 DEF Keep, AlsoOnKeep
      <3>3. \/ OpenInSession' \subseteq OpenInSession
            \/ copy[c].answer = None /\ OpenInSession' \subseteq OpenInSession \cup ({at[c]} \ expired)
        <4>1. \A d \in Call : ~Raise(d) /\ (Keep(d) \/ AlsoOnKeep(d) => d = c)
          BY <2>6 DEF Raise, Keep, AlsoOnKeep
        <4> QED
          BY <4>1, OpenGrows
      <3>4. copy[c].answer = None /\ at[c] \notin expired => \A j \in OpenInSession : j = at[c]
        BY <3>1 DEF QuestionInv
      <3>5. \A i, j \in OpenInSession' : i = j
        BY <2>3, <3>3, <3>4
      <3>6. Keep(c) => copy[c].answer = None
        BY DEF Keep, VoiceInv, CopiesVoiced
      <3>7. at[c] \notin expired' => at[c] \notin expired
        BY OpenGrows
      <3> QED
        BY <3>2, <3>3, <3>4, <3>5, <3>6, <3>7
    <2>7. CASE ~Raise(c) /\ ~Keep(c) /\ ~AlsoOnKeep(c)
      <3>1. OpenInSession' \subseteq OpenInSession /\ expired \subseteq expired'
        <4>1. \A d \in Call : d # c => ~(Raise(d) \/ Keep(d) \/ AlsoOnKeep(d))
          BY <2>1 DEF Raise, Keep, AlsoOnKeep, Done
        <4> QED
          BY <2>7, <4>1, OpenGrows
      <3>2. pc'[c] = "raise" => OpenInSession = {}
        BY <1>2, <2>7 DEF CallStep, Start, WithSessionGrant, WithChatAnswer, ClearClaim,
           ClearRecord, Settle, HoldInChat, AnswerPlaces, SpokenAnswer, WaitOver,
           AlsoOnRead, HookFileFails, OpenInSession
      <3>3. pc'[c] \in Asking /\ copy'[c].answer = None /\ at'[c] \notin expired'
               => \A j \in OpenInSession : j = at'[c]
        <4>1. CASE pc[c] \in Asking /\ at'[c] = at[c] /\ copy'[c] = copy[c]
          BY <3>1, <4>1 DEF QuestionInv
        <4>2. CASE HoldInChat(c)
          <5>1. pc'[c] = "places" =>
                   at'[c] \in Listed /\ copy'[c] = record[at'[c]] /\ at'[c] \in Id
            BY <4>2 DEF HoldInChat, OpenQuestion, Listed
          <5>2. pc'[c] \in {"places", "raise"}
            BY <4>2 DEF HoldInChat
          <5> QED
            BY <2>3, <5>1, <5>2 DEF OpenInSession
        <4>3. CASE AlsoOnRead(c)
          <5>1. at[c] \in Id /\ at' = at /\ pc[c] = "also_read" /\ expired' = expired
            BY <4>3 DEF AlsoOnRead, ControlOK, Holding
          <5>2. CASE record[at[c]] = None
            <6>1. copy'[c] = copy[c]
              BY <4>3, <5>2 DEF AlsoOnRead
            <6> QED
              BY <5>1, <6>1 DEF QuestionInv
          <5>3. CASE record[at[c]] # None
            <6>1. copy'[c] = record[at[c]]
              BY <4>3, <5>3 DEF AlsoOnRead
            <6>2. copy'[c].answer = None /\ at'[c] \notin expired' => at[c] \in OpenInSession
              BY <5>1, <5>3, <6>1 DEF OpenInSession, Listed
            <6> QED
              BY <2>3, <5>1, <6>2
          <5> QED
            BY <5>2, <5>3
        <4>4. CASE ~HoldInChat(c) /\ ~AlsoOnRead(c)
          <5>1. pc'[c] \in Asking => pc[c] \in Asking /\ at'[c] = at[c] /\ copy'[c] = copy[c]
            BY <1>2, <2>7, <4>4 DEF CallStep, Start, WithSessionGrant, WithChatAnswer,
               ClearClaim,
               ClearRecord, Settle, AnswerPlaces, SpokenAnswer, WaitOver, HookFileFails, Returns
          <5> QED
            BY <4>1, <5>1
        <4> QED
          BY <4>2, <4>3, <4>4
      <3> QED
        BY <2>3, <3>1, <3>2, <3>3
    <2> QED
      BY <2>5, <2>6, <2>7
  <1> QED
    BY <1>1, <1>2, Frames

(* Telling marks the record before any hook reads it again, and no two        *)
(* answers a pause tells are of one giver.                                    *)
LEMMA MarkToldKeepsTold ==
    ASSUME TypeOK, ControlOK, SerialInv, VoiceInv, ToldInv, NEW p \in Pause, MarkTold(p)
    PROVE  ToldInv'
  <1> USE Processes DEF TypeOK
  <1>1. PICK t \in tell[p], q \in Pending : Marks(p, t, q)
    BY MarkToldWrites
  <1>2. Voiced(t[1], t[2]) /\ t[2].answer # None
    BY <1>1 DEF VoiceInv, TellsVoiced
  <1>3. PICK g \in Giver : g = t[2].by /\ said[g] # None /\ at[g] = t[1]
    BY <1>2 DEF Voiced
  <1>4. \A h \in Giver : h # g => heard'[h] = heard[h]
    BY <1>1, <1>3 DEF Marks
  <1>5. p \in Hook /\ UnderWay(p)
    BY DEF Hook, UnderWay, Done, MarkTold
  <1>6. /\ \A d \in Hook : d # p => pc[d] \in Done \cup {"idle"}
        /\ \A d \in Process : d # p => pc'[d] = pc[d]
        /\ pc'[p] \in {"tell", "done"}
        /\ at' = at /\ said' = said
    BY <1>5, Alone DEF MarkTold, Goto
  <1>7. HeardOnce'
    <2>1. heard[g] = 0 \/ Hears(p, t) = 0
      BY <1>1, <1>3 DEF ToldInv, TellsUntold, Hears
    <2>2. heard'[g] = heard[g] + Hears(p, t)
      BY <1>1, <1>3 DEF Marks
    <2>3. Hears(p, t) \in {0, 1}
      BY DEF Hears
    <2> QED
      BY <1>3, <1>4, <1>6, <2>1, <2>2, <2>3 DEF ToldInv, HeardOnce
  <1>8. RecordsTold'
    <2>1. record' = [record EXCEPT ![t[1]] = q] /\ q.told = TRUE /\ t[1] \in Id
      BY <1>1 DEF Marks
    <2>2. ASSUME NEW i \in Id, i # t[1], record[i] # None, record[i].by # None
          PROVE  record[i].by \in Giver /\ record[i].by # g
      BY <1>3, <2>2 DEF VoiceInv, RecordsVoiced, Voiced
    <2> QED
      BY <1>4, <2>1, <2>2 DEF ToldInv, RecordsTold
  <1>9. CopiesTold'
    BY <1>6 DEF CopiesTold, Hook, Holding, Done
  <1>10. GrantsUntold'
    BY <1>6 DEF GrantsUntold, Hook, Done
  <1>11. \A r \in Pause : tell'[r] \subseteq tell[r] /\ (r # p => tell[r] = {})
         /\ t \notin tell'[p]
    BY <1>1, <1>5, Alone DEF Marks
  <1>12. TellsApart'
    BY <1>11 DEF ToldInv, TellsApart
  <1>13. TellsUntold'
    <2>1. ASSUME NEW u \in tell'[p] PROVE u[2].by \in Giver /\ u[2].by # g
      <3>1. u \in tell[p] /\ u # t
        BY <1>11
      <3>2. Voiced(u[1], u[2]) /\ u[2].answer # None
        BY <3>1 DEF VoiceInv, TellsVoiced
      <3>3. u[1] # t[1]
        BY <1>1, <3>1 DEF ToldInv, TellsApart
      <3> QED
        BY <1>3, <3>2, <3>3 DEF Voiced
    <2> QED
      BY <1>4, <1>6, <1>11, <2>1 DEF ToldInv, TellsUntold
  <1> QED
    BY <1>7, <1>8, <1>9, <1>10, <1>12, <1>13 DEF ToldInv

(* Every other step hands on what was told as it is. *)
LEMMA QuietKeepsTold ==
    ASSUME Serial, TypeOK, ControlOK, SerialInv, VoiceInv, ToldInv, [Next]_vars,
           SaidStays,
           \A p \in Pause : ~MarkTold(p)
    PROVE  ToldInv'
  <1> USE Processes DEF TypeOK
  <1>1. heard' = heard
    BY DEF Next, vars, files, hooks, history, CallStep, AnswerStep, PauseStep, Start,
       WithSessionGrant, WithChatAnswer, ClearClaim, ClearRecord, Settle, HoldInChat, Raise,
       Keep, AnswerPlaces, SpokenAnswer, WaitOver, AlsoOnRead, AlsoOnKeep, HookFileFails,
       AnswerRead, AnswerClaim, AnswerWrite, AnswerGrant, RemoteAnswers, PauseStarts,
       AnswerInChat, AnswersArrived, ListenEnds, PickerOpens, PickerUnseen, Picked, Expire
  <1>2. \A g \in Giver : AnswerWrite(g) => heard[g] = 0
    BY DEF AnswerWrite, VoiceInv, GiversVoiced, ToldInv, HeardOnce
  <1>3. HeardOnce'
    BY <1>1 DEF ToldInv, HeardOnce, SaidStays
  <1>4. RecordsTold'
    <2> USE <1>1 DEF ToldInv, RecordsTold
    <2>1. CASE record' = record
      BY <2>1
    <2>2. ASSUME NEW c \in Call, ClearRecord(c) PROVE RecordsTold'
      BY <2>2 DEF ClearRecord
    <2>3. ASSUME NEW c \in Call, Raise(c) PROVE RecordsTold'
      BY <2>3, RaiseWrites
    <2>4. ASSUME NEW c \in Call, Keep(c) PROVE RecordsTold'
      BY <2>4, KeepWrites DEF Keep, CopiesTold, Holding
    <2>5. ASSUME NEW c \in Call, AlsoOnKeep(c) PROVE RecordsTold'
      BY <2>5, AlsoOnKeepWrites DEF AlsoOnKeep, CopiesTold, Holding
    <2>6. ASSUME NEW g \in Giver, AnswerWrite(g) PROVE RecordsTold'
      BY <1>2, <2>6, AnswerWriteWrites
    <2> QED
      BY <2>1, <2>2, <2>3, <2>4, <2>5, <2>6, Frames DEF RecordWritten
  <1>5. CopiesTold'
    <2> USE <1>1 DEF ToldInv, CopiesTold, ControlOK, Holding, Goto
    <2>1. CASE CallsStand
      BY <2>1 DEF CallsStand
    <2>2. ASSUME NEW c \in Call, Start(c) PROVE CopiesTold'
      BY <2>2 DEF Start
    <2>3. ASSUME NEW c \in Call, WithSessionGrant(c) PROVE CopiesTold'
      BY <2>3 DEF WithSessionGrant
    <2>4. ASSUME NEW c \in Call, WithChatAnswer(c) PROVE CopiesTold'
      BY <2>4 DEF WithChatAnswer, OpenQuestion, Listed, RecordsTold
    <2>5. ASSUME NEW c \in Call, ClearClaim(c) PROVE CopiesTold'
      BY <2>5 DEF ClearClaim
    <2>6. ASSUME NEW c \in Call, ClearRecord(c) PROVE CopiesTold'
      BY <2>6 DEF ClearRecord
    <2>7. ASSUME NEW c \in Call, Settle(c) PROVE CopiesTold'
      BY <2>7 DEF Settle, Returns
    <2>8. ASSUME NEW c \in Call, HoldInChat(c) PROVE CopiesTold'
      BY <2>8 DEF HoldInChat, OpenQuestion, Listed, RecordsTold
    <2>9. ASSUME NEW c \in Call, Raise(c) PROVE CopiesTold'
      BY <2>9, RaiseWrites DEF Raise
    <2>10. ASSUME NEW c \in Call, Keep(c) PROVE CopiesTold'
      BY <2>10, KeepWrites DEF Keep
    <2>11. ASSUME NEW c \in Call, AnswerPlaces(c) PROVE CopiesTold'
      BY <2>11 DEF AnswerPlaces, Returns
    <2>12. ASSUME NEW c \in Call, SpokenAnswer(c) PROVE CopiesTold'
      BY <2>12 DEF SpokenAnswer
    <2>13. ASSUME NEW c \in Call, WaitOver(c) PROVE CopiesTold'
      BY <2>13 DEF WaitOver
    <2>14. ASSUME NEW c \in Call, AlsoOnRead(c) PROVE CopiesTold'
      BY <2>14 DEF AlsoOnRead, RecordsTold
    <2>15. ASSUME NEW c \in Call, AlsoOnKeep(c) PROVE CopiesTold'
      BY <2>15 DEF AlsoOnKeep, Returns
    <2>16. ASSUME NEW c \in Call, HookFileFails(c) PROVE CopiesTold'
      BY <2>16 DEF HookFileFails, Returns
    <2> QED
      BY <2>1, <2>2, <2>3, <2>4, <2>5, <2>6, <2>7, <2>8, <2>9, <2>10, <2>11, <2>12, <2>13,
         <2>14, <2>15, <2>16, Frames DEF CallStep
  <1>6. GrantsUntold'
    <2>1. ASSUME NEW p \in Pause
          PROVE  pc'[p] = "grant" => pc[p] = "grant" \/ AnswerWrite(p)
      <3>1. CASE \E c \in Call : Start(c) \/ CallStep(c) \/ HookFileFails(c)
        BY <3>1 DEF Goto, CallStep, Start, WithSessionGrant, WithChatAnswer, ClearClaim,
           ClearRecord,
           Settle, HoldInChat, Raise, Keep, AnswerPlaces, SpokenAnswer, WaitOver, AlsoOnRead,
           AlsoOnKeep, HookFileFails, Returns
      <3>2. CASE \E g \in Giver : AnswerStep(g)
        <4>1. PICK g \in Giver : AnswerStep(g)
          BY <3>2
        <4>2. g # p => pc'[p] = pc[p]
          BY <4>1 DEF Goto, AnswerStep, AnswerRead, AnswerClaim, AnswerWrite, AnswerGrant
        <4>3. ~AnswerWrite(g) => pc'[g] # "grant"
          BY <4>1 DEF Goto, AnswerStep, AnswerRead, AnswerClaim, AnswerGrant
        <4> QED
          BY <4>2, <4>3
      <3>3. CASE \E r \in Remote : RemoteAnswers(r)
        BY <3>3 DEF Goto, RemoteAnswers
      <3>4. CASE \E q \in Pause : PauseStarts(q) \/ PauseStep(q)
        BY <3>4 DEF Goto, PauseStarts, PauseStep, AnswerInChat, AnswersArrived,
           ListenEnds,
           PickerOpens, PickerUnseen, Picked
      <3>5. CASE UNCHANGED hooks
        BY <3>5 DEF Goto, hooks
      <3> QED
        BY <3>1, <3>2, <3>3, <3>4, <3>5 DEF Next, vars, hooks, Expire
    <2> QED
      BY <1>1, <1>2, <2>1 DEF ToldInv, GrantsUntold
  <1>7. TellsApart' /\ TellsUntold'
    <2> USE <1>1 DEF ToldInv, TellsApart, TellsUntold
    <2>1. CASE tell' = tell
      <3>1. \A p \in Pause : tell[p] # {} => at'[p] = at[p]
        <4>1. CASE \E c \in Call : Start(c) \/ CallStep(c) \/ HookFileFails(c)
          BY <4>1 DEF Goto, ControlOK, CallStep, Start, WithSessionGrant, WithChatAnswer,
             ClearClaim, ClearRecord,
             Settle, HoldInChat, Raise, Keep, AnswerPlaces, SpokenAnswer, WaitOver, AlsoOnRead,
             AlsoOnKeep, HookFileFails, Returns
        <4>2. CASE \E g \in Giver : AnswerStep(g)
          BY <4>2 DEF Goto, ControlOK, AnswerStep, AnswerRead, AnswerClaim, AnswerWrite,
             AnswerGrant
        <4>3. CASE \E r \in Remote : RemoteAnswers(r)
          BY <4>3 DEF Goto, ControlOK, RemoteAnswers
        <4>4. CASE \E q \in Pause : PauseStarts(q) \/ PauseStep(q)
          BY <4>4 DEF Goto, ControlOK, PauseStarts, PauseStep, AnswerInChat,
             AnswersArrived, ListenEnds,
             PickerOpens, PickerUnseen, Picked
        <4>5. CASE UNCHANGED hooks
          BY <4>5 DEF Goto, ControlOK, hooks
        <4> QED
          BY <4>1, <4>2, <4>3, <4>4, <4>5 DEF Next, vars, hooks, Expire
      <3> QED
        BY <2>1, <3>1
    <2>2. ASSUME NEW g \in Giver, AnswerGrant(g) PROVE TellsApart' /\ TellsUntold'
      <3>1. copy[g].by = g /\ (g \in Pause => heard[g] = 0)
        BY <2>2 DEF AnswerGrant, VoiceInv, GiversVoiced, GrantsUntold
      <3>2. /\ at' = at
            /\ \A p \in Pause : tell'[p] = IF p = g THEN {<<at[g], copy[g]>>} ELSE tell[p]
        BY <2>2 DEF AnswerGrant
      <3> QED
        BY <3>1, <3>2
    <2>3. ASSUME NEW p \in Pause, AnswersArrived(p) PROVE TellsApart' /\ TellsUntold'
      <3>1. /\ at' = at
            /\ \A r \in Pause : r # p => tell'[r] = tell[r]
            /\ tell'[p] = {<<i, record[i]>> : i \in AnsweredUntold}
        BY <2>3 DEF AnswersArrived
      <3>2. \A i \in AnsweredUntold : heard[record[i].by] = 0
        <4>1. \A i \in AnsweredUntold : i \in Id /\ record[i] # None /\ record[i].answer # None
                                        /\ ~record[i].told
          BY DEF AnsweredUntold, Listed
        <4> QED
          BY <4>1 DEF RecordsTold, VoiceInv, RecordsVoiced, Voiced
      <3>3. \A t \in tell'[p] : \E i \in AnsweredUntold : t = <<i, record[i]>>
        BY <3>1
      <3>4. \A t \in tell'[p] : heard[t[2].by] = 0
        BY <3>2, <3>3
      <3>5. \A t, u \in tell'[p] : t[1] = u[1] => t = u
        BY <3>3
      <3> QED
        BY <3>1, <3>4, <3>5
    <2>4. ASSUME NEW p \in Pause, PickerOpens(p) \/ Picked(p)
          PROVE  TellsApart' /\ TellsUntold'
      <3>1. /\ \A r \in Pause : r # p => tell'[r] = tell[r] /\ at'[r] = at[r]
            /\ at'[p] \in Id
            /\ said[p] = None
            /\ tell[p] = {}
        BY <2>4 DEF PickerOpens, Picked, ControlOK, VoiceInv, GiversVoiced
      <3>2. tell'[p] = {} \/ \E i \in Id :
                /\ tell'[p] = {<<i, record[i]>>}
                /\ record[i] # None /\ record[i].answer # None
        BY <2>4, <3>1 DEF PickerOpens, Picked, ControlOK
      <3>3. \A t \in tell'[p] : t[2].by # p
        BY <3>1, <3>2 DEF VoiceInv, RecordsVoiced, Voiced
      <3>4. \A t, u \in tell'[p] : t = u
        BY <3>2
      <3> QED
        BY <3>1, <3>3, <3>4
    <2> QED
      BY <2>1, <2>2, <2>3, <2>4, Frames DEF TellWritten
  <1> QED
    BY <1>3, <1>4, <1>5, <1>6, <1>7 DEF ToldInv

(* Every step keeps what was told. *)
LEMMA ToldStep ==
    ASSUME Serial, TypeOK, ControlOK, SerialInv, VoiceInv, ToldInv, [Next]_vars, SaidStays
    PROVE  ToldInv'
  BY MarkToldKeepsTold, QuietKeepsTold

-----------------------------------------------------------------------------
(* The inductive invariant. *)
ChatInv ==
    /\ TypeOK /\ ControlOK /\ SerialInv /\ FilledInv /\ VoiceInv
    /\ RanInv /\ GoneInv /\ QuestionInv /\ ToldInv

(* Nothing is asked, said or told at the start. *)
LEMMA InitHolds == Init => ChatInv
  <1> SUFFICES ASSUME Init PROVE ChatInv
    OBVIOUS
  <1> USE Processes DEF Init
  <1>1. TypeOK
    <2>1. /\ record \in [Id -> Pending \cup {None}]
          /\ at \in [Process -> Id \cup {None}]
          /\ copy \in [Process -> Pending \cup {None}]
          /\ ranOn \in [Call -> Giver \cup {None}]
          /\ said \in [Giver -> Answer \cup {None}]
      OBVIOUS
    <2>2. pc \in [Process -> CallPC \cup GiverPC]
      BY DEF CallPC, GiverPC
    <2>3. tell \in [Pause -> SUBSET (Id \X Pending)] /\ heard \in [Giver -> Nat]
      OBVIOUS
    <2>4. ms \in 0 .. MaxMs /\ faults \in 0 .. MaxFaults
      BY BoundAssumption
    <2> QED
      BY <2>1, <2>2, <2>3, <2>4 DEF TypeOK
  <1>2. ControlOK
    BY DEF ControlOK, Holding
  <1>3. SerialInv /\ FilledInv
    BY DEF SerialInv, FilledInv, UnderWay, Hook, Process, Giver
  <1>4. VoiceInv
    BY DEF VoiceInv, RecordsVoiced, CopiesVoiced, TellsVoiced, GiversVoiced, GrantsVoiced,
       Holding
  <1>5. RanInv /\ GoneInv
    BY DEF RanInv, GoneInv
  <1>6. QuestionInv
    BY DEF QuestionInv, OpenInSession, Listed
  <1>7. ToldInv
    BY DEF ToldInv, HeardOnce, RecordsTold, CopiesTold, GrantsUntold, TellsApart,
       TellsUntold, Holding
  <1> QED
    BY <1>1, <1>2, <1>3, <1>4, <1>5, <1>6, <1>7 DEF ChatInv

(* Every step keeps the invariant. *)
LEMMA StepHolds == Serial /\ ChatInv /\ [Next]_vars => ChatInv'
  <1> SUFFICES ASSUME Serial, ChatInv, [Next]_vars
               PROVE  ChatInv'
    OBVIOUS
  <1>1. /\ TypeOK /\ ControlOK /\ SerialInv /\ FilledInv /\ VoiceInv
        /\ RanInv /\ GoneInv /\ QuestionInv /\ ToldInv
    BY DEF ChatInv
  <1>2. SaidStays
    BY <1>1, SaidStep
  <1>3. TypeOK' /\ ControlOK' /\ SerialInv' /\ FilledInv'
    BY <1>1, TypeStep, ControlStep, SerialStep, FilledStep
  <1>4. VoiceInv'
    BY <1>1, <1>2, RecordsVoicedStep, CopiesVoicedStep, TellsVoicedStep, GiversVoicedStep,
       GrantsVoicedStep DEF VoiceInv
  <1>5. RanInv' /\ GoneInv'
    BY <1>1, <1>2, RanStep, GoneStep
  <1>6. QuestionInv' /\ ToldInv'
    BY <1>1, <1>2, QuestionStep, ToldStep
  <1> QED
    BY <1>3, <1>4, <1>5, <1>6 DEF ChatInv

(* The invariant holds of every state, where hooks follow one another. *)
THEOREM ChatInvariant == ASSUME Serial PROVE Spec => []ChatInv
  <1>1. Init => ChatInv
    BY InitHolds
  <1>2. ChatInv /\ [Next]_vars => ChatInv'
    BY StepHolds
  <1> QED
    BY <1>1, <1>2, PTL DEF Spec

(* For any number of calls, pauses and people, at most one question of the   *)
(* call waits for an answer (holdInChat finds the one already waiting).      *)
THEOREM OneQuestionAtATime == ASSUME Serial PROVE Spec => []OneOpenQuestion
  <1>1. ChatInv => OneOpenQuestion
    <2> SUFFICES ASSUME ChatInv PROVE Cardinality(OpenInSession) <= 1
      BY DEF OneOpenQuestion
    <2>1. \A i, j \in OpenInSession : i = j
      BY DEF ChatInv, QuestionInv
    <2>2. CASE OpenInSession = {}
      BY <2>2, FS_EmptySet
    <2>3. CASE OpenInSession # {}
      <3>1. PICK i \in OpenInSession : TRUE
        BY <2>3
      <3>2. OpenInSession = {i}
        BY <2>1
      <3> QED
        BY <3>2, FS_Singleton
    <2> QED
      BY <2>2, <2>3
  <1> QED
    BY <1>1, ChatInvariant, PTL

(* The agent is told each answer once (markTold), however many pauses end    *)
(* after it and however the record was rewritten in between.                 *)
THEOREM HeardAtMostOnce == ASSUME Serial PROVE Spec => []ToldOnce
  <1>1. ChatInv => ToldOnce
    BY DEF ChatInv, ToldInv, HeardOnce, ToldOnce
  <1> QED
    BY <1>1, ChatInvariant, PTL

-----------------------------------------------------------------------------
(* Each step of the files is a step of the promise, or none. *)
LEMMA StepKeepsPromise ==
    ASSUME Serial, ChatInv, [Next]_vars
    PROVE  [Promise!Next]_(Promise!vars)
  <1>1. /\ TypeOK /\ ControlOK /\ SerialInv /\ FilledInv /\ VoiceInv
        /\ RanInv /\ GoneInv
    BY DEF ChatInv
  <1> DEFINE Ran == {c \in Call : pc[c] = "ran"}
  <1> USE <1>1, Processes DEF TypeOK, Goto
  <1>2. ASSUME NEW c \in Call, Settle(c) PROVE [Promise!Next]_(Promise!vars)
    <2>1. Voiced(at[c], copy[c]) /\ copy[c].answer # None /\ copy[c] \in Pending
      BY <1>2 DEF Settle, VoiceInv, CopiesVoiced, Holding, ControlOK
    <2>2. PICK g \in Giver : g = copy[c].by /\ said[g] = copy[c].answer
      BY <2>1 DEF Voiced
    <2>3. ranOn[c] = None /\ c \notin Ran
      BY <1>2 DEF Settle, RanInv
    <2>4. said' = said /\ faults' = faults
      BY <1>2 DEF Settle
    <2>5. CASE copy[c].answer \in Yes
      <3>1. Ran' = Ran \cup {c}
        BY <1>2, <2>5 DEF Settle
      <3>2. ranOn' = [ranOn EXCEPT ![c] = g]
        BY <1>2, <2>2, <2>5 DEF Settle
      <3>3. faults > 0 \/ \A d \in Call : ranOn[d] # g
        <4>1. faults = 0 => \A d \in Call : ranOn[d] # None => Gone(ranOn[d])
          BY DEF GoneInv
        <4>2. pc[c] \in Holding
          BY <1>2 DEF Settle, Holding
        <4>3. faults = 0 => \A d \in Call : ranOn[d] # g
          BY <2>2, <4>1, <4>2 DEF Gone
        <4> QED
          BY <4>3, BoundAssumption
      <3>4. Promise!RunsOn(c, g)
        BY <2>2, <2>4, <2>5, <3>1, <3>2, <3>3 DEF Promise!RunsOn, Promise!Unused, Yes
      <3> QED
        BY <2>3, <3>4 DEF Promise!Next
    <2>6. CASE copy[c].answer \notin Yes
      <3>1. Ran' = Ran
        BY <1>2, <2>3, <2>6 DEF Settle
      <3>2. ranOn' = ranOn
        BY <1>2, <2>3, <2>6 DEF Settle
      <3> QED
        BY <2>4, <3>1, <3>2 DEF Promise!vars
    <2> QED
      BY <2>5, <2>6
  <1>3. ASSUME NEW c \in Call, WithSessionGrant(c) PROVE [Promise!Next]_(Promise!vars)
    <2>1. said' = said /\ faults' = faults /\ ranOn' = ranOn
      BY <1>3 DEF WithSessionGrant, history
    <2>2. CASE granted
      <3>1. Ran' = Ran \cup {c} /\ c \notin Ran
        BY <1>3, <2>2 DEF WithSessionGrant
      <3>2. \E g \in Giver : said[g] = "session"
        BY <2>2 DEF VoiceInv, GrantsVoiced
      <3>3. Promise!RunsCovered(c)
        BY <2>1, <3>1, <3>2 DEF Promise!RunsCovered
      <3> QED
        BY <3>1, <3>3 DEF Promise!Next
    <2>3. CASE ~granted
      <3>1. Ran' = Ran
        BY <1>3, <2>3 DEF WithSessionGrant
      <3> QED
        BY <2>1, <3>1 DEF Promise!vars
    <2> QED
      BY <2>2, <2>3
  <1>4. ASSUME NEW g \in Giver, AnswerWrite(g) PROVE [Promise!Next]_(Promise!vars)
    <2>1. said[g] = None /\ g \notin filled
      BY <1>4 DEF AnswerWrite, VoiceInv, GiversVoiced, FilledInv
    <2>2. said' = [said EXCEPT ![g] = copy'[g].answer] /\ copy'[g].answer \in Answer
      BY <1>4, <2>1, AnswerWriteWrites
    <2>3. Ran' = Ran /\ ranOn' = ranOn /\ faults' = faults
      BY <1>4 DEF AnswerWrite
    <2>4. Promise!Says(g)
      BY <2>1, <2>2, <2>3 DEF Promise!Says, Promise!Answer, Answer
    <2> QED
      BY <2>4 DEF Promise!Next
  <1>5. ASSUME NEW c \in Call, HookFileFails(c) PROVE [Promise!Next]_(Promise!vars)
    <2>1. Ran' = Ran /\ said' = said /\ ranOn' = ranOn
      BY <1>5 DEF HookFileFails, history
    <2>2. faults' > 0
      BY <1>5, BoundAssumption DEF HookFileFails
    <2>3. Promise!StorageFails
      BY <2>1, <2>2 DEF Promise!StorageFails
    <2> QED
      BY <2>3 DEF Promise!Next
  <1>6. CASE Ran' = Ran /\ said' = said /\ ranOn' = ranOn /\ faults' = faults
    BY <1>6 DEF Promise!vars
  <1> USE DEF files, hooks, history
  <1>7. ASSUME NEW c \in Call, Start(c) \/ CallStep(c), ~Settle(c), ~WithSessionGrant(c)
        PROVE  Ran' = Ran /\ said' = said /\ ranOn' = ranOn /\ faults' = faults
    BY <1>7 DEF CallStep, Start, WithChatAnswer, ClearClaim, ClearRecord, HoldInChat,
       Raise, Keep,
       AnswerPlaces, SpokenAnswer, WaitOver, AlsoOnRead, AlsoOnKeep
  <1>8. ASSUME NEW g \in Giver, AnswerStep(g), ~AnswerWrite(g)
        PROVE  Ran' = Ran /\ said' = said /\ ranOn' = ranOn /\ faults' = faults
    BY <1>8 DEF AnswerStep, AnswerRead, AnswerClaim, AnswerGrant
  <1>9. ASSUME NEW r \in Remote, RemoteAnswers(r)
        PROVE  Ran' = Ran /\ said' = said /\ ranOn' = ranOn /\ faults' = faults
    BY <1>9 DEF RemoteAnswers
  <1>10. ASSUME NEW p \in Pause, PauseStarts(p) \/ PauseStep(p)
         PROVE  Ran' = Ran /\ said' = said /\ ranOn' = ranOn /\ faults' = faults
    BY <1>10 DEF PauseStarts, PauseStep, AnswerInChat, AnswersArrived, ListenEnds,
       PickerOpens,
       PickerUnseen, Picked, MarkTold
  <1>11. ASSUME NEW i \in Id, Expire(i)
         PROVE  Ran' = Ran /\ said' = said /\ ranOn' = ranOn /\ faults' = faults
    BY <1>11 DEF Expire
  <1>12. CASE UNCHANGED vars
    BY <1>6, <1>12 DEF vars
  <1> HIDE DEF Ran
  <1> QED
    BY <1>2, <1>3, <1>4, <1>5, <1>6, <1>7, <1>8, <1>9, <1>10, <1>11, <1>12 DEF Next,
       CallStep

(* The hold in the agent's chat keeps the promise of Consent, for any number *)
(* of calls, pauses and people and any interleaving of the remote answers    *)
(* with the session's hooks: each call that ran, ran on a yes given before,  *)
(* and a "once" let one call run unless a file operation failed.             *)
THEOREM ChatKeepsPromise == ASSUME Serial PROVE Spec => ImplementsConsent
  <1>1. Init => Promise!Init
    <2> SUFFICES ASSUME Init PROVE Promise!Init
      OBVIOUS
    <2>1. {c \in Call : pc[c] = "ran"} = {}
      BY Processes DEF Init
    <2>2. (faults > 0) = FALSE
      BY DEF Init
    <2> QED
      BY <2>1, <2>2 DEF Init, Promise!Init
  <1>2. ChatInv /\ [Next]_vars => [Promise!Next]_(Promise!vars)
    BY StepKeepsPromise
  <1> QED
    BY <1>1, <1>2, ChatInvariant, PTL DEF Spec, ImplementsConsent, Promise!Spec

-----------------------------------------------------------------------------
(* What the promise is worth: its invariant, for whatever implements it.     *)
PromiseInv ==
    /\ said \in [Giver -> Answer \cup {None}] /\ ranOn \in [Call -> Giver \cup {None}]
    /\ Promise!RanOnAYes /\ Promise!OnceIsOne

(* Saying an answer leaves what ran, and whose answers it ran on. *)
LEMMA SaysHolds ==
    ASSUME PromiseInv, NEW g \in Giver, Promise!Says(g)
    PROVE  PromiseInv'
  <1>1. PICK answer \in Answer : said' = [said EXCEPT ![g] = answer]
    BY DEF Promise!Says, Promise!Answer, Answer
  <1>2. \A k \in Giver : said[k] # None => said'[k] = said[k]
    BY <1>1 DEF PromiseInv, Promise!Says
  <1>3. said' \in [Giver -> Answer \cup {None}]
    BY <1>1 DEF PromiseInv
  <1>4. /\ ranOn' = ranOn /\ {c \in Call : pc[c] = "ran"}' = {c \in Call : pc[c] = "ran"}
        /\ (faults > 0)' = (faults > 0)
    BY DEF Promise!Says
  <1>5. Promise!RanOnAYes'
    BY <1>2, <1>4, Processes DEF PromiseInv, Promise!RanOnAYes, Answer
  <1>6. Promise!OnceIsOne'
    BY <1>2, <1>4, Processes DEF PromiseInv, Promise!RanOnAYes, Promise!OnceIsOne, Answer
  <1> QED
    BY <1>3, <1>4, <1>5, <1>6 DEF PromiseInv

(* A call that runs uses a yes nobody used before, unless it is a session's. *)
LEMMA RunsOnHolds ==
    ASSUME PromiseInv, NEW c \in Call, NEW g \in Giver, Promise!RunsOn(c, g)
    PROVE  PromiseInv'
  <1>1. ranOn' = [ranOn EXCEPT ![c] = g] /\ said' = said
    BY DEF Promise!RunsOn
  <1>2. \A d \in Call : ranOn'[d] = IF d = c THEN g ELSE ranOn[d]
    BY <1>1 DEF PromiseInv
  <1>3. said[g] \in {"once", "session"} /\ g # None
    BY Processes DEF Promise!RunsOn
  <1>4. /\ {d \in Call : pc[d] = "ran"}' = {d \in Call : pc[d] = "ran"} \cup {c}
        /\ (faults > 0)' = (faults > 0)
    BY DEF Promise!RunsOn
  <1>5. ranOn' \in [Call -> Giver \cup {None}]
    BY <1>1 DEF PromiseInv
  <1>6. Promise!RanOnAYes'
    BY <1>1, <1>2, <1>3, <1>4 DEF PromiseInv, Promise!RanOnAYes
  <1>7. Promise!OnceIsOne'
    <2>1. ~(faults > 0) /\ said[g] # "session" => \A d \in Call : ranOn[d] # g
      BY DEF Promise!RunsOn, Promise!Unused
    <2> QED
      BY <1>1, <1>2, <1>4, <2>1 DEF PromiseInv, Promise!OnceIsOne
  <1> QED
    BY <1>1, <1>5, <1>6, <1>7 DEF PromiseInv

(* Every step of the promise keeps its invariant. *)
LEMMA PromiseStep ==
    ASSUME PromiseInv, [Promise!Next]_(Promise!vars)
    PROVE  PromiseInv'
  <1>1. ASSUME NEW c \in Call, Promise!RunsCovered(c) PROVE PromiseInv'
    BY <1>1 DEF PromiseInv, Promise!RunsCovered, Promise!RanOnAYes, Promise!OnceIsOne
  <1>2. CASE Promise!StorageFails
    BY <1>2 DEF PromiseInv, Promise!StorageFails, Promise!RanOnAYes, Promise!OnceIsOne
  <1>3. CASE UNCHANGED Promise!vars
    BY <1>3 DEF PromiseInv, Promise!vars, Promise!RanOnAYes, Promise!OnceIsOne
  <1> QED
    BY <1>1, <1>2, <1>3, SaysHolds, RunsOnHolds DEF Promise!Next

(* Whatever a retry in the chat does (withChatAnswer, withSessionGrant), a   *)
(* call ran only where somebody had said yes, and two calls never ran on one *)
(* "once" while no file operation failed: it follows from the promise alone. *)
THEOREM PromiseIsKept ==
    ASSUME Serial PROVE Spec => [](Promise!RanOnAYes /\ Promise!OnceIsOne)
  <1>1. Promise!Init => PromiseInv
    BY Processes DEF Promise!Init, PromiseInv, Promise!RanOnAYes, Promise!OnceIsOne
  <1>2. PromiseInv /\ [Promise!Next]_(Promise!vars) => PromiseInv'
    BY PromiseStep
  <1>3. PromiseInv => Promise!RanOnAYes /\ Promise!OnceIsOne
    BY DEF PromiseInv
  <1> QED
    BY <1>1, <1>2, <1>3, ChatKeepsPromise, PTL DEF ImplementsConsent, Promise!Spec
=============================================================================
