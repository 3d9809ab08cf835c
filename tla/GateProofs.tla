----------------------------- MODULE GateProofs -----------------------------
(***************************************************************************)
(* The verdict of the local gate and the second look at what it allows,    *)
(* for every set of rules, calls, sessions and allowances and every number *)
(* of processes.                                                           *)
(*                                                                         *)
(* The verdict is a function of the state, so the gate's invariants rest   *)
(* on the state's shape alone (GateInv); the work is in the operators.     *)
(* The index hands over every rule that matches (IndexHandsOver); of the   *)
(* line the first of the strictest stands (SomebodyStands), so a deny of   *)
(* anyone decides, and an ask of the agent's own stands or gives way to a  *)
(* deny; no layer and no allowance undoes either.  One more rule that      *)
(* relaxes nothing keeps all that decided before (MoreDecide), and what is *)
(* stricter stays so through the line and the layers.  The windows are     *)
(* arithmetic on quotients and remainders (DividesOneWay).                 *)
(*                                                                         *)
(* The second look is a protocol over files nobody locks.  What it relies  *)
(* on is NoticeInv: until a write is lost, the session's file says what    *)
(* was taken and whether suspicion stands, and what a process remembers as *)
(* done before did go ahead.                                               *)
(***************************************************************************)
EXTENDS LocalGate, Notice, FiniteSetTheorems, WellFoundedInduction, NaturalsInduction, TLAPS

(***************************************************************************)
(* Effects, the index, and the strictest of several.                       *)
(***************************************************************************)
(* Of the three effects, what is stricter than what.                       *)
LEMMA Strictness ==
  /\ isStricter("deny", "ask") /\ isStricter("deny", "allow") /\ isStricter("ask", "allow")
  /\ \A e \in Effect : ~isStricter(e, "deny") /\ ~isStricter("allow", e) /\ ~isStricter(e, e)
  /\ ~isStricter("ask", "deny")
  BY DEF isStricter, EFFECT_PRECEDENCE, Effect

(* strictestOf() is one of the effects, and none is stricter.              *)
LEMMA StrictestStands ==
  ASSUME NEW effects \in SUBSET Effect, NEW default \in Effect
  PROVE  /\ strictestOf(effects, default) \in Effect
         /\ effects # {} => strictestOf(effects, default) \in effects
         /\ \A e \in effects : ~isStricter(e, strictestOf(effects, default))
  <1>1. CASE effects = {}
    BY <1>1 DEF strictestOf
  <1>2. CASE effects # {}
    <2>1. \E e \in effects : \A other \in effects : ~isStricter(other, e)
      <3>1. CASE "deny" \in effects
        BY <3>1, Strictness
      <3>2. CASE "deny" \notin effects /\ "ask" \in effects
        <4>1. \A o \in effects : o \in {"ask", "allow"}
          BY <3>2 DEF Effect
        <4>2. \A o \in {"ask", "allow"} : ~isStricter(o, "ask")
          BY Strictness DEF Effect
        <4> QED
          BY <3>2, <4>1, <4>2
      <3>3. CASE "deny" \notin effects /\ "ask" \notin effects
        <4>1. \A o \in effects : o = "allow"
          BY <3>3 DEF Effect
        <4>2. ~isStricter("allow", "allow")
          BY Strictness DEF Effect
        <4> QED
          BY <1>2, <4>1, <4>2
      <3> QED
        BY <3>1, <3>2, <3>3
    <2> QED
      BY <1>2, <2>1 DEF strictestOf
  <1> QED
    BY <1>1, <1>2

(* A set of positions has a first.                                         *)
LEMMA FirstOf ==
  ASSUME NEW T \in SUBSET Nat, T # {}
  PROVE  \E i \in T : \A j \in T : i <= j
  <1>1. PICK i \in T : \A j \in T : ~(<<j, i>> \in OpToRel(<, Nat))
    BY NatLessThanWellFounded, WFMin
  <1>2. \A j \in T : ~(j < i)
    BY <1>1 DEF OpToRel
  <1> QED
    BY <1>2

(* A text that goes on after a beginning with a dot in it has the first    *)
(* segment of that beginning.                                              *)
LEMMA SameFirstSegment ==
  ASSUME NEW s \in Text, NEW a \in Text, Len(s) <= Len(a),
         \A j \in 1..Len(s) : s[j] = a[j],
         NEW d \in 1..Len(s), s[d] = DOT
  PROVE  firstSegment(s) = firstSegment(a)
  <1> DEFINE Dots(t) == {i \in 1..Len(t) : t[i] = DOT}
             Least(T) == CHOOSE i \in T : \A j \in T : i <= j
  <1>1. /\ Len(s) \in Nat /\ Len(a) \in Nat
        /\ \A i \in 1..Len(s) : i \in 1..Len(a)
    BY DEF Text
  <1>2. PICK k \in Dots(s) : \A j \in Dots(s) : k <= j
    <2>1. Dots(s) \subseteq Nat /\ d \in Dots(s)
      BY <1>1
    <2> HIDE DEF Dots
    <2> QED
      BY <2>1, FirstOf
  <1>3. k \in Nat /\ k >= 1 /\ k <= Len(s) /\ k <= Len(a)
    BY <1>1, <1>2
  <1>4. k \in Dots(a) /\ \A j \in Dots(a) : k <= j
    <2>1. k \in Dots(a)
      BY <1>1, <1>2
    <2>2. ASSUME NEW j \in Dots(a), j < k PROVE FALSE
      <3>1. j \in Dots(s)
        BY <1>1, <1>3, <2>2
      <3> QED
        BY <1>1, <1>2, <1>3, <2>2, <3>1
    <2> QED
      BY <1>1, <1>3, <2>1, <2>2
  <1>5. Least(Dots(s)) = k
    <2>1. Dots(s) \subseteq Nat
      BY <1>1
    <2> HIDE DEF Dots
    <2> QED
      BY <1>2, <1>3, <2>1
  <1>6. Least(Dots(a)) = k
    <2>1. Dots(a) \subseteq Nat
      BY <1>1
    <2> HIDE DEF Dots
    <2> QED
      BY <1>3, <1>4, <2>1
  <1>7. SubSeq(s, 1, k - 1) = SubSeq(a, 1, k - 1)
    BY <1>1, <1>3 DEF Text
  <1>8. firstSegment(s) = SubSeq(s, 1, k - 1)
    BY <1>2, <1>5 DEF firstSegment
  <1>9. firstSegment(a) = SubSeq(a, 1, k - 1)
    BY <1>4, <1>6 DEF firstSegment
  <1> QED
    BY <1>7, <1>8, <1>9

(* A call a pattern matches has the pattern's first segment, when no star  *)
(* is in that segment.                                                     *)
LEMMA MatchSharesSegment ==
  ASSUME NEW q \in Pattern, NEW a \in Name, matchesPattern(q.parts, a), ~starsIn(q)
  PROVE  firstSegment(q.parts[1]) = firstSegment(a)
  <1>1. q.parts \in Seq(Text) /\ Len(q.parts) \in Nat /\ Len(q.parts) >= 1
    BY DEF Pattern
  <1>2. q.parts[1] \in Text /\ a \in Text /\ Len(q.parts[1]) \in Nat /\ Len(a) \in Nat
    BY <1>1 DEF Name, Text
  <1>3. CASE Len(q.parts) = 1
    BY <1>3 DEF matchesPattern
  <1>4. CASE Len(q.parts) # 1
    <2>1. \A j \in 1..Len(q.parts[1]) : j <= Len(a) /\ q.parts[1][j] = a[j]
      BY <1>4 DEF matchesPattern
    <2>2. PICK d \in 1..Len(q.parts[1]) : q.parts[1][d] = DOT
      <3>1. Len(q.parts) > 1
        <4>1. \A n \in Nat : n >= 1 /\ n # 1 => n > 1
          OBVIOUS
        <4> QED
          BY <1>1, <1>4, <4>1, Zenon
      <3> QED
        BY ~starsIn(q), <3>1, Zenon DEF starsIn
    <2>3. Len(q.parts[1]) <= Len(a)
      <3>1. Len(q.parts[1]) \in 1..Len(q.parts[1])
        BY <1>2, <2>2
      <3> QED
        BY <2>1, <3>1
    <2> QED
      BY <1>2, <2>1, <2>2, <2>3, SameFirstSegment
  <1> QED
    BY <1>3, <1>4

(* candidates(): a rule whose actions include the call's is handed over.   *)
LEMMA IndexHandsOver ==
  ASSUME NEW held, NEW p \in held, p.actions \subseteq Pattern, NEW a \in Name, a # None,
         matchesAny(p.actions, a), ~OnlyExcludes(p)
  PROVE  p \in candidates(held, a)
  <1>1. PICK q \in p.actions : ~q.out /\ matchesPattern(q.parts, a)
    BY DEF matchesAny, takesIn, OnlyExcludes
  <1>2. CASE literalPrefixes(p.actions) = None
    BY <1>2 DEF candidates, unindexed
  <1>3. CASE literalPrefixes(p.actions) # None
    <2>1. /\ literalPrefixes(p.actions) = {prefixOf(o) : o \in p.actions}
          /\ ~starsIn(q)
      BY <1>1, <1>3 DEF literalPrefixes
    <2>2. firstSegment(q.parts[1]) = firstSegment(a)
      BY <1>1, <2>1, MatchSharesSegment
    <2>3. q.out = FALSE
      <3>1. q.out \in BOOLEAN
        BY <1>1 DEF Pattern
      <3> QED
        BY <1>1, <3>1, Zenon
    <2>4. prefixOf(q) = <<FALSE, firstSegment(a)>>
      BY <2>2, <2>3, Zenon DEF prefixOf
    <2> QED
      BY <1>1, <1>3, <2>1, <2>4 DEF candidates, byActionPrefix, unindexed
  <1> QED
    BY <1>2, <1>3

(***************************************************************************)
(* The answers of the line.                                                *)
(***************************************************************************)
(* What is known of the state: the parts of TypeOK the verdict rests on.   *)
StateOK == rules \subseteq Rule /\ session \in Session

(* A rule engine's answer is one of the three effects; a freeze or a deny  *)
(* in force decides it.                                                    *)
LEMMA EffectOfAnswer ==
  ASSUME NEW held \in SUBSET Rule, NEW r \in Request, NEW context
  PROVE  evaluate(held, r, context).effect \in Effect
  <1> DEFINE applicable == {p \in candidates(held, r.action) : matches(p, r, context)}
             enforced   == {p \in applicable : ~p.observe}
             effects    == EffectsOf(withoutRelaxed(enforced))
  <1>1. effects \in SUBSET Effect
    BY RuleAssumption DEF EffectsOf, withoutRelaxed, candidates, byActionPrefix, unindexed
  <1>2. strictestOf(effects, "allow") \in Effect
    BY <1>1, StrictestStands DEF Effect
  <1> QED
    BY <1>2 DEF evaluate, frozenVerdict, Effect

(* The line is the agent and its parents.                                  *)
LEMMA LineOfSession ==
  ASSUME session \in Session
  PROVE  /\ Len(Line) \in Nat /\ Len(Line) >= 1
         /\ DOMAIN Line = 1 .. Len(Line)
         /\ Line[1] = session.agentName
         /\ \A i \in 2 .. Len(Line) : i - 1 \in DOMAIN session.parents /\ Line[i] = session.parents[i - 1]
         /\ \A a \in Agents : \E i \in DOMAIN Line : Line[i] = a
  <1> DEFINE parents == session.parents
  <1>1. session.agentName \in Name /\ parents \in Seq(Name)
    BY SessionAssumption
  <1>2. Line = <<session.agentName>> \o parents
    BY DEF Line
  <1> HIDE DEF parents
  <1>3. /\ Len(Line) \in Nat /\ Len(Line) = Len(parents) + 1 /\ Len(parents) \in Nat
        /\ DOMAIN Line = 1 .. Len(Line) /\ DOMAIN parents = 1 .. Len(parents)
    BY <1>1, <1>2
  <1>4. Line[1] = session.agentName
    BY <1>1, <1>2
  <1>5. \A i \in 2 .. Len(Line) : i - 1 \in DOMAIN parents /\ Line[i] = parents[i - 1]
    BY <1>1, <1>2, <1>3
  <1>6. ASSUME NEW a \in Agents PROVE \E i \in DOMAIN Line : Line[i] = a
    <2>1. CASE a = session.agentName
      BY <1>3, <1>4, <2>1
    <2>2. CASE a # session.agentName
      <3>1. PICK k \in DOMAIN parents : a = parents[k]
        BY <2>2 DEF Agents, Range, parents
      <3>2. k + 1 \in 2 .. Len(Line) /\ (k + 1) - 1 = k
        BY <1>3, <3>1
      <3>3. Line[k + 1] = parents[k]
        BY <1>5, <3>2
      <3> QED
        BY <1>3, <3>1, <3>2, <3>3
    <2> QED
      BY <2>1, <2>2
  <1> QED
    BY <1>3, <1>4, <1>5, <1>6 DEF parents

(* Whose answer stands: the strictest, and of equals the first.            *)
Stands(held, r, i) ==
    /\ i \in DOMAIN Line
    /\ \A j \in DOMAIN Line :
          ~isStricter(evaluatedAs(Line[j], held, r).effect, evaluatedAs(Line[i], held, r).effect)
    /\ \A j \in 1..(i - 1) :
          isStricter(evaluatedAs(Line[i], held, r).effect, evaluatedAs(Line[j], held, r).effect)

(* Somebody's answer stands, and evaluated() gives it.                     *)
LEMMA SomebodyStands ==
  ASSUME StateOK, NEW held \in SUBSET Rule, NEW r \in Request
  PROVE  \E i \in DOMAIN Line : Stands(held, r, i) /\ evaluated(held, r) = evaluatedAs(Line[i], held, r)
  <1> DEFINE E(i) == evaluatedAs(Line[i], held, r).effect
  <1>1. \A i : E(i) \in Effect
    BY EffectOfAnswer DEF evaluatedAs
  <1>2. DOMAIN Line = 1 .. Len(Line) /\ Len(Line) \in Nat /\ 1 \in DOMAIN Line
    BY LineOfSession DEF StateOK
  <1> DEFINE effects == {E(i) : i \in DOMAIN Line}
  <1>3. PICK e \in effects : \A o \in effects : ~isStricter(o, e)
    <2>1. effects \in SUBSET Effect /\ effects # {}
      BY <1>1, <1>2
    <2> QED
      BY <2>1, StrictestStands DEF Effect
  <1> DEFINE T == {i \in DOMAIN Line : E(i) = e}
  <1>4. T \in SUBSET Nat /\ T # {}
    BY <1>2, <1>3
  <1>5. PICK i \in T : \A j \in T : i <= j
    <2> HIDE DEF T
    <2> QED
      BY <1>4, FirstOf
  <1>6. i \in DOMAIN Line /\ E(i) = e /\ \A j \in DOMAIN Line : ~isStricter(E(j), E(i))
    BY <1>3, <1>5
  <1>7. ASSUME NEW j \in 1..(i - 1) PROVE isStricter(E(i), E(j))
    <2>1. j \in DOMAIN Line /\ j < i
      BY <1>2, <1>6, <1>7
    <2>2. E(j) # e
      BY <1>2, <1>5, <1>6, <2>1
    <2>3. ~isStricter(E(j), E(i))
      BY <1>6, <2>1
    <2> HIDE DEF E
    <2> QED
      BY <1>1, <1>6, <2>2, <2>3, Strictness DEF Effect
  <1>8. Stands(held, r, i)
    BY <1>6, <1>7 DEF Stands
  <1> DEFINE answer(k) == [place |-> k, given |-> evaluatedAs(Line[k], held, r)]
             answers == {answer(k) : k \in DOMAIN Line}
             First(a) == \A b \in answers :
                            /\ ~isStricter(b.given.effect, a.given.effect)
                            /\ b.place < a.place => isStricter(a.given.effect, b.given.effect)
             stands == CHOOSE a \in answers : First(a)
  <1>9. First(answer(i))
    <2> SUFFICES ASSUME NEW j \in DOMAIN Line
                 PROVE  ~isStricter(E(j), E(i)) /\ (j < i => isStricter(E(i), E(j)))
      OBVIOUS
    <2>1. j < i => j \in 1..(i - 1)
      BY <1>2, <1>6
    <2> QED
      BY <1>6, <1>7, <2>1
  <1>10. stands \in answers /\ First(stands)
    <2>1. answer(i) \in answers
      BY <1>6
    <2> HIDE DEF answers, First
    <2> QED
      BY <1>9, <2>1
  <1>11. PICK k \in DOMAIN Line : stands = answer(k)
    BY <1>10
  <1>12. First(answer(k))
    BY <1>10, <1>11
  <1>13. ASSUME NEW j \in DOMAIN Line
         PROVE  ~isStricter(E(j), E(k)) /\ (j < k => isStricter(E(k), E(j)))
    <2>1. answer(j) \in answers
      OBVIOUS
    <2> QED
      BY <1>12, <2>1
  <1>14. Stands(held, r, k)
    <2>1. ASSUME NEW j \in 1..(k - 1) PROVE isStricter(E(k), E(j))
      <3>1. j \in DOMAIN Line /\ j < k
        BY <1>2, <1>11
      <3> QED
        BY <1>13, <3>1
    <2>2. \A j \in DOMAIN Line : ~isStricter(E(j), E(k))
      BY <1>13
    <2> QED
      BY <1>11, <2>1, <2>2 DEF Stands
  <1>15. evaluated(held, r) = stands.given
    BY DEF evaluated, firstStrictest
  <1>16. stands.given = evaluatedAs(Line[k], held, r)
    <2> HIDE DEF stands
    <2> QED
      BY <1>11
  <1> QED
    BY <1>14, <1>15, <1>16

(* The rules that apply to a call, and the ones that decide it.            *)
Applicable(held, r, context) == {p \in candidates(held, r.action) : matches(p, r, context)}

Deciding(held, r, context) == withoutRelaxed({p \in Applicable(held, r, context) : ~p.observe})

(* evaluate(): a freeze denies and matches nothing; otherwise the          *)
(* strictest of the rules that decide answers, with all that apply.        *)
LEMMA AnswerIs ==
  ASSUME NEW held, NEW r, NEW context
  PROVE  /\ agentFrozen(context.state, context.agentName)
               => /\ evaluate(held, r, context).effect = "deny"
                  /\ evaluate(held, r, context).matched = {}
         /\ ~agentFrozen(context.state, context.agentName)
               => /\ evaluate(held, r, context).effect
                        = strictestOf(EffectsOf(Deciding(held, r, context)), "allow")
                  /\ evaluate(held, r, context).matched = Applicable(held, r, context)
  BY DEF evaluate, frozenVerdict, Applicable, Deciding

(* What decides applies, and what applies is held.                         *)
LEMMA DecidingAreRules ==
  ASSUME NEW held \in SUBSET Rule, NEW r, NEW context
  PROVE  /\ Applicable(held, r, context) \subseteq held
         /\ Deciding(held, r, context) \subseteq Applicable(held, r, context)
         /\ EffectsOf(Deciding(held, r, context)) \in SUBSET Effect
  <1>1. Applicable(held, r, context) \subseteq held
    BY DEF Applicable, candidates, byActionPrefix, unindexed
  <1>2. Deciding(held, r, context) \subseteq Applicable(held, r, context)
    BY DEF Deciding, withoutRelaxed
  <1> QED
    BY <1>1, <1>2, RuleAssumption DEF EffectsOf

(* A rule that matches and is not of exclusions only is applied.           *)
LEMMA MatchApplies ==
  ASSUME NEW held \in SUBSET Rule, NEW r \in Request, NEW context,
         NEW p \in held, matches(p, r, context), ~OnlyExcludes(p)
  PROVE  p \in Applicable(held, r, context)
  <1>1. p.actions \subseteq Pattern /\ r.action \in Name /\ r.action # None
    BY RuleAssumption, RequestAssumption
  <1>2. matchesAny(p.actions, r.action)
    BY DEF matches
  <1>3. p \in candidates(held, r.action)
    BY <1>1, <1>2, IndexHandsOver
  <1> QED
    BY <1>3 DEF Applicable

(* The index is a superset, never a filter.                                *)
LEMMA NothingFilteredOut ==
  ASSUME StateOK
  PROVE  NoMatchIsFilteredOut
  BY MatchApplies DEF NoMatchIsFilteredOut, Applicable, StateOK

(* A deny in force decides the answer of the agent it is in force for.     *)
LEMMA DenyDecides ==
  ASSUME StateOK, NEW agent, NEW r \in Request,
         NEW p \in InForceFor(agent, r), p.effect = "deny", ~OnlyExcludes(p)
  PROVE  evaluatedAs(agent, rules, r).effect = "deny"
  <1> DEFINE context == ContextOf(agent, r)
  <1>1. evaluatedAs(agent, rules, r) = evaluate(rules, r, context)
    BY DEF evaluatedAs, ContextOf
  <1>2. p \in rules /\ ~p.observe /\ matches(p, r, context)
    BY DEF InForceFor
  <1> HIDE DEF context
  <1>3. p \in Applicable(rules, r, context)
    BY <1>2, MatchApplies DEF StateOK
  <1>4. p \in Deciding(rules, r, context)
    BY <1>2, <1>3 DEF Deciding, withoutRelaxed
  <1>5. "deny" \in EffectsOf(Deciding(rules, r, context))
    BY <1>4 DEF EffectsOf
  <1>6. EffectsOf(Deciding(rules, r, context)) \in SUBSET Effect
    BY DecidingAreRules DEF StateOK
  <1>7. strictestOf(EffectsOf(Deciding(rules, r, context)), "allow") = "deny"
    <2> DEFINE e == strictestOf(EffectsOf(Deciding(rules, r, context)), "allow")
    <2>1. e \in Effect /\ ~isStricter("deny", e)
      BY <1>5, <1>6, StrictestStands DEF Effect
    <2> HIDE DEF e
    <2> QED
      BY <2>1, Strictness DEF Effect, e
  <1> QED
    BY <1>1, <1>7, AnswerIs

(* A freeze on an agent decides its answer.                                *)
LEMMA FreezeDecides ==
  ASSUME NEW agent, NEW r, agentFrozen(facts, agent)
  PROVE  evaluatedAs(agent, rules, r).effect = "deny"
  BY DEF evaluatedAs, evaluate, frozenVerdict

-----------------------------------------------------------------------------
(* What the layers make of the rules' effect.                              *)
Layered(r, effect) == effectUnder(effect, layerOn(r, effect))

(* The verdict is the layered effect, unless an allowance answers it.      *)
LEMMA VerdictIs ==
  ASSUME NEW held, NEW r
  PROVE  ruledBy(held, r) =
            LET evaluation == evaluated(held, r)
                effect     == Layered(r, evaluation.effect)
            IN  IF allowedWithin(r, effect, evaluation.matched) THEN "allow" ELSE effect
  BY DEF ruledBy, afterLayers, Layered

(* Self-protection refuses whatever the rules say, and only hidden code    *)
(* changes a refusal of theirs.                                            *)
LEMMA LayersKeepRefusals ==
  ASSUME NEW r, NEW effect
  PROVE  /\ selfProtection(r) = "refuse" => Layered(r, effect) = "deny"
         /\ r.action # SHELL_HIDDEN /\ effect = "deny" => Layered(r, effect) = "deny"
  <1>1. selfProtection(r) = "refuse" => Layered(r, effect) = "deny"
    <2>1. selfProtection(r) = "refuse" => layerOn(r, effect) = "refuse"
      <3>1. "refuse" # None
        BY LayerAssumption DEF Layer
      <3>2. \A rest : orElse("refuse", rest) = "refuse"
        BY <3>1 DEF orElse
      <3> QED
        BY <3>2 DEF layerOn
    <2>2. effectUnder(effect, "refuse") = "deny"
      BY LayerAssumption DEF Layer, effectUnder
    <2> QED
      BY <2>1, <2>2 DEF Layered
  <1>2. r.action # SHELL_HIDDEN /\ effect = "deny" => layerOn(r, effect) \in {None, "refuse"}
    BY LayerAssumption
       DEF Layer, layerOn, orElse, selfProtection, hiddenCode, offIntent, underStrain, contained
  <1>3. layerOn(r, effect) \in {None, "refuse"} /\ effect = "deny" => Layered(r, effect) = "deny"
    BY LayerAssumption DEF Layer, Layered, effectUnder
  <1> QED
    BY <1>1, <1>2, <1>3

(* No allowance answers a refusal.                                         *)
LEMMA RefusalIsFinal ==
  ASSUME NEW held, NEW r, Layered(r, evaluated(held, r).effect) = "deny"
  PROVE  ruledBy(held, r) = "deny"
  BY VerdictIs DEF allowedWithin

(* Nobody of the line is stricter than the answer that stands.             *)
LEMMA StrictestOfTheLine ==
  ASSUME StateOK, NEW held \in SUBSET Rule, NEW r \in Request, NEW agent \in Agents
  PROVE  /\ evaluated(held, r).effect \in Effect
         /\ evaluatedAs(agent, held, r).effect \in Effect
         /\ ~isStricter(evaluatedAs(agent, held, r).effect, evaluated(held, r).effect)
  <1>1. PICK i \in DOMAIN Line : Stands(held, r, i) /\ evaluated(held, r) = evaluatedAs(Line[i], held, r)
    BY SomebodyStands
  <1>2. PICK j \in DOMAIN Line : Line[j] = agent
    BY LineOfSession DEF StateOK
  <1>3. \A a : evaluatedAs(a, held, r).effect \in Effect
    BY EffectOfAnswer DEF evaluatedAs
  <1> QED
    BY <1>1, <1>2, <1>3 DEF Stands

(* RefusalsStand, in any state the gate can rule in.                       *)
LEMMA RefusalsHold ==
  ASSUME StateOK
  PROVE  RefusalsStand
  <1>1. ASSUME NEW r \in Request, selfProtection(r) = "refuse" PROVE ruled(r) = "deny"
    BY <1>1, LayersKeepRefusals, RefusalIsFinal DEF ruled
  <1>2. ASSUME NEW r \in Request, r.action # SHELL_HIDDEN,
               NEW agent \in Agents, RefusedTo(agent, r)
        PROVE  ruled(r) = "deny"
    <2>1. evaluatedAs(agent, rules, r).effect = "deny"
      <3>1. CASE agentFrozen(facts, agent)
        BY <3>1, FreezeDecides
      <3>2. CASE \E p \in InForceFor(agent, r) : p.effect = "deny" /\ ~OnlyExcludes(p)
        BY <3>2, DenyDecides
      <3> QED
        BY <1>2, <3>1, <3>2 DEF RefusedTo
    <2>2. evaluated(rules, r).effect \in Effect /\ ~isStricter("deny", evaluated(rules, r).effect)
      BY <2>1, StrictestOfTheLine DEF StateOK
    <2>3. evaluated(rules, r).effect = "deny"
      BY <2>2, Strictness DEF Effect
    <2> QED
      BY <1>2, <2>3, LayersKeepRefusals, RefusalIsFinal DEF ruled
  <1> QED
    BY <1>1, <1>2 DEF RefusalsStand

(* A workspace's ask that no workspace allow names decides the agent's own *)
(* answer, and is in what the agent's own answer matched.                  *)
LEMMA AskDecides ==
  ASSUME StateOK, NEW agent, NEW r \in Request, NEW p \in InForceFor(agent, r),
         p.workspace, p.effect = "ask", ~OnlyExcludes(p),
         \A q \in InForceFor(agent, r) : q.workspace /\ q.effect = "allow" => p.name \notin q.relaxes
  PROVE  LET own == evaluatedAs(agent, rules, r)
         IN  own.effect = "deny" \/ (own.effect = "ask" /\ askedByWorkspace(own.matched))
  <1> DEFINE context == ContextOf(agent, r)
             enforced == {q \in Applicable(rules, r, context) : ~q.observe}
  <1>1. evaluatedAs(agent, rules, r) = evaluate(rules, r, context)
    BY DEF evaluatedAs, ContextOf
  <1>2. InForceFor(agent, r) = {q \in rules : ~q.observe /\ matches(q, r, context)}
    BY DEF InForceFor
  <1> HIDE DEF context
  <1>3. p \in Applicable(rules, r, context) /\ ~p.observe
    BY <1>2, MatchApplies DEF StateOK
  <1>4. enforced \subseteq InForceFor(agent, r)
    BY <1>2, DecidingAreRules DEF StateOK, Applicable
  <1>5. ASSUME NEW q \in enforced, q.effect = "allow", NEW name \in q.relaxes
        PROVE  layerOf(p, p.name) # layerOf(q, name)
    <2> SUFFICES ASSUME layerOf(p, p.name) = layerOf(q, name) PROVE FALSE
      OBVIOUS
    <2>1. p.workspace = q.workspace /\ p.name = name
      BY DEF layerOf
    <2>2. q.workspace
      BY <2>1, Zenon
    <2> QED
      BY <1>4, <1>5, <2>1, <2>2
  <1>6. p \in withoutRelaxed(enforced)
    BY <1>3, <1>5 DEF withoutRelaxed
  <1>7. "ask" \in EffectsOf(Deciding(rules, r, context))
    BY <1>6 DEF EffectsOf, Deciding
  <1>8. EffectsOf(Deciding(rules, r, context)) \in SUBSET Effect
    BY DecidingAreRules DEF StateOK
  <1> DEFINE e == strictestOf(EffectsOf(Deciding(rules, r, context)), "allow")
  <1>9. e \in Effect /\ ~isStricter("ask", e)
    BY <1>7, <1>8, StrictestStands DEF Effect
  <1>10. e \in {"ask", "deny"}
    <2> HIDE DEF e
    <2> QED
      BY <1>9, Strictness DEF Effect
  <1>11. askedByWorkspace(Applicable(rules, r, context))
    BY <1>3 DEF askedByWorkspace
  <1> QED
    BY <1>1, <1>10, <1>11, AnswerIs

(* No layer makes an ask or a refusal an allow.                            *)
LEMMA LayersKeepQuestions ==
  ASSUME NEW r, NEW effect \in {"ask", "deny"}
  PROVE  Layered(r, effect) \in {"ask", "deny"}
  BY DEF Layered, effectUnder

(* WorkspaceAskStands, likewise: either another of the line refuses, or    *)
(* the agent's own answer is the first of the strictest, so that it stands *)
(* and brings the workspace's question along.                              *)
LEMMA WorkspaceAskHolds ==
  ASSUME StateOK
  PROVE  WorkspaceAskStands
  <1> DEFINE me == session.agentName
  <1> SUFFICES ASSUME NEW r \in Request, r.action # SHELL_HIDDEN,
                      NEW p \in InForceFor(me, r), p.workspace, p.effect = "ask", ~OnlyExcludes(p),
                      \A q \in InForceFor(me, r) :
                          q.workspace /\ q.effect = "allow" => p.name \notin q.relaxes
               PROVE  ruled(r) # "allow"
    BY DEF WorkspaceAskStands, WorkspaceAsks
  <1> DEFINE own == evaluatedAs(me, rules, r)
             all == evaluated(rules, r)
  <1>1. own.effect = "deny" \/ (own.effect = "ask" /\ askedByWorkspace(own.matched))
    BY AskDecides
  <1>2. all.effect \in Effect /\ ~isStricter(own.effect, all.effect)
    BY StrictestOfTheLine DEF Agents, StateOK
  <1>3. CASE all.effect = "deny"
    <2>1. ruled(r) = "deny"
      BY <1>3, LayersKeepRefusals, RefusalIsFinal DEF ruled
    <2> QED
      BY <2>1
  <1>4. CASE all.effect # "deny"
    <2>1. own.effect = "ask" /\ all.effect = "ask" /\ askedByWorkspace(own.matched)
      <3> HIDE DEF own, all
      <3> QED
        BY <1>1, <1>2, <1>4, Strictness DEF Effect
    <2>2. PICK i \in DOMAIN Line : Stands(rules, r, i) /\ all = evaluatedAs(Line[i], rules, r)
      BY SomebodyStands DEF StateOK
    <2>3. DOMAIN Line = 1 .. Len(Line) /\ Len(Line) \in Nat /\ Line[1] = me
      BY LineOfSession DEF StateOK
    <2>4. i = 1
      <3>1. i # 1 => isStricter(all.effect, own.effect)
        BY <2>2, <2>3 DEF Stands
      <3>2. ~isStricter("ask", "ask")
        BY Strictness DEF Effect
      <3> QED
        BY <2>1, <3>1, <3>2
    <2>5. askedByWorkspace(all.matched)
      BY <2>1, <2>2, <2>3, <2>4
    <2>6. Layered(r, all.effect) \in {"ask", "deny"}
      BY <2>1, LayersKeepQuestions
    <2>7. ruledBy(rules, r) = Layered(r, all.effect)
      BY <2>5, VerdictIs DEF allowedWithin
    <2> QED
      BY <2>6, <2>7 DEF ruled
  <1> QED
    BY <1>3, <1>4

-----------------------------------------------------------------------------
(* One more rule, which relaxes nothing.                                   *)
LEMMA MoreApply ==
  ASSUME NEW held \in SUBSET Rule, NEW p \in Rule, NEW r, NEW context
  PROVE  /\ Applicable(held, r, context) \subseteq Applicable(held \cup {p}, r, context)
         /\ Applicable(held \cup {p}, r, context) \subseteq Applicable(held, r, context) \cup {p}
  <1>1. unindexed(held \cup {p}) \subseteq unindexed(held) \cup {p}
    BY DEF unindexed
  <1>2. unindexed(held) \subseteq unindexed(held \cup {p})
    BY DEF unindexed
  <1>3. \A prefix : byActionPrefix(held, prefix) \subseteq byActionPrefix(held \cup {p}, prefix)
    BY DEF byActionPrefix, unindexed
  <1>4. \A prefix : byActionPrefix(held \cup {p}, prefix) \subseteq byActionPrefix(held, prefix) \cup {p}
    BY DEF byActionPrefix, unindexed
  <1>5. /\ candidates(held, r.action) \subseteq candidates(held \cup {p}, r.action)
        /\ candidates(held \cup {p}, r.action) \subseteq candidates(held, r.action) \cup {p}
    BY <1>1, <1>2, <1>3, <1>4 DEF candidates
  <1> QED
    BY <1>5 DEF Applicable

(* As it relaxes nothing, what decided before decides still.               *)
LEMMA MoreDecide ==
  ASSUME NEW held \in SUBSET Rule, NEW p \in Rule, p.relaxes = {}, NEW r, NEW context
  PROVE  Deciding(held, r, context) \subseteq Deciding(held \cup {p}, r, context)
  <1> DEFINE old == {q \in Applicable(held, r, context) : ~q.observe}
             new == {q \in Applicable(held \cup {p}, r, context) : ~q.observe}
             relaxed(S) == UNION {{layerOf(q, name) : name \in q.relaxes} :
                                    q \in {o \in S : o.effect = "allow"}}
  <1>1. old \subseteq new /\ new \subseteq old \cup {p}
    BY MoreApply
  <1>2. relaxed(new) \subseteq relaxed(old)
    <2> SUFFICES ASSUME NEW x \in relaxed(new) PROVE x \in relaxed(old)
      OBVIOUS
    <2>1. PICK q \in new : q.effect = "allow" /\ \E name \in q.relaxes : x = layerOf(q, name)
      OBVIOUS
    <2>2. q # p
      BY <2>1
    <2>3. q \in old
      BY <1>1, <2>1, <2>2
    <2> QED
      BY <2>1, <2>3
  <1>3. Deciding(held, r, context) = {q \in old : q.effect = "ask" => layerOf(q, q.name) \notin relaxed(old)}
    BY DEF Deciding, withoutRelaxed
  <1>4. Deciding(held \cup {p}, r, context)
          = {q \in new : q.effect = "ask" => layerOf(q, q.name) \notin relaxed(new)}
    BY DEF Deciding, withoutRelaxed
  <1> HIDE DEF old, new, relaxed
  <1> QED
    BY <1>1, <1>2, <1>3, <1>4

(* The strictest of more effects is at least as strict.                    *)
LEMMA StrictestTightens ==
  ASSUME NEW few \in SUBSET Effect, NEW more \in SUBSET Effect, few \subseteq more
  PROVE  ~isStricter(strictestOf(few, "allow"), strictestOf(more, "allow"))
  <1> DEFINE f == strictestOf(few, "allow")
             m == strictestOf(more, "allow")
  <1>1. f \in Effect /\ m \in Effect /\ (few # {} => f \in few) /\ \A e \in more : ~isStricter(e, m)
    BY StrictestStands DEF Effect
  <1>2. few = {} => f = "allow"
    BY DEF strictestOf
  <1> HIDE DEF f, m
  <1> QED
    BY <1>1, <1>2, Strictness DEF f, m

(* So nobody of the line answers more freely than before.                  *)
LEMMA AnswerTightens ==
  ASSUME NEW held \in SUBSET Rule, NEW p \in Rule, p.relaxes = {}, NEW r, NEW agent
  PROVE  /\ ~isStricter(evaluatedAs(agent, held, r).effect, evaluatedAs(agent, held \cup {p}, r).effect)
         /\ evaluatedAs(agent, held, r).matched \subseteq evaluatedAs(agent, held \cup {p}, r).matched
  <1> DEFINE context == [agentName |-> agent, now |-> now,
                         scope |-> scopeOf(session.task, r), state |-> facts]
  <1>1. /\ evaluatedAs(agent, held, r) = evaluate(held, r, context)
        /\ evaluatedAs(agent, held \cup {p}, r) = evaluate(held \cup {p}, r, context)
    BY DEF evaluatedAs
  <1> HIDE DEF context
  <1>2. CASE agentFrozen(context.state, context.agentName)
    BY <1>1, <1>2, AnswerIs, Strictness DEF Effect
  <1>3. CASE ~agentFrozen(context.state, context.agentName)
    <2>1. EffectsOf(Deciding(held, r, context)) \subseteq EffectsOf(Deciding(held \cup {p}, r, context))
      BY MoreDecide DEF EffectsOf
    <2>2. /\ EffectsOf(Deciding(held, r, context)) \in SUBSET Effect
          /\ EffectsOf(Deciding(held \cup {p}, r, context)) \in SUBSET Effect
      BY DecidingAreRules
    <2> QED
      BY <1>1, <1>3, <2>1, <2>2, AnswerIs, StrictestTightens, MoreApply
  <1> QED
    BY <1>2, <1>3

(* At least as strict is transitive.                                       *)
LEMMA NoStricterThanStricter ==
  ASSUME NEW a \in Effect, NEW b \in Effect, NEW c \in Effect, ~isStricter(a, b), ~isStricter(b,
         c)
  PROVE  ~isStricter(a, c)
  BY DEF isStricter, EFFECT_PRECEDENCE, Effect

(* Nor does the line, whoever of it comes to stand.                        *)
LEMMA LineTightens ==
  ASSUME StateOK, NEW p \in Rule, p.relaxes = {}, NEW r \in Request
  PROVE  /\ evaluated(rules, r).effect \in Effect /\ evaluated(rules \cup {p}, r).effect \in Effect
         /\ ~isStricter(evaluated(rules, r).effect, evaluated(rules \cup {p}, r).effect)
  <1> DEFINE more == rules \cup {p}
  <1>1. rules \in SUBSET Rule /\ more \in SUBSET Rule
    BY DEF StateOK
  <1>2. PICK i \in DOMAIN Line : Stands(rules, r, i) /\ evaluated(rules, r) = evaluatedAs(Line[i], rules, r)
    BY <1>1, SomebodyStands
  <1>3. PICK j \in DOMAIN Line : Stands(more, r, j) /\ evaluated(more, r) = evaluatedAs(Line[j], more, r)
    BY <1>1, SomebodyStands
  <1>4. ~isStricter(evaluatedAs(Line[i], more, r).effect, evaluatedAs(Line[j], more, r).effect)
    BY <1>3 DEF Stands
  <1>5. ~isStricter(evaluatedAs(Line[i], rules, r).effect, evaluatedAs(Line[i], more, r).effect)
    BY <1>1, AnswerTightens
  <1>6. \A a : /\ evaluatedAs(a, rules, r).effect \in Effect
               /\ evaluatedAs(a, more, r).effect \in Effect
    BY <1>1, EffectOfAnswer DEF evaluatedAs
  <1> HIDE DEF more
  <1> QED
    BY <1>2, <1>3, <1>4, <1>5, <1>6, NoStricterThanStricter DEF more

(* Containment gives one of the layers' answers, or none.                  *)
LEMMA ContainmentSays ==
  ASSUME NEW r, NEW effect
  PROVE  contained(r, effect) \in Layer \cup {None}
  BY DEF contained, containmentAsk, untrustedSecret, orElse, boundaryAsk, untrustedAsk,
     probationAsk, Layer

(* A stricter effect is no freer under the layers, unless containment had  *)
(* refused what was allowed: it looks at an allow only.                    *)
LEMMA LayersTighten ==
  ASSUME NEW r, NEW e \in Effect, NEW f \in Effect, ~isStricter(e, f), contained(r, e) # "refuse"
  PROVE  /\ Layered(r, e) \in Effect /\ Layered(r, f) \in Effect
         /\ ~isStricter(Layered(r, e), Layered(r, f))
         /\ Layered(r, e) = "deny" => Layered(r, f) = "deny"
  <1>1. Layered(r, e) \in Effect /\ Layered(r, f) \in Effect
    BY DEF Layered, effectUnder, Effect
  <1>2. /\ selfProtection(r) \in {None, "refuse"} /\ hiddenCode(r) \in {None, "ask"}
        /\ offIntent(r, "deny") = None /\ offIntent(r, "ask") = offIntent(r, "allow")
        /\ offIntent(r, "ask") \in {None, "refuse"}
        /\ underStrain(r, "allow") \in {None, "ask"}
        /\ underStrain(r, "ask") = None /\ underStrain(r, "deny") = None
        /\ contained(r, "ask") = None /\ contained(r, "deny") = None
    BY DEF selfProtection, hiddenCode, offIntent, underStrain, contained
  <1>3. CASE e = f
    BY <1>1, <1>3, Strictness
  <1>4. CASE e = "allow" /\ f # "allow"
    <2>1. contained(r, e) \in {None, "ask", "checkpointed"}
      BY ContainmentSays DEF Layer
    <2> QED
      BY <1>1, <1>2, <1>4, <2>1, LayerAssumption, Strictness
         DEF Layered, layerOn, orElse, effectUnder, Effect, Layer
  <1>5. CASE e = "ask" /\ f = "deny"
    BY <1>1, <1>2, <1>5, LayerAssumption, Strictness
       DEF Layered, layerOn, orElse, effectUnder, Effect, Layer
  <1>6. (e = f) \/ (e = "allow" /\ f # "allow") \/ (e = "ask" /\ f = "deny")
    BY Strictness DEF Effect
  <1> QED
    BY <1>3, <1>4, <1>5, <1>6

(* Publishing a rule that relaxes nothing makes no call freer, but for the *)
(* three calls the property names.                                         *)
LEMMA PublishingTightens ==
  ASSUME StateOK, NEW p \in Rule, p.relaxes = {}, NEW r \in Request,
         ~RefusedByContainment(r), ~ParentsQuestion(r), ~OwnQuestion(r)
  PROVE  AtLeastAsStrict(ruledBy(rules \cup {p}, r), ruled(r))
  <1> DEFINE more == rules \cup {p}
             old  == evaluated(rules, r)
             new  == evaluated(more, r)
             before == Layered(r, old.effect)
             after  == Layered(r, new.effect)
  <1>1. old.effect \in Effect /\ new.effect \in Effect /\ ~isStricter(old.effect, new.effect)
    BY LineTightens
  <1>2. /\ before \in Effect /\ after \in Effect /\ ~isStricter(before, after)
        /\ before = "deny" => after = "deny"
    BY <1>1, LayersTighten DEF RefusedByContainment
  <1>3. ruled(r) = IF allowedWithin(r, before, old.matched) THEN "allow" ELSE before
    BY VerdictIs DEF ruled
  <1>4. ruledBy(more, r) = IF allowedWithin(r, after, new.matched) THEN "allow" ELSE after
    BY VerdictIs
  <1>5. ASSUME before = "ask", allowedWithin(r, after, new.matched)
        PROVE  allowedWithin(r, before, old.matched)
    <2>1. allowanceFor(r) # {} /\ after = "ask" /\ ~askedByWorkspace(new.matched)
      BY <1>5 DEF allowedWithin
    <2>2. ASSUME askedByWorkspace(old.matched) PROVE FALSE
      <3>1. rules \in SUBSET Rule /\ more \in SUBSET Rule
        BY DEF StateOK
      <3>2. PICK i \in DOMAIN Line : Stands(rules, r, i) /\ old = evaluatedAs(Line[i], rules, r)
        BY <3>1, SomebodyStands
      <3>3. PICK j \in DOMAIN Line : Stands(more, r, j) /\ new = evaluatedAs(Line[j], more, r)
        BY <3>1, SomebodyStands
      <3>4. /\ DOMAIN Line = 1 .. Len(Line) /\ Len(Line) \in Nat /\ Line[1] = session.agentName
            /\ \A k \in 2 .. Len(Line) : k - 1 \in DOMAIN session.parents
                                        /\ Line[k] = session.parents[k - 1]
        BY LineOfSession DEF StateOK
      <3>5. i = 1
        <4>1. i # 1 => Line[i] \in Range(session.parents)
          BY <3>2, <3>4 DEF Range
        <4>2. Line[i] \notin Range(session.parents)
          BY <2>2, <3>2 DEF ParentsQuestion
        <4> QED
          BY <4>1, <4>2
      <3>6. j # 1
        <4>1. j = 1 => old.matched \subseteq new.matched
          <5>1. evaluatedAs(Line[1], rules, r).matched \subseteq evaluatedAs(Line[1], more, r).matched
            BY <3>1, AnswerTightens
          <5> HIDE DEF more, old, new
          <5> QED
            BY <3>2, <3>3, <3>5, <5>1
        <4> QED
          BY <2>1, <2>2, <4>1 DEF askedByWorkspace
      <3>7. isStricter(new.effect, evaluatedAs(session.agentName, more, r).effect)
        <4>1. 1 \in 1 .. (j - 1)
          BY <3>3, <3>4, <3>6
        <4>2. isStricter(evaluatedAs(Line[j], more, r).effect, evaluatedAs(Line[1], more, r).effect)
          BY <3>3, <4>1 DEF Stands
        <4> HIDE DEF more, new
        <4> QED
          BY <3>3, <3>4, <4>2
      <3>8. r.action # SHELL_HIDDEN => new.effect # "deny"
        BY <2>1, LayersKeepRefusals
      <3>9. r.action # SHELL_HIDDEN => evaluatedAs(session.agentName, rules, r).effect = "allow"
        <4> DEFINE own  == evaluatedAs(session.agentName, rules, r).effect
                   then == evaluatedAs(session.agentName, more, r).effect
        <4>1. own \in Effect /\ then \in Effect
          BY <3>1, EffectOfAnswer DEF evaluatedAs
        <4>2. ~isStricter(own, then)
          BY <3>1, AnswerTightens
        <4> HIDE DEF own, then, new
        <4>3. r.action # SHELL_HIDDEN => then = "allow"
          BY <1>1, <3>7, <3>8, <4>1, Strictness DEF Effect, then
        <4>4. r.action # SHELL_HIDDEN => own = "allow"
          BY <4>1, <4>2, <4>3, Strictness DEF Effect
        <4> QED
          BY <4>4 DEF own
      <3>10. session.parents # <<>>
        BY <3>3, <3>4, <3>6
      <3> QED
        <4>1. old = evaluatedAs(session.agentName, rules, r)
          BY <3>2, <3>4, <3>5
        <4> HIDE DEF old
        <4> QED
          BY <2>2, <3>9, <3>10, <4>1 DEF OwnQuestion
    <2> QED
      BY <1>5, <2>1, <2>2 DEF allowedWithin
  <1> HIDE DEF before, after, old, new, more
  <1>6. CASE allowedWithin(r, before, old.matched)
    <2>1. \A e \in Effect : ~isStricter("allow", e)
      BY Strictness
    <2>2. ruledBy(more, r) \in Effect
      BY <1>2, <1>4 DEF Effect
    <2> QED
      BY <1>3, <1>6, <2>1, <2>2 DEF AtLeastAsStrict, more
  <1>7. CASE ~allowedWithin(r, before, old.matched)
    <2>1. CASE before = "ask"
      BY <1>2, <1>3, <1>4, <1>5, <1>7, <2>1 DEF AtLeastAsStrict, more
    <2>2. CASE before = "deny"
      <3>1. ruledBy(more, r) = "deny"
        BY <1>2, <1>4, <2>2 DEF allowedWithin
      <3> QED
        BY <3>1, <1>3, <1>7, <2>2, Strictness DEF AtLeastAsStrict, more, Effect
    <2>3. CASE before = "allow"
      <3>1. \A e \in Effect : ~isStricter("allow", e)
        BY Strictness
      <3>2. ruledBy(more, r) \in Effect
        BY <1>2, <1>4 DEF Effect
      <3> QED
        BY <1>3, <1>7, <2>3, <3>1, <3>2 DEF AtLeastAsStrict, more
    <2> QED
      BY <1>2, <2>1, <2>2, <2>3 DEF Effect
  <1> QED
    BY <1>6, <1>7

-----------------------------------------------------------------------------
(***************************************************************************)
(* Windows: hours and days by division, and back.                          *)
(***************************************************************************)
(* A number is its quotient and its remainder.                             *)
LEMMA Divides ==
  ASSUME NEW x \in Int, NEW n \in Nat \ {0}
  PROVE  x = n * (x \div n) + (x % n) /\ x % n \in 0..(n - 1) /\ x \div n \in Int
  OBVIOUS

(* Multiplying by a natural number keeps the order.                        *)
LEMMA TimesKeepsOrder ==
  ASSUME NEW n \in Nat, NEW a \in Int, NEW b \in Int, a <= b
  PROVE  n * a <= n * b
  OBVIOUS

(* No number has two quotients or two remainders.                          *)
LEMMA DividesOneWay ==
  ASSUME NEW n \in Nat \ {0}, NEW q \in Int, NEW p \in Int,
         NEW r \in 0..(n - 1), NEW s \in 0..(n - 1), n * q + r = n * p + s
  PROVE  q = p /\ r = s
  <1>1. CASE q < p
    <2>1. n * (q + 1) <= n * p
      BY <1>1, TimesKeepsOrder
    <2>2. n * (q + 1) = n * q + n
      OBVIOUS
    <2> QED
      BY <2>1, <2>2
  <1>2. CASE p < q
    <2>1. n * (p + 1) <= n * q
      BY <1>2, TimesKeepsOrder
    <2>2. n * (p + 1) = n * p + n
      OBVIOUS
    <2> QED
      BY <2>1, <2>2
  <1>3. CASE p = q
    BY <1>3
  <1> QED
    BY <1>1, <1>2, <1>3

(* So what was put together comes apart again.                             *)
LEMMA ComesApart ==
  ASSUME NEW n \in Nat \ {0}, NEW q \in Int, NEW r \in 0..(n - 1)
  PROVE  (n * q + r) % n = r /\ (n * q + r) \div n = q
  <1> DEFINE x == n * q + r
  <1>1. x \in Int
    OBVIOUS
  <1>2. n * q + r = n * (x \div n) + (x % n) /\ x % n \in 0..(n - 1) /\ x \div n \in Int
    BY <1>1, Divides
  <1> DEFINE p == x \div n
             s == x % n
  <1> HIDE DEF x, p, s
  <1>3. n * q + r = n * p + s /\ s \in 0..(n - 1) /\ p \in Int
    BY <1>2 DEF p, s
  <1>4. q = p /\ r = s
    BY <1>3, DividesOneWay
  <1> QED
    BY <1>4 DEF p, s, x

(* An hour of a day of the week is an hour of the week.                    *)
LEMMA HourOfWeek ==
  ASSUME NEW h \in Nat \ {0}, NEW d \in Nat \ {0}, NEW day \in 0..(d - 1), NEW hour \in 0..(h - 1)
  PROVE  h * day + hour \in 0..(h * d - 1)
  <1>1. h * day <= h * (d - 1)
    BY TimesKeepsOrder
  <1>2. h * (d - 1) = h * d - h
    OBVIOUS
  <1>3. 0 <= h * day
    BY TimesKeepsOrder
  <1>4. h * day \in Int /\ h * d \in Int
    OBVIOUS
  <1> QED
    BY <1>1, <1>2, <1>3, <1>4

(* And back: an hour of the week is an hour of one of its days.            *)
LEMMA DayOfHour ==
  ASSUME NEW h \in Nat \ {0}, NEW d \in Nat \ {0}, NEW x \in 0..(h * d - 1)
  PROVE  /\ x \div h \in 0..(d - 1) /\ x % h \in 0..(h - 1)
         /\ x = h * (x \div h) + (x % h)
  <1>1. h * d \in Int /\ x \in Int
    OBVIOUS
  <1>2. x = h * (x \div h) + (x % h) /\ x % h \in 0..(h - 1) /\ x \div h \in Int
    BY <1>1, Divides
  <1> DEFINE day == x \div h
  <1> HIDE DEF day
  <1>3. day >= 0
    <2> SUFFICES ASSUME day <= -1 PROVE FALSE
      BY <1>2 DEF day
    <2>1. h * day <= h * (-1)
      BY <1>2, TimesKeepsOrder DEF day
    <2>2. h * (-1) = -h /\ h * day \in Int
      BY <1>2 DEF day
    <2> QED
      BY <1>2, <2>1, <2>2 DEF day
  <1>4. day <= d - 1
    <2> SUFFICES ASSUME d <= day PROVE FALSE
      BY <1>2 DEF day
    <2>1. h * d <= h * day
      BY <1>2, TimesKeepsOrder DEF day
    <2>2. h * day \in Int
      BY <1>2 DEF day
    <2> QED
      BY <1>1, <1>2, <2>1, <2>2 DEF day
  <1> QED
    BY <1>2, <1>3, <1>4 DEF day

(* matchesTimeWindow is membership in the window, for days of any length   *)
(* and weeks of any number of them.                                        *)
LEMMA WindowHours ==
  ASSUME NEW window \in Window, NEW at \in Int
  PROVE  matchesTimeWindow(window, at) <=> InWindow(window, at)
  <1> DEFINE H == HOURS_IN_A_DAY
             D == DAYS_PER_WEEK
             week == H * D
             shifted == (at + window.utcOffset) % week
             hour == shifted % H
             day == shifted \div H
             start == window.startHour
             end == window.endHour
             days == IF window.days = {} THEN 0..(D - 1) ELSE window.days
             length == IF start < end THEN end - start ELSE end - start + H
             yesterday == (day - 1 + D) % D
  <1>1. H \in Nat \ {0} /\ D \in Nat \ {0}
    BY CalendarAssumption
  <1>2. /\ start \in 0..(H - 1) /\ end \in 1..H /\ window.utcOffset \in Int
        /\ window.days \subseteq 0..(D - 1)
    BY DEF Window
  <1>3. week \in Nat \ {0}
    <2>1. H * 1 <= H * D
      BY <1>1, TimesKeepsOrder
    <2> QED
      BY <1>1, <2>1
  <1>4. shifted \in 0..(week - 1)
    <2> DEFINE w == week
               y == at + window.utcOffset
    <2>1. w \in Nat \ {0} /\ y \in Int
      BY <1>2, <1>3
    <2> HIDE DEF w, y
    <2>2. y % w \in 0..(w - 1)
      BY <2>1, Divides
    <2> QED
      BY <2>2 DEF w, y
  <1>5. day \in 0..(D - 1) /\ hour \in 0..(H - 1) /\ shifted = H * day + hour
    BY <1>1, <1>4, DayOfHour
  <1>6. matchesTimeWindow(window, at) <=>
          \/ start < end /\ start <= hour /\ hour < end /\ day \in days
          \/ start >= end /\ start <= hour /\ day \in days
          \/ start >= end /\ hour < end /\ yesterday \in days
    <2>1. yesterday \in 0..(D - 1)
      <3> DEFINE y == day - 1 + D
      <3> HIDE DEF day
      <3>1. y \in Int
        BY <1>1, <1>5
      <3> HIDE DEF y
      <3>2. y % D \in 0..(D - 1)
        BY <1>1, <3>1, Divides
      <3> QED
        BY <3>2 DEF y
    <2>2. matchesTimeWindow(window, at) <=>
            /\ IF start >= end THEN hour >= start \/ hour < end ELSE hour >= start /\ hour < end
            /\ \/ window.days = {}
               \/ (IF start >= end /\ hour < end THEN yesterday ELSE day) \in window.days
      BY DEF matchesTimeWindow
    <2> HIDE DEF yesterday, day, hour, start, end
    <2> QED
      BY <1>2, <1>5, <2>1, <2>2
  <1>7. InWindow(window, at) <=>
          \E d \in days, elapsed \in 0..(length - 1) : shifted = (d * H + start + elapsed) % week
    BY DEF InWindow
  <1>8. days \subseteq 0..(D - 1)
    BY <1>2
  \* The same day's hours.
  <1>9. \A d \in 0..(D - 1), t \in 0..(H - 1) :
          /\ (d * H + t) % week = d * H + t
          /\ shifted = d * H + t <=> day = d /\ hour = t
    <2> SUFFICES ASSUME NEW d \in 0..(D - 1), NEW t \in 0..(H - 1)
                 PROVE  /\ (d * H + t) % week = d * H + t
                        /\ shifted = d * H + t <=> day = d /\ hour = t
      OBVIOUS
    <2>1. d * H = H * d
      BY <1>1
    <2>2. H * d + t \in 0..(week - 1)
      BY <1>1, HourOfWeek
    <2>3. (week * 0 + (H * d + t)) % week = H * d + t
      BY <1>3, <2>2, ComesApart
    <2>4. week * 0 + (H * d + t) = H * d + t
      BY <1>1, <1>3
    <2>5. shifted = H * d + t => day = d /\ hour = t
      <3> HIDE DEF day, hour, shifted, week
      <3> QED
        BY <1>1, <1>5, DividesOneWay
    <2>6. day = d /\ hour = t => shifted = H * d + t
      <3> HIDE DEF day, hour, shifted
      <3> QED
        BY <1>5
    <2> QED
      BY <2>1, <2>3, <2>4, <2>5, <2>6
  \* The day before.
  <1>10. yesterday = IF day = 0 THEN D - 1 ELSE day - 1
    <2> DEFINE k == IF day = 0 THEN D - 1 ELSE day - 1
               m == IF day = 0 THEN 0 ELSE 1
    <2>1. k \in 0..(D - 1) /\ m \in Int
      <3> HIDE DEF day
      <3> QED
        BY <1>1, <1>5
    <2>2. day - 1 + D = D * m + k
      <3> HIDE DEF day
      <3> QED
        BY <1>1, <1>5
    <2> HIDE DEF k, m, day
    <2>3. (D * m + k) % D = k
      BY <1>1, <2>1, ComesApart
    <2> QED
      BY <2>2, <2>3 DEF k
  <1>11. H <= week
    <2>1. H * 1 <= H * D
      BY <1>1, TimesKeepsOrder
    <2> QED
      BY <1>1, <2>1
  \* The hours after the midnight of day d.
  <1>12. \A d \in 0..(D - 1), t \in 0..(H - 1) :
           shifted = (d * H + H + t) % week <=> yesterday = d /\ hour = t
    <2> SUFFICES ASSUME NEW d \in 0..(D - 1), NEW t \in 0..(H - 1)
                 PROVE  shifted = (d * H + H + t) % week <=> yesterday = d /\ hour = t
      OBVIOUS
    <2>1. d * H + H = (d + 1) * H
      BY <1>1
    <2>2. CASE d < D - 1
      <3>1. d + 1 \in 0..(D - 1)
        BY <1>1, <2>2
      <3>2. /\ (d * H + H + t) % week = (d + 1) * H + t
            /\ shifted = (d + 1) * H + t <=> day = d + 1 /\ hour = t
        BY <1>9, <2>1, <3>1
      <3>3. yesterday = d <=> day = d + 1
        <4> HIDE DEF yesterday, day
        <4> QED
          BY <1>1, <1>5, <1>10, <2>2
      <3> QED
        BY <3>2, <3>3
    <2>3. CASE d = D - 1
      <3>1. d * H + H = week
        BY <1>1, <2>1, <2>3
      <3>2. (d * H + H + t) % week = 0 * H + t
        <4>1. t \in 0..(week - 1)
          BY <1>1, <1>11
        <4>2. week * 1 + t = d * H + H + t /\ 0 * H + t = t
          BY <1>1, <1>3, <3>1
        <4> DEFINE w == week
        <4>3. w \in Nat \ {0}
          BY <1>3
        <4> HIDE DEF w
        <4>4. (w * 1 + t) % w = t
          BY <4>1, <4>3, ComesApart DEF w
        <4> QED
          BY <4>2, <4>4 DEF w
      <3>3. shifted = 0 * H + t <=> day = 0 /\ hour = t
        BY <1>1, <1>9
      <3>4. yesterday = d <=> day = 0
        <4> HIDE DEF yesterday, day
        <4> QED
          BY <1>1, <1>5, <1>10, <2>3
      <3> QED
        BY <3>2, <3>3, <3>4
    <2> QED
      BY <1>1, <2>2, <2>3
  <1> HIDE DEF shifted, hour, day, start, end, days, yesterday
  <1>13. ASSUME matchesTimeWindow(window, at) PROVE InWindow(window, at)
    <2>1. CASE start <= hour /\ day \in days /\ (start < end => hour < end)
      <3>1. hour - start \in 0..(length - 1)
        BY <1>1, <1>2, <1>5, <2>1 DEF start, end
      <3>2. day * H + start + (hour - start) = day * H + hour
        BY <1>1, <1>2, <1>5 DEF start
      <3>3. shifted = (day * H + hour) % week
        BY <1>5, <1>9
      <3> QED
        BY <1>7, <2>1, <3>1, <3>2, <3>3
    <2>2. CASE start >= end /\ hour < end /\ yesterday \in days
      <3>1. hour + H - start \in 0..(length - 1)
        BY <1>1, <1>2, <1>5, <2>2 DEF start, end
      <3>2. yesterday * H + start + (hour + H - start) = yesterday * H + H + hour
        <4>1. yesterday * H \in Int
          BY <1>1, <1>8, <2>2
        <4> QED
          BY <1>1, <1>2, <1>5, <4>1 DEF start
      <3>3. shifted = (yesterday * H + H + hour) % week
        BY <1>5, <1>8, <1>12, <2>2
      <3> QED
        BY <1>7, <2>2, <3>1, <3>2, <3>3
    <2> QED
      BY <1>2, <1>5, <1>6, <1>13, <2>1, <2>2 DEF start, end
  <1>14. ASSUME NEW d \in days, NEW elapsed \in 0..(length - 1),
                shifted = (d * H + start + elapsed) % week
         PROVE  matchesTimeWindow(window, at)
    <2> DEFINE t == start + elapsed
    <2>1. /\ d \in 0..(D - 1) /\ t \in Int /\ start <= t
          /\ start < end => t < end
          /\ start >= end => t < end + H
      BY <1>1, <1>2, <1>8 DEF start, end
    <2>2. d * H + start + elapsed = d * H + t /\ d * H \in Int
      BY <1>1, <1>2, <2>1 DEF start, end
    <2> HIDE DEF t
    <2>3. CASE t < H
      <3>1. t \in 0..(H - 1)
        <4>1. start \in Int /\ 0 <= start
          BY <1>1, <1>2
        <4> QED
          BY <1>1, <2>1, <2>3, <4>1
      <3>2. day = d /\ hour = t
        BY <1>9, <1>14, <2>1, <2>2, <3>1
      <3> QED
        BY <1>2, <1>5, <1>6, <2>1, <3>2 DEF start, end
    <2>4. CASE t >= H
      <3>1. t - H \in 0..(H - 1) /\ start >= end /\ t - H < end
        BY <1>1, <1>2, <2>1, <2>4 DEF start, end
      <3>2. d * H + t = d * H + H + (t - H)
        BY <1>1, <2>1, <2>2
      <3>3. yesterday = d /\ hour = t - H
        BY <1>12, <1>14, <2>1, <2>2, <3>1, <3>2
      <3> QED
        BY <1>6, <3>1, <3>3
    <2> QED
      BY <1>1, <2>1, <2>3, <2>4
  <1> QED
    BY <1>7, <1>13, <1>14

-----------------------------------------------------------------------------
(***************************************************************************)
(* Whatever people, the workspace and time change under the gate.          *)
(***************************************************************************)
GateInv ==
    /\ rules \subseteq Rule /\ IsFiniteSet(rules) /\ Cardinality(rules) <= MaxRules
    /\ facts \subseteq Fact
    /\ now \in 0..(HOURS_IN_A_DAY * DAYS_PER_WEEK - 1)
    /\ \A a \in allowances : [a EXCEPT !.revoked = FALSE] \in Allowance
    /\ session \in Session

(* The gate starts with no rules, no facts and no allowances.              *)
LEMMA InitGateInv == Init => GateInv
  <1> SUFFICES ASSUME Init PROVE GateInv
    OBVIOUS
  <1>1. IsFiniteSet(rules) /\ Cardinality(rules) = 0
    BY FS_EmptySet DEF Init
  <1>2. HOURS_IN_A_DAY * DAYS_PER_WEEK \in Nat \ {0}
    <2>1. HOURS_IN_A_DAY * 1 <= HOURS_IN_A_DAY * DAYS_PER_WEEK
      BY CalendarAssumption, TimesKeepsOrder
    <2> QED
      BY CalendarAssumption, <2>1
  <1>3. now \in 0..(HOURS_IN_A_DAY * DAYS_PER_WEEK - 1)
    BY <1>2 DEF Init
  <1> QED
    BY <1>1, <1>3, BoundAssumption DEF Init, GateInv

(* No change under the gate takes it out of shape.                         *)
LEMMA GateInvStep == GateInv /\ [Next]_vars => GateInv'
  <1> SUFFICES ASSUME GateInv, [Next]_vars PROVE GateInv'
    OBVIOUS
  <1>1. ASSUME NEW p \in Rule, RulePublished(p) PROVE GateInv'
    <2>1. IsFiniteSet(rules') /\ Cardinality(rules') = Cardinality(rules) + 1
      BY <1>1, FS_AddElement DEF RulePublished, GateInv
    <2>2. Cardinality(rules) \in Nat
      BY FS_CardinalityType DEF GateInv
    <2>3. Cardinality(rules') <= MaxRules
      BY <1>1, <2>1, <2>2, BoundAssumption DEF RulePublished
    <2> QED
      BY <1>1, <2>1, <2>3 DEF RulePublished, GateInv
  <1>2. ASSUME NEW f \in Fact, FactChanges(f) PROVE GateInv'
    BY <1>2 DEF FactChanges, GateInv
  <1>3. ASSUME NEW a \in Allowance, Allowed(a) PROVE GateInv'
    BY <1>3, AllowanceAssumption DEF Allowed, GateInv
  <1>4. ASSUME NEW a \in Allowance, Revoked(a) PROVE GateInv'
    <2>1. [[a EXCEPT !.revoked = TRUE] EXCEPT !.revoked = FALSE] = a
      BY AllowanceAssumption
    <2> QED
      BY <1>4, <2>1 DEF Revoked, GateInv
  <1>5. CASE Tick
    <2> DEFINE week == HOURS_IN_A_DAY * DAYS_PER_WEEK
    <2>1. week \in Int
      BY CalendarAssumption
    <2>2. now \in 0..(week - 1) /\ now + 1 < week
      BY <1>5 DEF Tick, GateInv
    <2> HIDE DEF week
    <2>3. now + 1 \in 0..(week - 1)
      BY <2>1, <2>2
    <2> QED
      BY <1>5, <2>3 DEF Tick, GateInv, week
  <1>6. CASE UNCHANGED vars
    BY <1>6 DEF vars, GateInv
  <1> QED
    BY <1>1, <1>2, <1>3, <1>4, <1>5, <1>6 DEF Next

(* So the gate never leaves the states it can rule in.                     *)
LEMMA GateInvariant == Spec => []GateInv
  BY InitGateInv, GateInvStep, PTL DEF Spec

(* Every call meets one of the three effects, whatever is published,       *)
(* allowed, revoked or in force.                                           *)
THEOREM GateTypeCorrect == Spec => []TypeOK
  <1>1. ASSUME GateInv, NEW r \in Request PROVE ruled(r) \in Effect
    <2> DEFINE answer == evaluated(rules, r)
               effect == Layered(r, answer.effect)
    <2>1. rules \in SUBSET Rule /\ StateOK
      BY <1>1 DEF GateInv, StateOK
    <2>2. answer.effect \in Effect
      BY <2>1, StrictestOfTheLine DEF Agents
    <2>3. effect \in Effect
      <3> HIDE DEF answer
      <3> QED
        BY <2>2 DEF Layered, effectUnder, Effect
    <2>4. ruled(r) \in {"allow", effect}
      BY VerdictIs DEF ruled
    <2> QED
      BY <2>3, <2>4 DEF Effect
  <1>2. GateInv => TypeOK
    BY <1>1 DEF GateInv, TypeOK
  <1> QED
    BY <1>2, GateInvariant, PTL

(* candidates() in policy-engine.ts is a superset, never a filter: the     *)
(* index by first segment drops no rule that matches a call.               *)
THEOREM IndexMissesNothing == Spec => []NoMatchIsFilteredOut
  <1>1. GateInv => NoMatchIsFilteredOut
    BY NothingFilteredOut DEF GateInv, StateOK
  <1> QED
    BY <1>1, GateInvariant, PTL

(* A deny in force for anyone of the line, a freeze on one of them and     *)
(* self-protection end in a refusal that nothing relaxes and no allowance  *)
(* answers.                                                                *)
THEOREM RefusalsAreFinal == Spec => []RefusalsStand
  <1>1. GateInv => RefusalsStand
    BY RefusalsHold DEF GateInv, StateOK
  <1> QED
    BY <1>1, GateInvariant, PTL

(* What the workspace asks about is never simply allowed by anything on    *)
(* this machine, an allowance of the local gate included.                  *)
THEOREM WorkspaceIsAsked == Spec => []WorkspaceAskStands
  <1>1. GateInv => WorkspaceAskStands
    BY WorkspaceAskHolds DEF GateInv, StateOK
  <1> QED
    BY <1>1, GateInvariant, PTL

(* At every hour, for every length of day and week and every offset, the   *)
(* test of matchesTimeWindow() is membership in the window.                *)
THEOREM WindowsAreTheirHours == Spec => []WindowIsItsHours
  <1>1. ASSUME GateInv PROVE WindowIsItsHours
    <2>1. now \in Int
      BY <1>1 DEF GateInv
    <2>2. \A p \in rules : p.windows \subseteq Window
      BY <1>1, RuleAssumption DEF GateInv
    <2> QED
      BY <2>1, <2>2, WindowHours DEF WindowIsItsHours
  <1> QED
    BY <1>1, GateInvariant, PTL

(* Publishing one more rule that relaxes nothing never makes a call freer, *)
(* but for the calls PublishingOnlyTightens names.                         *)
THEOREM MoreRulesOnlyTighten == Spec => PublishingOnlyTightens
  <1> DEFINE Tightens ==
               \A p \in rules' \ rules : p.relaxes = {} =>
                  \A r \in Request :
                      \/ AtLeastAsStrict(ruledBy(rules \cup {p}, r), ruled(r))
                      \/ RefusedByContainment(r)
                      \/ ParentsQuestion(r)
                      \/ OwnQuestion(r)
  <1>1. GateInv /\ [Next]_vars => [Tightens]_vars
    <2> SUFFICES ASSUME GateInv, Next, NEW p \in rules' \ rules, p.relaxes = {},
                        NEW r \in Request,
                        ~RefusedByContainment(r), ~ParentsQuestion(r), ~OwnQuestion(r)
                 PROVE  AtLeastAsStrict(ruledBy(rules \cup {p}, r), ruled(r))
      OBVIOUS
    <2>1. p \in Rule
      BY DEF Next, RulePublished, FactChanges, Allowed, Revoked, Tick
    <2>2. StateOK
      BY DEF GateInv, StateOK
    <2> QED
      BY <2>1, <2>2, PublishingTightens
  <1> QED
    BY <1>1, GateInvariant, PTL DEF Spec, PublishingOnlyTightens

-----------------------------------------------------------------------------
(***************************************************************************)
(* The second look at what the rules allowed, by every process of the      *)
(* session at once.                                                        *)
(***************************************************************************)
(* Where a call is still allowed and looked at.                            *)
Looked == {"turning", "turned", "looking", "deciding"}

(* What a process in mode m holds that is true of the call it rules on,    *)
(* with t the time and gone what has gone ahead or was answered yes.       *)
HeldOK(held, t, gone, m) ==
    /\ held.time <= t
    /\ held.known \subseteq gone
    /\ held.at \notin {"idle", "answered", "tainting", "clearing"} => held.call \in Considered
    /\ held.at \in Looked
          => held.verdict.effect = "allow" /\ held.verdict.shadow # "deny" /\ m # "off"
    /\ \A r \in held.todo : r.key \in gone \cup {Nothing}
    /\ held.at = "learning" => held.call.key \in gone \cup {Nothing}
    /\ held.at = "turned" => turnStep(held.call, held.copy) # Nothing
    /\ held.at = "lapsing" => lapsedTaint(held.copy, held.time)

SeamsOK == \A s \in Seam : HeldOK(seam[s], clock, earned, mode[s])

(* Until a write is lost, the session's file says what was taken last and  *)
(* until when the session is under suspicion, or that this has passed.     *)
FileTells ==
    /\ signals.acquired = took
    /\ signals.taint = tainted \/ (signals.taint = 0 /\ tainted < clock)

NoticeInv ==
    /\ NoticeTypeOK
    /\ clock >= 1
    /\ SeamsOK
    /\ seen \subseteq earned
    /\ ~lost => FileTells

(* Nothing held is the least a process can hold.                           *)
LEMMA IdleHolds ==
  /\ emptySignals \in Signals /\ Idle \in Held
  /\ \A t \in Time : \A gone, m : HeldOK(Idle, t, gone, m)
  /\ \A e \in {"allow", "ask"} : Given(e) \in [effect : Effects, shadow : Effects]
  <1>1. emptySignals \in Signals
    BY NoticeAssumption DEF emptySignals, Signals, Time
  <1>2. \A e \in {"allow", "ask"} : Given(e) \in [effect : Effects, shadow : Effects]
    BY DEF Given, Effects
  <1>3. Idle \in Held
    BY <1>1, <1>2, NoticeAssumption DEF Idle, Held, Time
  <1>4. \A t \in Time : \A gone, m : HeldOK(Idle, t, gone, m)
    BY NoticeAssumption DEF Idle, HeldOK, Looked, Time
  <1> QED
    BY <1>1, <1>2, <1>3, <1>4

(* A process that goes on leaves what the others hold true.                *)
LEMMA OneGoes ==
  ASSUME seam \in [Seam -> Held], SeamsOK, clock \in Time,
         clock' \in Time, clock <= clock',
         earned \subseteq earned', NEW s \in Seam, NEW held, Goes(s, held),
         \A q \in Seam \ {s} : mode'[q] = mode[q],
         held.at # "idle" => held \in Held /\ HeldOK(held, clock', earned', mode'[s])
  PROVE  seam' \in [Seam -> Held] /\ SeamsOK'
  <1> DEFINE new == IF held.at = "idle" THEN Idle ELSE held
  <1>1. new \in Held /\ HeldOK(new, clock', earned', mode'[s])
    BY IdleHolds
  <1>2. seam' = [seam EXCEPT ![s] = new]
    BY DEF Goes
  <1> HIDE DEF new
  <1>3. seam' \in [Seam -> Held]
    BY <1>1, <1>2
  <1>4. ASSUME NEW q \in Seam PROVE HeldOK(seam'[q], clock', earned', mode'[q])
    <2>1. CASE q = s
      BY <1>1, <1>2, <2>1
    <2>2. CASE q # s
      <3>1. seam'[q] = seam[q] /\ mode'[q] = mode[q]
        BY <1>2, <2>2
      <3>2. HeldOK(seam[q], clock, earned, mode[q]) /\ seam[q].time \in Time
        BY DEF SeamsOK, Held
      <3> QED
        BY <3>1, <3>2 DEF HeldOK, Time
    <2> QED
      BY <2>1, <2>2
  <1> QED
    BY <1>3, <1>4 DEF SeamsOK

(* What a write of the session's file comes to: until one is lost, it is   *)
(* the file as its writer read it, changed as the writer meant.            *)
LEMMA WriteTells ==
  ASSUME NoticeTypeOK, NEW copied, NEW written \in Signals,
         writeSignals(copied, written)
  PROVE  /\ signals' \in Signals /\ fails' \in 0..MaxFails /\ lost' \in BOOLEAN
         /\ ~lost' => ~lost /\ signals = copied /\ signals' = written
  <1>1. signals' \in Signals /\ lost' \in BOOLEAN
    BY Zenon DEF writeSignals, NoticeTypeOK
  <1>2. fails' \in 0..MaxFails
    BY NoticeAssumption DEF writeSignals, NoticeTypeOK
  <1>3. ~lost' => ~lost /\ signals = copied /\ signals' = written
    BY Zenon DEF writeSignals
  <1> QED
    BY <1>1, <1>2, <1>3

(* turnStep() counts a read or marks the change, and moves nothing else.   *)
LEMMA TurnKeeps ==
  ASSUME NEW r, NEW sig \in Signals, turnStep(r, sig) # Nothing
  PROVE  /\ turnStep(r, sig) \in Signals
         /\ turnStep(r, sig).acquired = sig.acquired /\ turnStep(r, sig).taint = sig.taint
  <1>1. CASE turnStep(r, sig) = [sig EXCEPT !.reads = @ + 1] /\ sig.reads < TURN_AFTER_READS
    BY <1>1, NoticeAssumption DEF Signals
  <1>2. CASE turnStep(r, sig) = [sig EXCEPT !.changed = TRUE]
    BY <1>2, Zenon DEF Signals
  <1> QED
    BY <1>1, <1>2 DEF turnStep

(* withoutTaint() keeps what was acquired.                                 *)
LEMMA WithoutTaintKeeps ==
  ASSUME NEW sig \in Signals
  PROVE  /\ withoutTaint(sig) \in Signals
         /\ withoutTaint(sig).acquired = sig.acquired /\ withoutTaint(sig).taint = 0
  <1>1. sig.acquired \in Time
    BY DEF Signals
  <1>2. withoutTaint(sig) \in Signals
    BY <1>1, IdleHolds, Zenon DEF withoutTaint, Signals
  <1> QED
    BY <1>2 DEF withoutTaint, emptySignals

(* Nothing has happened yet.                                               *)
LEMMA InitNoticeInv == NoticeInit => NoticeInv
  <1> SUFFICES ASSUME NoticeInit PROVE NoticeInv
    OBVIOUS
  <1>1. clock \in Time /\ clock >= 1 /\ took \in Time /\ tainted \in 0..(MaxTime + TAINT_WINDOW)
    BY NoticeAssumption DEF NoticeInit, Time
  <1>2. fails \in 0..MaxFails /\ begun \in 0..MaxBegun
    BY NoticeAssumption DEF NoticeInit
  <1>3. seam \in [Seam -> Held] /\ SeamsOK
    BY <1>1, IdleHolds DEF NoticeInit, SeamsOK
  <1>4. /\ signals \in Signals /\ lost \in BOOLEAN /\ warmEnd \in {0, 1}
        /\ mode \in [Seam -> Mode] /\ asked \in [Seam -> SUBSET Considered]
    BY IdleHolds, Zenon DEF NoticeInit
  <1>5. NoticeTypeOK
    BY <1>1, <1>2, <1>3, <1>4 DEF NoticeInit, NoticeTypeOK
  <1>6. FileTells
    BY DEF NoticeInit, FileTells, emptySignals
  <1> QED
    BY <1>1, <1>3, <1>5, <1>6 DEF NoticeInv, NoticeInit

-----------------------------------------------------------------------------
(* A step that leaves the files alone, one that only reads, and one that   *)
(* changes the session's file: what is left to show of each.               *)
LEMMA SteppingKeeps ==
  ASSUME NoticeInv, SameFiles, UNCHANGED <<tainted, took, lost>>, begun' \in 0..MaxBegun,
         mode' \in [Seam -> Mode], asked' \in [Seam -> SUBSET Considered],
         earned \subseteq earned', earned' \subseteq Key,
         NEW s \in Seam, NEW held, Goes(s, held),
         \A q \in Seam \ {s} : mode'[q] = mode[q],
         held.at # "idle" => held \in Held /\ HeldOK(held, clock, earned', mode'[s])
  PROVE  NoticeInv'
  <1>1. /\ signals' = signals /\ seen' = seen /\ warmEnd' = warmEnd /\ clock' = clock /\ fails' = fails
        /\ tainted' = tainted /\ took' = took /\ lost' = lost
    BY DEF SameFiles
  <1>2. seam \in [Seam -> Held] /\ SeamsOK /\ clock \in Time /\ clock <= clock
    BY DEF NoticeInv, NoticeTypeOK, Time
  <1>3. seam' \in [Seam -> Held] /\ SeamsOK'
    BY <1>1, <1>2, OneGoes
  <1>4. NoticeTypeOK'
    BY <1>1, <1>3 DEF NoticeInv, NoticeTypeOK
  <1>5. ~lost' => FileTells'
    BY <1>1 DEF NoticeInv, FileTells
  <1>6. seen' \subseteq earned' /\ clock' >= 1
    BY <1>1 DEF NoticeInv
  <1> QED
    BY <1>3, <1>4, <1>5, <1>6 DEF NoticeInv

LEMMA ReadingKeeps ==
  ASSUME NoticeInv, Reads, begun' \in 0..MaxBegun, NEW s \in Seam, NEW held,
         Goes(s, held),
         held.at # "idle" => held \in Held /\ HeldOK(held, clock, earned, mode[s])
  PROVE  NoticeInv'
  <1>1. /\ SameFiles /\ UNCHANGED <<tainted, took, lost>>
        /\ mode' = mode /\ asked' = asked /\ earned' = earned
    BY DEF Reads, history
  <1>2. mode \in [Seam -> Mode] /\ asked \in [Seam -> SUBSET Considered] /\ earned \subseteq Key
    BY DEF NoticeInv, NoticeTypeOK
  <1> QED
    BY <1>1, <1>2, SteppingKeeps

(* A write of the session's file by a process that read it keeps all, when *)
(* it writes what it should.                                               *)
LEMMA WritingKeeps ==
  ASSUME NoticeInv, NEW s \in Seam, NEW held, Goes(s, held),
         held.at # "idle" => held \in Held /\ HeldOK(held, clock, earned, mode[s]),
         NEW written \in Signals, writeSignals(seam[s].copy, written),
         UNCHANGED <<seen, warmEnd, clock, mode, asked, begun, earned>>,
         took' \in Time, tainted' \in 0..(MaxTime + TAINT_WINDOW),
         ~lost /\ FileTells /\ signals = seam[s].copy
            => /\ written.acquired = took'
               /\ written.taint = tainted' \/ (written.taint = 0 /\ tainted' < clock)
  PROVE  NoticeInv'
  <1>1. /\ seen' = seen /\ warmEnd' = warmEnd /\ clock' = clock /\ begun' = begun /\ earned' = earned
        /\ mode' = mode /\ asked' = asked
    OBVIOUS
  <1>2. seam \in [Seam -> Held] /\ SeamsOK /\ clock \in Time /\ clock <= clock
    BY DEF NoticeInv, NoticeTypeOK, Time
  <1>3. seam' \in [Seam -> Held] /\ SeamsOK'
    BY <1>1, <1>2, OneGoes
  <1>4. /\ signals' \in Signals /\ fails' \in 0..MaxFails /\ lost' \in BOOLEAN
        /\ ~lost' => ~lost /\ signals = seam[s].copy /\ signals' = written
    BY WriteTells DEF NoticeInv
  <1>5. NoticeTypeOK'
    BY <1>1, <1>3, <1>4 DEF NoticeInv, NoticeTypeOK
  <1>6. ASSUME ~lost' PROVE FileTells'
    <2>1. ~lost /\ FileTells /\ signals = seam[s].copy /\ signals' = written
      BY <1>4, <1>6 DEF NoticeInv
    <2>2. /\ written.acquired = took'
          /\ written.taint = tainted' \/ (written.taint = 0 /\ tainted' < clock)
      BY <2>1
    <2> QED
      BY <1>1, <2>1, <2>2 DEF FileTells
  <1> QED
    BY <1>1, <1>3, <1>5, <1>6 DEF NoticeInv

(* What a process holds, taken apart.                                      *)
LEMMA HeldIs ==
  ASSUME NoticeInv, NEW s \in Seam
  PROVE  /\ seam[s] \in Held /\ HeldOK(seam[s], clock, earned, mode[s])
         /\ clock \in Time /\ clock >= 1 /\ signals \in Signals
         /\ seen \subseteq Key /\ seen \subseteq earned /\ earned \subseteq Key
         /\ seam[s].copy \in Signals /\ seam[s].time \in Time /\ seam[s].known \subseteq Key
         /\ seam[s].verdict \in [effect : Effects, shadow : Effects]
         /\ seam[s].todo \subseteq Considered /\ asked[s] \subseteq Considered
         /\ mode \in [Seam -> Mode] /\ asked \in [Seam -> SUBSET Considered]
         /\ begun \in 0..MaxBegun /\ MaxBegun \in Nat
  BY NoticeAssumption DEF NoticeInv, NoticeTypeOK, SeamsOK, Held

(* A notice in enforce is the effect, and in observe the shadow of a call  *)
(* whose effect stays; what comes of several is the strictest.             *)
LEMMA NoticesGo ==
  ASSUME NEW verdict \in [effect : Effects, shadow : Effects],
         NEW notices \in SUBSET {"ask", "deny"}, NEW m \in Mode
  PROVE  LET v == applyNotices(verdict, notices, m)
         IN  /\ v \in [effect : Effects, shadow : Effects]
             /\ m # "enforce" => v.effect = verdict.effect
             /\ m = "enforce" => v.shadow = verdict.shadow
             /\ m # "off" /\ notices # {} =>
                  LET said == IF m = "enforce" THEN v.effect ELSE v.shadow
                  IN  /\ said # "allow"
                      /\ "deny" \in notices => said = "deny"
                      /\ "deny" \notin notices /\ verdict.shadow # "deny" => said = "ask"
             /\ "deny" \notin notices /\ verdict.shadow # "deny" => v.shadow # "deny"
  <1>1. CASE notices = {} \/ m = "off"
    BY <1>1 DEF applyNotices
  <1>2. CASE notices # {} /\ m = "enforce"
    <2> DEFINE effect == StrictestIn(notices)
    <2>1. applyNotices(verdict, notices, m) = [verdict EXCEPT !.effect = effect]
      BY <1>2 DEF applyNotices
    <2>2. /\ effect \in Effects /\ effect # "allow"
          /\ "deny" \in notices => effect = "deny"
          /\ "deny" \notin notices => effect = "ask"
      BY <1>2 DEF StrictestIn, Effects
    <2> HIDE DEF effect
    <2> QED
      BY <1>2, <2>1, <2>2
  <1>3. CASE notices # {} /\ m = "observe"
    <2> DEFINE shadow == StrictestIn(notices \cup {verdict.shadow})
    <2>1. applyNotices(verdict, notices, m) = [verdict EXCEPT !.shadow = shadow]
      BY <1>3 DEF applyNotices
    <2>2. /\ shadow \in Effects /\ shadow # "allow"
          /\ "deny" \in notices => shadow = "deny"
          /\ "deny" \notin notices /\ verdict.shadow # "deny" => shadow = "ask"
      BY <1>3 DEF StrictestIn, Effects
    <2> HIDE DEF shadow
    <2> QED
      BY <1>3, <2>1, <2>2
  <1> QED
    BY <1>1, <1>2, <1>3 DEF Mode

(* A call begins, or the suspicion's file is read.                         *)
LEMMA BeginningKeeps ==
  ASSUME NoticeInv, NEW s \in Seam,
         \/ \E r \in Considered, said \in {"allow", "ask"} : consider(s, r, said)
         \/ TaintReads(s) \/ ClearReads(s)
  PROVE  NoticeInv'
  <1>1. Begins
    BY DEF consider, TaintReads, ClearReads, SignalsRead
  <1>2. begun' \in 0..MaxBegun /\ Reads
    BY <1>1, HeldIs DEF Begins
  <1>3. ASSUME NEW r \in Considered, NEW said \in {"allow", "ask"}, consider(s, r,
               said) PROVE NoticeInv'
    <2> DEFINE to == IF said = "allow" /\ r.turn # Nothing THEN "turning" ELSE Onward(r, said)
               held == [Idle EXCEPT !.call = r, !.verdict = Given(said), !.at = to]
    <2>1. to \in {"idle", "ruled", "turning", "looking"} /\ (to \in Looked => said = "allow")
      BY DEF Onward, Looked
    <2>2. held \in Held
      BY <2>1, IdleHolds DEF Held
    <2>3. HeldOK(held, clock, earned, mode[s])
      <3>1. HeldOK(Idle, clock, earned, mode[s]) /\ Idle.at = "idle" /\ Idle.todo = {}
        BY IdleHolds, HeldIs DEF Idle
      <3>2. /\ held.call = r /\ held.at = to /\ held.time = Idle.time /\ held.known = Idle.known
            /\ held.todo = Idle.todo /\ held.verdict = Given(said)
        BY DEF Idle
      <3>3. mode[s] # "off"
        BY <1>3 DEF consider
      <3>4. said = "allow" => held.verdict.effect = "allow" /\ held.verdict.shadow # "deny"
        BY <3>2 DEF Given
      <3> HIDE DEF held, to
      <3> QED
        BY <2>1, <3>1, <3>2, <3>3, <3>4 DEF HeldOK, Looked
    <2>4. Goes(s, held)
      BY <1>3 DEF consider
    <2> HIDE DEF held
    <2> QED
      BY <1>2, <2>2, <2>3, <2>4, ReadingKeeps
  <1>4. ASSUME NEW to \in {"tainting", "clearing"}, SignalsRead(s, to) PROVE NoticeInv'
    <2> DEFINE held == [Idle EXCEPT !.at = to, !.time = clock, !.copy = signals]
    <2>1. held \in Held
      BY IdleHolds, HeldIs DEF Held
    <2>2. HeldOK(held, clock, earned, mode[s])
      BY IdleHolds, HeldIs DEF HeldOK, Looked, Idle, Time
    <2>3. Goes(s, held)
      BY <1>4 DEF SignalsRead
    <2> HIDE DEF held
    <2> QED
      BY <1>2, <2>1, <2>2, <2>3, ReadingKeeps
  <1> QED
    BY <1>3, <1>4 DEF TaintReads, ClearReads

(* The turn: the file read, and written.                                   *)
LEMMA TurningKeeps ==
  ASSUME NoticeInv, NEW s \in Seam, TurnReads(s) \/ TurnWrites(s)
  PROVE  NoticeInv'
  <1> DEFINE r == seam[s].call
             copy == seam[s].copy
  <1>1. CASE TurnReads(s)
    <2> DEFINE to == IF turnStep(r, signals) # Nothing THEN "turned" ELSE Onward(r, "allow")
               held == [seam[s] EXCEPT !.copy = signals, !.at = to]
    <2>1. to \in {"turned", "idle", "looking"} /\ (to = "turned" => turnStep(r, signals) # Nothing)
      BY DEF Onward
    <2>2. held \in Held
      BY <2>1, HeldIs DEF Held
    <2>3. HeldOK(held, clock, earned, mode[s])
      <3>1. /\ held.at = to /\ held.copy = signals /\ held.call = r
            /\ held.time = seam[s].time /\ held.known = seam[s].known
            /\ held.todo = seam[s].todo /\ held.verdict = seam[s].verdict
        BY HeldIs DEF Held
      <3>2. HeldOK(seam[s], clock, earned, mode[s]) /\ seam[s].at = "turning"
        BY <1>1, HeldIs DEF TurnReads
      <3> HIDE DEF held, to
      <3> QED
        BY <2>1, <3>1, <3>2 DEF HeldOK, Looked
    <2>4. Goes(s, held) /\ Reads /\ begun' \in 0..MaxBegun
      BY <1>1, HeldIs DEF TurnReads, Reading
    <2> HIDE DEF held
    <2> QED
      BY <2>2, <2>3, <2>4, ReadingKeeps
  <1>2. CASE TurnWrites(s)
    <2> DEFINE written == turnStep(r, copy)
               turns == IF turnNotice(r, copy) THEN {"ask"} ELSE {}
               verdict == applyNotices(seam[s].verdict, turns, mode[s])
               to == Onward(r, verdict.effect)
               held == [seam[s] EXCEPT !.verdict = verdict, !.at = to]
    <2>1. /\ r \in Considered /\ copy \in Signals /\ written # Nothing
          /\ HeldOK(seam[s], clock, earned, mode[s]) /\ seam[s].at = "turned"
      BY <1>2, HeldIs DEF HeldOK, TurnWrites
    <2>2. written \in Signals /\ written.acquired = copy.acquired /\ written.taint = copy.taint
      BY <2>1, TurnKeeps
    <2>3. verdict \in [effect : Effects, shadow : Effects] /\ verdict.shadow # "deny"
      <3>1. /\ seam[s].verdict \in [effect : Effects, shadow : Effects]
            /\ turns \in SUBSET {"ask", "deny"} /\ "deny" \notin turns /\ mode[s] \in Mode
        BY HeldIs
      <3>2. seam[s].verdict.shadow # "deny"
        BY <2>1 DEF HeldOK, Looked
      <3> HIDE DEF turns
      <3> QED
        BY <3>1, <3>2, NoticesGo
    <2>4. /\ verdict.effect \in Effects
          /\ turns \in SUBSET {"ask"} /\ (verdict.effect \in {"allow", "ask"})
      <3>1. turns \in SUBSET {"ask"}
        OBVIOUS
      <3>2. seam[s].verdict.effect = "allow"
        BY <2>1 DEF HeldOK, Looked
      <3> HIDE DEF turns
      <3>3. verdict.effect \in {"allow", "ask"}
        BY <3>1, <3>2, HeldIs DEF applyNotices, StrictestIn
      <3> QED
        BY <2>3, <3>1, <3>3
    <2> HIDE DEF verdict
    <2>5. to \in {"ruled", "idle", "looking"} /\ (to = "looking" => verdict.effect = "allow")
      BY <2>4 DEF Onward
    <2>6. held \in Held
      BY <2>3, <2>5, HeldIs DEF Held
    <2>7. HeldOK(held, clock, earned, mode[s])
      <3>1. /\ held.at = to /\ held.copy = copy /\ held.call = r
            /\ held.time = seam[s].time /\ held.known = seam[s].known
            /\ held.todo = seam[s].todo /\ held.verdict = verdict
        BY HeldIs DEF Held
      <3> HIDE DEF held, to
      <3> QED
        BY <2>1, <2>3, <2>5, <3>1 DEF HeldOK, Looked
    <2>8. /\ Goes(s, held) /\ writeSignals(copy, written)
          /\ UNCHANGED <<seen, warmEnd, clock, mode, asked, begun, earned>>
          /\ tainted' = tainted /\ took' = took
      BY <1>2 DEF TurnWrites, verdict
    <2>9. took \in Time /\ tainted \in 0..(MaxTime + TAINT_WINDOW)
      BY DEF NoticeInv, NoticeTypeOK
    <2> HIDE DEF held, written, to, r
    <2>10. FileTells /\ signals = copy
             => /\ written.acquired = took'
                /\ written.taint = tainted' \/ (written.taint = 0 /\ tainted' < clock)
      BY <2>2, <2>8 DEF FileTells
    <2> QED
      BY <2>2, <2>6, <2>7, <2>8, <2>9, <2>10, WritingKeeps
  <1> QED
    BY <1>1, <1>2

(* The look: what was done before, then the signals, and a lapse written.  *)
LEMMA LookingKeeps ==
  ASSUME NoticeInv, NEW s \in Seam,
         ReadsSeen(s) \/ Decides(s) \/ LapseWrites(s)
  PROVE  NoticeInv'
  <1> DEFINE r == seam[s].call
             copy == seam[s].copy
  <1>1. CASE ReadsSeen(s)
    <2> DEFINE held == [seam[s] EXCEPT !.at = "deciding", !.time = clock, !.known = seen]
    <2>1. held \in Held
      BY HeldIs DEF Held
    <2>2. HeldOK(held, clock, earned, mode[s])
      <3>1. /\ held.at = "deciding" /\ held.call = r /\ held.time = clock /\ held.known = seen
            /\ held.todo = seam[s].todo /\ held.verdict = seam[s].verdict
        BY HeldIs DEF Held
      <3>2. HeldOK(seam[s], clock, earned, mode[s]) /\ seam[s].at = "looking" /\ seen \subseteq earned
        BY <1>1, HeldIs DEF ReadsSeen
      <3>3. clock \in Int
        BY HeldIs, NoticeAssumption DEF Time
      <3> HIDE DEF held
      <3> QED
        BY <3>1, <3>2, <3>3 DEF HeldOK, Looked
    <2>3. Goes(s, held) /\ Reads /\ begun' \in 0..MaxBegun
      BY <1>1, HeldIs DEF ReadsSeen, Reading
    <2> HIDE DEF held
    <2> QED
      BY <2>1, <2>2, <2>3, ReadingKeeps
  <1>2. CASE Decides(s)
    <2> DEFINE lapsed  == lapsedTaint(signals, seam[s].time)
               sig     == IF lapsed THEN withoutTaint(signals) ELSE signals
               notices == noticesFor(r, sig, seam[s].known, seam[s].time)
               verdict == applyNotices(seam[s].verdict, notices, mode[s])
               to      == IF lapsed THEN "lapsing" ELSE "ruled"
               held    == [seam[s] EXCEPT !.copy = signals, !.verdict = verdict, !.at = to]
    <2>1. verdict \in [effect : Effects, shadow : Effects]
      <3>1. notices \in SUBSET {"ask", "deny"}
        BY DEF noticesFor
      <3> HIDE DEF notices
      <3> QED
        BY <3>1, HeldIs, NoticesGo
    <2>2. Goes(s, held) /\ Reads /\ begun' \in 0..MaxBegun
      BY <1>2, HeldIs DEF Decides, Reading
    <2>3. to \in {"lapsing", "ruled"} /\ (to = "lapsing" => lapsed)
      OBVIOUS
    <2> HIDE DEF verdict, to
    <2>4. held \in Held
      BY <2>1, <2>3, HeldIs DEF Held
    <2>5. HeldOK(held, clock, earned, mode[s])
      <3>1. /\ held.at = to /\ held.copy = signals /\ held.call = r
            /\ held.time = seam[s].time /\ held.known = seam[s].known /\ held.todo = seam[s].todo
        BY HeldIs DEF Held
      <3>2. HeldOK(seam[s], clock, earned, mode[s]) /\ seam[s].at = "deciding"
        BY <1>2, HeldIs DEF Decides
      <3> HIDE DEF held
      <3> QED
        BY <2>3, <3>1, <3>2 DEF HeldOK, Looked
    <2> HIDE DEF held
    <2> QED
      BY <2>2, <2>4, <2>5, ReadingKeeps
  <1>3. CASE LapseWrites(s)
    <2> DEFINE cleared == withoutTaint(copy)
               held    == [seam[s] EXCEPT !.copy = cleared, !.at = "ruled"]
    <2>1. /\ seam[s].at = "lapsing" /\ copy \in Signals /\ lapsedTaint(copy, seam[s].time)
          /\ HeldOK(seam[s], clock, earned, mode[s]) /\ seam[s].time <= clock
      BY <1>3, HeldIs DEF HeldOK, LapseWrites
    <2>2. cleared \in Signals /\ cleared.acquired = copy.acquired /\ cleared.taint = 0
      BY <2>1, WithoutTaintKeeps
    <2>3. /\ Goes(s, held) /\ writeSignals(copy, cleared)
          /\ UNCHANGED <<seen, warmEnd, clock, mode, asked, begun, earned>>
          /\ tainted' = tainted /\ took' = took
      BY <1>3 DEF LapseWrites
    <2> HIDE DEF cleared
    <2>4. held \in Held
      BY <2>2, HeldIs DEF Held
    <2>5. HeldOK(held, clock, earned, mode[s])
      <3>1. /\ held.at = "ruled" /\ held.call = r
            /\ held.time = seam[s].time /\ held.known = seam[s].known /\ held.todo = seam[s].todo
        BY HeldIs DEF Held
      <3> HIDE DEF held
      <3> QED
        BY <2>1, <3>1 DEF HeldOK, Looked
    <2>6. /\ took \in Time /\ tainted \in 0..(MaxTime + TAINT_WINDOW) /\ clock \in Time
          /\ MaxTime \in Nat /\ TAINT_WINDOW \in Nat
      BY NoticeAssumption DEF NoticeInv, NoticeTypeOK
    <2>7. FileTells /\ signals = copy
             => /\ cleared.acquired = took'
                /\ cleared.taint = tainted' \/ (cleared.taint = 0 /\ tainted' < clock)
      <3>1. seam[s].time \in Int /\ copy.taint \in Int /\ clock \in Int
        BY <2>1, HeldIs, NoticeAssumption DEF Signals, Time
      <3> QED
        BY <2>1, <2>2, <2>3, <2>6, <3>1 DEF FileTells, lapsedTaint
    <2> HIDE DEF held
    <2> QED
      BY <2>2, <2>3, <2>4, <2>5, <2>6, <2>7, WritingKeeps
  <1> QED
    BY <1>1, <1>2, <1>3

(* A call is done with, and the next one a yes covers is learned.          *)
LEMMA FinishedHolds ==
  ASSUME NoticeInv, NEW s \in Seam, NEW gone, earned \subseteq gone
  PROVE  LET held == [Idle EXCEPT !.todo = seam[s].todo,
                                  !.at = IF seam[s].todo = {} THEN "idle" ELSE "answered"]
         IN  held \in Held /\ HeldOK(held, clock, gone, mode[s])
  <1> DEFINE to == IF seam[s].todo = {} THEN "idle" ELSE "answered"
             held == [Idle EXCEPT !.todo = seam[s].todo, !.at = to]
  <1>1. to \in {"idle", "answered"}
    OBVIOUS
  <1>2. held.at = to /\ held.todo = seam[s].todo /\ held.time = Idle.time /\ held.known = Idle.known
    BY DEF Idle
  <1> HIDE DEF to
  <1>3. held \in Held
    BY <1>1, HeldIs, IdleHolds DEF Held
  <1> HIDE DEF held
  <1>4. HeldOK(Idle, clock, gone, mode[s]) /\ HeldOK(seam[s], clock, earned, mode[s])
    BY HeldIs, IdleHolds
  <1>5. HeldOK(held, clock, gone, mode[s])
    BY <1>1, <1>2, <1>4 DEF HeldOK, Looked
  <1> QED
    BY <1>3, <1>5 DEF held, to

(* A call that goes ahead is remembered, and only such a call or one a     *)
(* person said yes to.                                                     *)
LEMMA LearnsSeenKeeps ==
  ASSUME NoticeInv, NEW s \in Seam, LearnsSeen(s)
  PROVE  NoticeInv'
  <1> DEFINE r == seam[s].call
             to == IF seam[s].at = "ruled" THEN "taking" ELSE "learning taking"
             on == [seam[s] EXCEPT !.at = to]
             over == [Idle EXCEPT !.todo = seam[s].todo,
                                  !.at = IF seam[s].todo = {} THEN "idle" ELSE "answered"]
  <1>1. /\ signals' = signals /\ warmEnd' = warmEnd /\ clock' = clock /\ begun' = begun
        /\ tainted' = tainted /\ took' = took /\ lost' = lost /\ mode' = mode /\ asked' = asked
        /\ earned' = earned \cup (IF seam[s].at = "ruled" THEN {r.key} \ {Nothing} ELSE {})
        /\ IF r.key \in Key \ seam[s].known THEN writeSeen(seam[s].known \cup {r.key})
                                            ELSE UNCHANGED <<seen, fails>>
    BY DEF LearnsSeen
  <1>2. /\ r \in Considered /\ HeldOK(seam[s], clock, earned, mode[s])
        /\ seam[s].at \in {"ruled", "learning"}
    BY HeldIs DEF HeldOK, LearnsSeen
  <1>3. r.key \in Key \cup {Nothing} /\ Nothing \notin Key /\ earned \subseteq Key
    BY <1>2, HeldIs, NoticeAssumption
  <1>4. earned \subseteq earned' /\ earned' \subseteq Key /\ r.key \in earned' \cup {Nothing}
    BY <1>1, <1>2, <1>3 DEF HeldOK
  <1>5. /\ on \in Held /\ HeldOK(on, clock, earned', mode[s])
        /\ over \in Held /\ HeldOK(over, clock, earned', mode[s])
    <2>1. to \in {"learning taking", "taking"}
      OBVIOUS
    <2>2. on \in Held
      BY <2>1, HeldIs DEF Held
    <2>3. /\ on.at = to /\ on.call = r /\ on.time = seam[s].time /\ on.known = seam[s].known
          /\ on.todo = seam[s].todo
      BY HeldIs DEF Held
    <2> HIDE DEF on, to
    <2>4. HeldOK(on, clock, earned', mode[s])
      BY <1>2, <1>4, <2>1, <2>3 DEF HeldOK, Looked
    <2> QED
      BY <1>4, <2>2, <2>4, FinishedHolds
  <1>6. PICK held \in {on, over} : Goes(s, held)
    BY DEF LearnsSeen, Finishes, GoesTo
  <1> HIDE DEF on, over, to, r
  <1>7. seam' \in [Seam -> Held] /\ SeamsOK'
    <2>1. /\ seam \in [Seam -> Held] /\ SeamsOK /\ clock \in Time
          /\ clock' \in Time /\ clock <= clock'
      BY <1>1 DEF NoticeInv, NoticeTypeOK, Time
    <2> QED
      BY <1>1, <1>4, <1>5, <1>6, <2>1, OneGoes
  <1>8. seen' \subseteq Key /\ seen' \subseteq earned' /\ fails' \in 0..MaxFails
    <2>1. /\ seen \subseteq Key /\ seen \subseteq earned /\ seam[s].known \subseteq Key
          /\ seam[s].known \subseteq earned /\ fails \in 0..MaxFails /\ MaxFails \in Nat
      BY <1>2, HeldIs, NoticeAssumption DEF HeldOK, NoticeInv, NoticeTypeOK
    <2>2. CASE UNCHANGED <<seen, fails>>
      BY <1>4, <2>1, <2>2
    <2>3. CASE r.key \in Key \ seam[s].known /\ seen' = seam[s].known \cup {r.key} /\ UNCHANGED fails
      BY <1>3, <1>4, <2>1, <2>3
    <2>4. CASE fails < MaxFails /\ fails' = fails + 1 /\ UNCHANGED seen
      BY <1>4, <2>1, <2>4
    <2> QED
      BY <1>1, <2>2, <2>3, <2>4 DEF writeSeen
  <1>9. NoticeTypeOK'
    BY <1>1, <1>4, <1>7, <1>8 DEF NoticeInv, NoticeTypeOK
  <1>10. ~lost' => FileTells'
    BY <1>1, Zenon DEF NoticeInv, FileTells
  <1> QED
    BY <1>1, <1>7, <1>8, <1>9, <1>10 DEF NoticeInv

(* A call is kept for its answer, a yes is learned call by call from files *)
(* read anew, and a process ends with what it kept.                        *)
LEMMA AnsweringKeeps ==
  ASSUME NoticeInv, NEW s \in Seam,
         \/ awaitAnswer(s) \/ (\E request \in Act \cup {Nothing} : personAllowed(s, request))
         \/ LearnsAnswered(s) \/ YesReadsSignals(s) \/ ProcessEnds(s)
  PROVE  NoticeInv'
  <1>1. /\ HeldOK(seam[s], clock, earned, mode[s]) /\ begun \in 0..MaxBegun
        /\ mode \in [Seam -> Mode] /\ asked \in [Seam -> SUBSET Considered] /\ earned \subseteq Key
    BY HeldIs
  <1>2. CASE awaitAnswer(s)
    <2> DEFINE held == [seam[s] EXCEPT !.at = "idle"]
    <2>1. seam[s].call \in Considered
      BY <1>1, <1>2 DEF HeldOK, awaitAnswer
    <2>2. asked' \in [Seam -> SUBSET Considered]
      BY <1>1, <1>2, <2>1 DEF awaitAnswer
    <2>3. Goes(s, held) /\ held.at = "idle"
      BY <1>2, HeldIs DEF awaitAnswer, GoesTo, Held
    <2>4. /\ SameFiles /\ mode' = mode /\ begun' = begun /\ earned' = earned
          /\ UNCHANGED <<tainted, took, lost>>
      BY <1>2 DEF awaitAnswer, history
    <2> HIDE DEF held
    <2> QED
      BY <1>1, <2>2, <2>3, <2>4, SteppingKeeps
  <1>3. ASSUME NEW request \in Act \cup {Nothing}, personAllowed(s, request) PROVE NoticeInv'
    <2> DEFINE answered == AnsweredBy(asked[s], request)
               yes  == {each \in asked[s] : request \in {Nothing, each.act}}
               held == [Idle EXCEPT !.at = "answered", !.todo = answered]
    <2>1. /\ SameFiles /\ mode' = mode /\ begun' = begun /\ UNCHANGED <<tainted, took, lost>>
          /\ asked' = [asked EXCEPT ![s] = @ \ answered] /\ Goes(s, held)
          /\ earned' = earned \cup ({r.key : r \in yes} \ {Nothing})
      BY <1>3 DEF personAllowed
    <2>2. answered \subseteq yes /\ yes \subseteq Considered
      BY HeldIs DEF AnsweredBy
    <2> HIDE DEF answered, yes
    <2>3. \A r \in yes : r.key \in Key \cup {Nothing}
      BY <2>2, NoticeAssumption
    <2>4. earned \subseteq earned' /\ earned' \subseteq Key
      BY <1>1, <2>1, <2>3
    <2>5. asked' \in [Seam -> SUBSET Considered]
      BY <1>1, <2>1
    <2>6. held \in Held
      BY <2>2, IdleHolds DEF Held
    <2>7. HeldOK(held, clock, earned', mode[s])
      <3>1. held.at = "answered" /\ held.todo = answered /\ held.time = Idle.time /\ held.known = Idle.known
        BY DEF Idle
      <3>2. HeldOK(Idle, clock, earned', mode[s])
        BY IdleHolds, HeldIs
      <3>3. \A r \in answered : r.key \in earned' \cup {Nothing}
        BY <2>1, <2>2
      <3> HIDE DEF held
      <3> QED
        BY <3>1, <3>2, <3>3 DEF HeldOK, Looked
    <2> HIDE DEF held
    <2> QED
      BY <1>1, <2>1, <2>4, <2>5, <2>6, <2>7, SteppingKeeps
  <1>4. CASE LearnsAnswered(s)
    <2>1. PICK r \in seam[s].todo :
             Goes(s, [seam[s] EXCEPT !.at = "learning", !.call = r, !.todo = @ \ {r},
                                     !.time = clock, !.known = seen])
      BY <1>4 DEF LearnsAnswered
    <2> DEFINE held == [seam[s] EXCEPT !.at = "learning", !.call = r, !.todo = @ \ {r},
                                       !.time = clock, !.known = seen]
    <2>2. r \in Considered /\ r.key \in earned \cup {Nothing}
      BY <1>1, HeldIs DEF HeldOK
    <2>3. held \in Held
      BY <2>2, HeldIs DEF Held
    <2>4. HeldOK(held, clock, earned, mode[s])
      <3>1. /\ held.at = "learning" /\ held.call = r /\ held.time = clock /\ held.known = seen
            /\ held.todo = seam[s].todo \ {r}
        BY HeldIs DEF Held
      <3>2. clock \in Int /\ seen \subseteq earned
        BY HeldIs, NoticeAssumption DEF Time
      <3> HIDE DEF held
      <3> QED
        BY <1>1, <2>2, <3>1, <3>2 DEF HeldOK, Looked
    <2>5. Goes(s, held) /\ Reads /\ begun' \in 0..MaxBegun
      BY <1>1, <1>4, <2>1 DEF LearnsAnswered, Reading
    <2> HIDE DEF held
    <2> QED
      BY <2>3, <2>4, <2>5, ReadingKeeps
  <1>5. CASE YesReadsSignals(s)
    <2> DEFINE held == [seam[s] EXCEPT !.at = "taking", !.copy = signals]
    <2>1. held \in Held /\ Goes(s, held) /\ Reads /\ begun' \in 0..MaxBegun
      BY <1>5, HeldIs DEF Held, YesReadsSignals, Reading
    <2>2. HeldOK(held, clock, earned, mode[s])
      <3>1. /\ held.at = "taking" /\ held.call = seam[s].call /\ held.time = seam[s].time
            /\ held.known = seam[s].known /\ held.todo = seam[s].todo
        BY HeldIs DEF Held
      <3>2. seam[s].at = "learning taking"
        BY <1>5 DEF YesReadsSignals
      <3> HIDE DEF held
      <3> QED
        BY <1>1, <3>1, <3>2 DEF HeldOK, Looked
    <2> HIDE DEF held
    <2> QED
      BY <2>1, <2>2, ReadingKeeps
  <1>6. CASE ProcessEnds(s)
    <2>1. Goes(s, Idle) /\ Idle.at = "idle"
      BY <1>6 DEF ProcessEnds, Goes, Idle
    <2>2. /\ SameFiles /\ begun' = begun /\ earned' = earned /\ UNCHANGED <<tainted, took, lost>>
          /\ asked' = [asked EXCEPT ![s] = {}] /\ \E m \in Mode : mode' = [mode EXCEPT ![s] = m]
      BY <1>6 DEF ProcessEnds, history
    <2>3. /\ mode' \in [Seam -> Mode] /\ asked' \in [Seam -> SUBSET Considered]
          /\ \A q \in Seam \ {s} : mode'[q] = mode[q]
      BY <1>1, <2>2
    <2> QED
      BY <1>1, <2>1, <2>2, <2>3, SteppingKeeps
  <1> QED
    BY <1>2, <1>3, <1>4, <1>5, <1>6

(* What is taken, and suspicion raised or lifted, is written to the file   *)
(* and is what the file then says.                                         *)
LEMMA SuspectingKeeps ==
  ASSUME NoticeInv, NEW s \in Seam,
         LearnsAcquired(s) \/ TaintWrites(s) \/ ClearWrites(s)
  PROVE  NoticeInv'
  <1> DEFINE copy == seam[s].copy
             gone == [seam[s] EXCEPT !.at = "idle"]
             over == [Idle EXCEPT !.todo = seam[s].todo,
                                  !.at = IF seam[s].todo = {} THEN "idle" ELSE "answered"]
  <1>1. PICK held \in {gone, over} :
           /\ Goes(s, held) /\ (held.at # "idle" => held \in Held /\ HeldOK(held, clock, earned, mode[s]))
           /\ UNCHANGED <<seen, warmEnd, clock, mode, asked, begun, earned>>
    <2>1. gone.at = "idle"
      BY HeldIs DEF Held
    <2>2. over \in Held /\ HeldOK(over, clock, earned, mode[s])
      BY FinishedHolds
    <2> HIDE DEF gone, over
    <2>3. /\ Goes(s, gone) \/ Goes(s, over)
          /\ UNCHANGED <<seen, warmEnd, clock, mode, asked, begun, earned>>
      BY DEF LearnsAcquired, TaintWrites, ClearWrites, GoesTo, Finishes, gone, over
    <2> QED
      BY <2>1, <2>2, <2>3
  <1>2. /\ took \in Time /\ tainted \in 0..(MaxTime + TAINT_WINDOW)
        /\ copy \in Signals /\ seam[s].time \in Time
        /\ MaxTime \in Nat /\ TAINT_WINDOW \in Nat
    BY HeldIs, NoticeAssumption DEF NoticeInv, NoticeTypeOK
  <1> HIDE DEF gone, over
  <1>3. CASE LearnsAcquired(s)
    <2> DEFINE written == [copy EXCEPT !.acquired = seam[s].time]
    <2>1. /\ written \in Signals
          /\ written.acquired = seam[s].time /\ written.taint = copy.taint
      BY <1>2 DEF Signals
    <2>2. writeSignals(copy, written) /\ took' = seam[s].time /\ tainted' = tainted
      BY <1>3 DEF LearnsAcquired
    <2> HIDE DEF written
    <2>3. FileTells /\ signals = copy
             => /\ written.acquired = took'
                /\ written.taint = tainted' \/ (written.taint = 0 /\ tainted' < clock)
      BY <2>1, <2>2 DEF FileTells
    <2> QED
      BY <1>1, <1>2, <2>1, <2>2, <2>3, WritingKeeps
  <1>4. CASE TaintWrites(s)
    <2> DEFINE until == seam[s].time + TAINT_WINDOW
               written == [copy EXCEPT !.taint = until]
    <2>1. until \in 0..(MaxTime + TAINT_WINDOW)
      BY <1>2 DEF Time
    <2>2. writeSignals(copy, written) /\ tainted' = until /\ took' = took
      BY <1>4 DEF TaintWrites
    <2> HIDE DEF until
    <2>3. written \in Signals /\ written.acquired = copy.acquired /\ written.taint = until
      BY <1>2, <2>1 DEF Signals
    <2> HIDE DEF written
    <2>4. FileTells /\ signals = copy
             => /\ written.acquired = took'
                /\ written.taint = tainted' \/ (written.taint = 0 /\ tainted' < clock)
      BY <2>2, <2>3 DEF FileTells
    <2> QED
      BY <1>1, <1>2, <2>1, <2>2, <2>3, <2>4, WritingKeeps
  <1>5. CASE ClearWrites(s)
    <2> DEFINE written == withoutTaint(copy)
    <2>1. written \in Signals /\ written.acquired = copy.acquired /\ written.taint = 0
      BY <1>2, WithoutTaintKeeps
    <2>2. writeSignals(copy, written) /\ tainted' = 0 /\ took' = took
      BY <1>5 DEF ClearWrites
    <2> HIDE DEF written
    <2>3. FileTells /\ signals = copy
             => /\ written.acquired = took'
                /\ written.taint = tainted' \/ (written.taint = 0 /\ tainted' < clock)
      BY <2>1, <2>2 DEF FileTells
    <2>4. tainted' \in 0..(MaxTime + TAINT_WINDOW)
      BY <1>2, <2>2
    <2> QED
      BY <1>1, <1>2, <2>1, <2>2, <2>3, <2>4, WritingKeeps
  <1> QED
    BY <1>3, <1>4, <1>5

(* The clock moves on.                                                     *)
LEMMA TickKeeps ==
  ASSUME NoticeInv, ClockTicks
  PROVE  NoticeInv'
  <1>1. /\ signals' = signals /\ seen' = seen /\ warmEnd' = warmEnd /\ seam' = seam /\ fails' = fails
        /\ mode' = mode /\ asked' = asked /\ begun' = begun /\ tainted' = tainted /\ took' = took /\ earned' = earned /\ lost' = lost
        /\ clock < MaxTime /\ clock' = clock + 1
    BY DEF ClockTicks, inHand, history
  <1>2. clock \in Time /\ MaxTime \in Nat /\ clock >= 1
    BY NoticeAssumption DEF NoticeInv, NoticeTypeOK
  <1>3. clock' \in Time /\ clock' >= 1
    BY <1>1, <1>2 DEF Time
  <1>4. NoticeTypeOK'
    BY <1>1, <1>3 DEF NoticeInv, NoticeTypeOK
  <1>5. SeamsOK'
    <2> SUFFICES ASSUME NEW s \in Seam PROVE HeldOK(seam[s], clock + 1, earned, mode[s])
      BY <1>1 DEF SeamsOK
    <2>1. HeldOK(seam[s], clock, earned, mode[s]) /\ seam[s].time \in Time
      BY HeldIs
    <2> QED
      BY <1>2, <2>1 DEF HeldOK, Time
  <1>6. ~lost' => FileTells'
    <2>1. tainted \in Int /\ clock \in Int
      BY <1>2 DEF NoticeInv, NoticeTypeOK, Time
    <2> QED
      BY <1>1, <2>1 DEF NoticeInv, FileTells
  <1> QED
    BY <1>1, <1>3, <1>4, <1>5, <1>6 DEF NoticeInv

(* No step of any process, nor of the clock, breaks the invariant.         *)
LEMMA NoticeInvStep == NoticeInv /\ [NoticeNext]_noticeVars => NoticeInv'
  <1> SUFFICES ASSUME NoticeInv, [NoticeNext]_noticeVars PROVE NoticeInv'
    OBVIOUS
  <1>1. ASSUME NEW s \in Seam, NEW r \in Considered, NEW said \in {"allow", "ask"},
               consider(s, r, said)
        PROVE  NoticeInv'
    BY <1>1, BeginningKeeps
  <1>2. ASSUME NEW s \in Seam,
               \/ TurnReads(s) \/ TurnWrites(s) \/ ReadsSeen(s)
               \/ Decides(s) \/ LapseWrites(s)
               \/ awaitAnswer(s) \/ LearnsSeen(s) \/ LearnsAcquired(s)
               \/ LearnsAnswered(s) \/ YesReadsSignals(s) \/ ProcessEnds(s)
               \/ TaintReads(s) \/ TaintWrites(s) \/ ClearReads(s) \/ ClearWrites(s)
        PROVE  NoticeInv'
    BY <1>2, BeginningKeeps, TurningKeeps, LookingKeeps, LearnsSeenKeeps, AnsweringKeeps,
       SuspectingKeeps
  <1>3. ASSUME NEW s \in Seam, NEW request \in Act \cup {Nothing}, personAllowed(s, request)
        PROVE  NoticeInv'
    BY <1>3, AnsweringKeeps
  <1>4. CASE ClockTicks
    BY <1>4, TickKeeps
  <1>5. CASE UNCHANGED noticeVars
    BY <1>5 DEF noticeVars, inHand, history, NoticeInv, NoticeTypeOK, SeamsOK, FileTells
  <1> QED
    BY <1>1, <1>2, <1>3, <1>4, <1>5 DEF NoticeNext

(* So it holds of every process's files and hands, whatever is lost.       *)
LEMMA NoticeInvariant == NoticeSpec => []NoticeInv
  <1>1. NoticeInit => NoticeInv
    BY InitNoticeInv
  <1>2. NoticeInv /\ [NoticeNext]_noticeVars => NoticeInv'
    BY NoticeInvStep
  <1> QED
    BY <1>1, <1>2, PTL DEF NoticeSpec

-----------------------------------------------------------------------------
(* What a second look says is what the notices in its signals come to, a   *)
(* lapsed taint left out of them, and only in enforce does it hold a call. *)
LEMMA LookAnswers ==
  ASSUME NoticeInv, NoticeNext, NEW s \in Seam, Looks(s)
  PROVE  LET t       == seam[s].time
             sig     == IF lapsedTaint(signals, t) THEN withoutTaint(signals) ELSE signals
             notices == noticesFor(seam[s].call, sig, seam[s].known, t)
         IN  /\ notices # {} => Says(s) # "allow"
             /\ "deny" \in notices => Says(s) = "deny"
             /\ "ask" \in notices /\ "deny" \notin notices => Says(s) = "ask"
             /\ PassesUnlessEnforced(s)
             /\ HeldOK(seam[s], clock, earned, mode[s]) /\ seam[s].call \in Considered
  <1>1. /\ seam \in [Seam -> Held] /\ seam[s].at = "deciding"
        /\ seam'[s] # seam[s] /\ seam'[s] # Idle
    BY DEF NoticeInv, NoticeTypeOK, Looks, Idle
  <1>2. \A q \in Seam : \A held : Goes(q, held) => q = s
    BY <1>1 DEF Goes
  <1>3. Decides(s)
    <2>1. ~ClockTicks
      BY <1>1 DEF ClockTicks, inHand
    <2>2. \A q \in Seam : ~ProcessEnds(q)
      BY <1>1 DEF ProcessEnds
    <2>3. PICK q \in Seam :
             \/ \E r \in Considered, said \in {"allow", "ask"} : consider(q, r, said)
             \/ \E request \in Act \cup {Nothing} : personAllowed(q, request)
             \/ TurnReads(q) \/ TurnWrites(q) \/ ReadsSeen(q)
             \/ Decides(q) \/ LapseWrites(q)
             \/ awaitAnswer(q) \/ LearnsSeen(q) \/ LearnsAcquired(q)
             \/ LearnsAnswered(q) \/ YesReadsSignals(q)
             \/ TaintReads(q) \/ TaintWrites(q) \/ ClearReads(q) \/ ClearWrites(q)
      BY <2>1, <2>2 DEF NoticeNext
    <2>4. q = s
      BY <1>2, <2>3
         DEF consider, TurnReads, TurnWrites, ReadsSeen, Decides, LapseWrites, awaitAnswer,
             LearnsSeen, LearnsAcquired, personAllowed, LearnsAnswered, YesReadsSignals,
             TaintReads, TaintWrites, ClearReads, ClearWrites, SignalsRead, GoesTo, Finishes
    <2> QED
      BY <1>1, <2>3, <2>4
         DEF consider, TurnReads, TurnWrites, ReadsSeen, LapseWrites, awaitAnswer,
             LearnsSeen, LearnsAcquired, personAllowed, LearnsAnswered, YesReadsSignals,
             TaintReads, TaintWrites, ClearReads, ClearWrites, SignalsRead
  <1> DEFINE lapsed  == lapsedTaint(signals, seam[s].time)
             sig     == IF lapsed THEN withoutTaint(signals) ELSE signals
             notices == noticesFor(seam[s].call, sig, seam[s].known, seam[s].time)
             verdict == applyNotices(seam[s].verdict, notices, mode[s])
             to      == IF lapsed THEN "lapsing" ELSE "ruled"
             held    == [seam[s] EXCEPT !.copy = signals, !.verdict = verdict, !.at = to]
  <1>4. Goes(s, held)
    BY <1>3 DEF Decides
  <1>5. /\ HeldOK(seam[s], clock, earned, mode[s]) /\ seam[s].call \in Considered
        /\ seam[s].verdict \in [effect : Effects, shadow : Effects] /\ mode[s] \in Mode
        /\ seam[s].verdict.effect = "allow" /\ seam[s].verdict.shadow # "deny" /\ mode[s] # "off"
    BY <1>1, HeldIs DEF HeldOK, Looked
  <1>6. notices \in SUBSET {"ask", "deny"}
    BY DEF noticesFor
  <1>7. seam'[s].verdict = verdict
    <2>1. to # "idle"
      OBVIOUS
    <2> HIDE DEF verdict, to
    <2>2. held.at = to /\ held.verdict = verdict
      BY HeldIs DEF Held
    <2> HIDE DEF held
    <2> QED
      BY <1>1, <1>4, <2>1, <2>2 DEF Goes
  <1> HIDE DEF notices
  <1>8. Says(s) = IF mode[s] = "enforce" THEN verdict.effect ELSE verdict.shadow
    BY <1>7 DEF Says
  <1>9. PassesUnlessEnforced(s)
    <2>1. mode[s] # "enforce" => verdict.effect = seam[s].verdict.effect
      <3>1. \A v \in [effect : Effects, shadow : Effects], m \in Mode :
               m # "enforce" => applyNotices(v, notices, m).effect = v.effect
        BY <1>6, NoticesGo
      <3> QED
        BY <1>5, <3>1, Zenon
    <2> HIDE DEF verdict
    <2> QED
      BY <1>5, <1>7, <2>1 DEF PassesUnlessEnforced
  <1>10. /\ notices # {} => Says(s) # "allow"
         /\ "deny" \in notices => Says(s) = "deny"
         /\ "ask" \in notices /\ "deny" \notin notices => Says(s) = "ask"
    BY <1>5, <1>6, <1>8, NoticesGo
  <1> QED
    BY <1>5, <1>9, <1>10 DEF notices

(* The records of the second look keep their shape, and no count of reads  *)
(* passes the point it matters, whatever the processes write over each     *)
(* other and whichever write fails.                                        *)
THEOREM NoticeTypeCorrect == NoticeSpec => []NoticeTypeOK
  <1>1. NoticeInv => NoticeTypeOK
    BY DEF NoticeInv
  <1> QED
    BY <1>1, NoticeInvariant, PTL

(* Under suspicion UnusualNotice's look asks about every outward or        *)
(* destructive call of any process, in observe by saying that it would     *)
(* have, until the window ends or a person lifts it, as long as no write   *)
(* of the session's file was lost.                                         *)
THEOREM SuspicionHolds == NoticeSpec => TaintHolds
  <1> DEFINE Holds == \A s \in Seam :
                        (/\ Looks(s) /\ ~lost /\ clock <= tainted
                         /\ seam[s].call.outward \/ seam[s].call.destructive)
                            => Says(s) # "allow" /\ PassesUnlessEnforced(s)
  <1>1. NoticeInv /\ [NoticeNext]_noticeVars => [Holds]_noticeVars
    <2> SUFFICES ASSUME NoticeInv, NoticeNext, NEW s \in Seam, Looks(s),
                        ~lost, clock <= tainted,
                        seam[s].call.outward \/ seam[s].call.destructive
                 PROVE  Says(s) # "allow" /\ PassesUnlessEnforced(s)
      OBVIOUS
    <2> DEFINE t   == seam[s].time
               sig == IF lapsedTaint(signals, t) THEN withoutTaint(signals) ELSE signals
               notices == noticesFor(seam[s].call, sig, seam[s].known, t)
    <2>1. /\ notices # {} => Says(s) # "allow"
          /\ PassesUnlessEnforced(s) /\ HeldOK(seam[s], clock, earned, mode[s])
      BY LookAnswers
    <2>2. t \in Int /\ clock \in Int /\ clock >= 1 /\ tainted \in Int /\ t <= clock
      BY <2>1, HeldIs, NoticeAssumption DEF HeldOK, Time, NoticeInv, NoticeTypeOK
    <2>3. signals.taint = tainted
      BY <2>2 DEF NoticeInv, FileTells
    <2>4. sig = signals /\ taintInForce(sig, t)
      BY <2>2, <2>3 DEF lapsedTaint, taintInForce
    <2>5. "ask" \in notices
      BY <2>4 DEF noticesFor
    <2> HIDE DEF notices
    <2> QED
      BY <2>1, <2>5
  <1> QED
    BY <1>1, NoticeInvariant, PTL DEF NoticeSpec, TaintHolds

(* A send in the window after something was taken, by whichever process,   *)
(* is a question, and a refusal when it carries a credential; where the    *)
(* process only observes, it passes and is said to be that.                *)
THEOREM ExfiltrationIsNoticed == NoticeSpec => ChainIsNoticed
  <1> DEFINE Noticing == \A s \in Seam :
                        (/\ Looks(s) /\ ~lost /\ seam[s].call.link = "emit"
                         /\ took # 0 /\ clock - took <= CHAIN_WINDOW)
                            => /\ Says(s) = (IF seam[s].call.leaks THEN "deny" ELSE "ask")
                               /\ PassesUnlessEnforced(s)
  <1>1. NoticeInv /\ [NoticeNext]_noticeVars => [Noticing]_noticeVars
    <2> SUFFICES ASSUME NoticeInv, NoticeNext, NEW s \in Seam, Looks(s),
                        ~lost, seam[s].call.link = "emit",
                        took # 0, clock - took <= CHAIN_WINDOW
                 PROVE  /\ Says(s) = (IF seam[s].call.leaks THEN "deny" ELSE "ask")
                        /\ PassesUnlessEnforced(s)
      OBVIOUS
    <2> DEFINE t   == seam[s].time
               r   == seam[s].call
               sig == IF lapsedTaint(signals, t) THEN withoutTaint(signals) ELSE signals
               notices == noticesFor(r, sig, seam[s].known, t)
    <2>1. /\ "deny" \in notices => Says(s) = "deny"
          /\ "ask" \in notices /\ "deny" \notin notices => Says(s) = "ask"
          /\ PassesUnlessEnforced(s)
          /\ HeldOK(seam[s], clock, earned, mode[s]) /\ r \in Considered
      BY LookAnswers
    <2>2. t \in Int /\ clock \in Int /\ took \in Int /\ t <= clock /\ CHAIN_WINDOW \in Int
      BY <2>1, HeldIs, NoticeAssumption DEF HeldOK, Time, NoticeInv, NoticeTypeOK
    <2>3. sig.acquired = took
      BY HeldIs, WithoutTaintKeeps DEF NoticeInv, FileTells
    <2> HIDE DEF sig, t
    <2>4. acquiredWithin(sig, t)
      BY <2>2, <2>3 DEF acquiredWithin
    <2>5. r.leaks => "deny" \in notices
      BY <2>4 DEF noticesFor
    <2>6. ~r.leaks => "ask" \in notices /\ "deny" \notin notices
      BY <2>4 DEF noticesFor
    <2> HIDE DEF notices
    <2> QED
      BY <2>1, <2>5, <2>6
  <1> QED
    BY <1>1, NoticeInvariant, PTL DEF NoticeSpec, ChainIsNoticed

(* After the warm-up UnusualNotice's look asks about what never went ahead *)
(* before and nobody said yes to, in observe by saying that it would have, *)
(* however the processes interleave, whichever write fails and whatever    *)
(* else was asked and answered.                                            *)
THEOREM FirstTimesAreAsked == NoticeSpec => NewNeedsAYes
  <1> DEFINE Asks == \A s \in Seam :
                        (/\ Looks(s) /\ seam[s].time > warmEnd
                         /\ seam[s].call.key # Nothing /\ seam[s].call.key \notin earned)
                            => Says(s) # "allow" /\ PassesUnlessEnforced(s)
  <1>1. NoticeInv /\ [NoticeNext]_noticeVars => [Asks]_noticeVars
    <2> SUFFICES ASSUME NoticeInv, NoticeNext, NEW s \in Seam, Looks(s),
                        seam[s].time > warmEnd,
                        seam[s].call.key # Nothing, seam[s].call.key \notin earned
                 PROVE  Says(s) # "allow" /\ PassesUnlessEnforced(s)
      OBVIOUS
    <2> DEFINE t   == seam[s].time
               sig == IF lapsedTaint(signals, t) THEN withoutTaint(signals) ELSE signals
               notices == noticesFor(seam[s].call, sig, seam[s].known, t)
    <2>1. /\ notices # {} => Says(s) # "allow"
          /\ PassesUnlessEnforced(s) /\ HeldOK(seam[s], clock, earned, mode[s])
      BY LookAnswers
    <2>2. seam[s].call.key \notin seam[s].known
      BY <2>1 DEF HeldOK
    <2>3. "ask" \in notices
      BY <2>2 DEF noticesFor
    <2> HIDE DEF notices
    <2> QED
      BY <2>1, <2>3
  <1> QED
    BY <1>1, NoticeInvariant, PTL DEF NoticeSpec, NewNeedsAYes
=============================================================================
