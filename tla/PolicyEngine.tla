---------------------------- MODULE PolicyEngine ----------------------------
(***************************************************************************)
(* The rule engine (core/src/policy/policy-engine.ts): one action in, one  *)
(* verdict out, as operators over a set of rules.  Which of several rules  *)
(* equally strict gives the reason is left out, and with it their order.   *)
(*                                                                         *)
(* A text is a tuple of symbols, lower case already, one of which is the   *)
(* dot between segments.  A pattern is held as compile() cuts it: its      *)
(* parts are the texts between its stars, so "db.*" has the parts "db."    *)
(* and the empty text, and a star spans any symbols, dots among them.      *)
(* A rule is a record with the fields of Policy that decide differently:   *)
(* targets stands for the dozen optional fields matchesAny is asked about  *)
(* in the same way, and an absent list of a rule is the empty set, which   *)
(* the code treats alike.                                                  *)
(***************************************************************************)
EXTENDS Integers, Sequences, FiniteSets

CONSTANTS
    None,             \* undefined: a value nobody reported
    HOURS_IN_A_DAY,   \* 24 in the code
    DAYS_PER_WEEK     \* 7 in the code

ASSUME CalendarAssumption ==
    HOURS_IN_A_DAY \in Nat \ {0} /\ DAYS_PER_WEEK \in Nat \ {0}

Effect == {"allow", "ask", "deny"}

EFFECT_PRECEDENCE == [allow |-> 0, ask |-> 1, deny |-> 2]

isStricter(effect, than) == EFFECT_PRECEDENCE[effect] > EFFECT_PRECEDENCE[than]

-----------------------------------------------------------------------------
(***************************************************************************)
(* Patterns.  A pattern is [out |-> whether it starts with "!", parts |->  *)
(* the texts between its stars]; nothing on either side of a star is the   *)
(* pattern that spans everything.                                          *)
(***************************************************************************)
Text == Seq(STRING)

Name == Text \ {<<>>}

Pattern == [out : BOOLEAN, parts : Seq(Text) \ {<<>>}]

WILDCARD == << <<>>, <<>> >>

\* Without a star, the text itself.  With stars, value begins with the first
\* part and ends with the last, and each of the others stands somewhere after the
\* one before it: after[i] symbols come before the i-th.
matchesPattern(parts, value) ==
    IF Len(parts) = 1 THEN value = parts[1]
    ELSE /\ \A j \in 1..Len(parts[1]) : j <= Len(value) /\ parts[1][j] = value[j]
         /\ \E after \in [2..Len(parts) -> Len(parts[1])..Len(value)] :
               \A i \in 2..Len(parts) :
                  /\ IF i = Len(parts) THEN after[i] + Len(parts[i]) = Len(value)
                     ELSE after[i] + Len(parts[i]) <= after[i + 1]
                  /\ \A j \in 1..Len(parts[i]) : parts[i][j] = value[after[i] + j]

\* No exclusion among the matching, and an inclusion unless there is none.
takesIn(patterns, matching) ==
    /\ \A p \in matching : ~p.out
    /\ matching # {} \/ \A p \in patterns : p.out

\* Of a value nobody reported only a bare star says anything.
matchesAny(patterns, value) ==
    takesIn(patterns, {p \in patterns : IF value = None THEN ~p.out /\ p.parts = WILDCARD
                                        ELSE matchesPattern(p.parts, value)})

\* A recurring window, in whole hours; no days are every day.
Window == [days : SUBSET (0..(DAYS_PER_WEEK - 1)), startHour : 0..(HOURS_IN_A_DAY - 1),
           endHour : 1..HOURS_IN_A_DAY, utcOffset : Int]

\* Mutant: the early hours of an overnight window are counted to their own day.
matchesTimeWindowToday(window, at) ==
    LET shifted == (at + window.utcOffset) % (HOURS_IN_A_DAY * DAYS_PER_WEEK)
        hour    == shifted % HOURS_IN_A_DAY
        inHours == IF window.startHour >= window.endHour
                   THEN hour >= window.startHour \/ hour < window.endHour
                   ELSE hour >= window.startHour /\ hour < window.endHour
    IN  inHours /\ (window.days = {} \/ (shifted \div HOURS_IN_A_DAY) \in window.days)

\* A window on the instant at, counted in hours since a Sunday midnight.
matchesTimeWindow(window, at) ==
    LET week    == HOURS_IN_A_DAY * DAYS_PER_WEEK
        shifted == (at + window.utcOffset) % week
        hour    == shifted % HOURS_IN_A_DAY
        day     == shifted \div HOURS_IN_A_DAY
        wraps   == window.startHour >= window.endHour
        inHours == IF wraps
                   THEN hour >= window.startHour \/ hour < window.endHour
                   ELSE hour >= window.startHour /\ hour < window.endHour
        startedYesterday == wraps /\ hour < window.endHour
        effectiveDay     == IF startedYesterday
                            THEN (day - 1 + DAYS_PER_WEEK) % DAYS_PER_WEEK
                            ELSE day
    IN  inHours /\ (window.days = {} \/ effectiveDay \in window.days)

matchesAnyTimeWindow(windows, at) ==
    windows = {} \/ \E window \in windows : matchesTimeWindow(window, at)

matchesAmount(threshold, amount) ==
    threshold = None \/ amount = None \/ amount > threshold

matchesScope(required, actual) == required = {} \/ actual \in required

matchesState(required, inForce) == required = {} \/ required \cap inForce # {}

\* Any line of the content is enough; content nobody could read matches nothing.
matchesContent(patterns, lines) ==
    patterns = {} \/ (lines # None /\ \E line \in lines : matchesAny(patterns, line))

\* The patterns of an optional list of an exception.
Listed(patterns) == IF patterns = None THEN {} ELSE patterns

\* An exception that names nothing is ignored, though one with an empty list
\* names something; and one about a directory takes out no request that reports
\* none.
carvedOut(unless, request, context) ==
    \E carve \in unless :
        /\ \E named \in {carve.project, carve.agents, carve.workingDirectories} : named # None
        /\ carve.project \in {None, request.projectId}
        /\ carve.workingDirectories = None \/ request.workingDirectory # None
        /\ matchesAny(Listed(carve.agents), context.agentName)
        /\ matchesAny(Listed(carve.workingDirectories), request.workingDirectory)

inScope(policy, request) == policy.project \in {None, request.projectId}

matches(policy, request, context) ==
    /\ inScope(policy, request)
    /\ matchesAny(policy.actions, request.action)
    /\ matchesAny(policy.targets, request.target)
    /\ matchesAny(policy.agents, context.agentName)
    /\ matchesContent(policy.content, request.content)
    /\ matchesAmount(policy.aboveAmount, request.amount)
    /\ matchesScope(policy.scope, context.scope)
    /\ matchesState(policy.state, context.state)
    /\ matchesAnyTimeWindow(policy.windows, context.now)
    /\ ~carvedOut(policy.unless, request, context)

-----------------------------------------------------------------------------
(***************************************************************************)
(* The index: rules bucketed by the first segment of their patterns, the   *)
(* "!" of an exclusion being part of that segment.                         *)
(***************************************************************************)
DOT == "."

\* What a text says before its first dot.
firstSegment(text) ==
    LET dots == {i \in 1..Len(text) : text[i] = DOT}
    IN  IF dots = {} THEN text
        ELSE SubSeq(text, 1, (CHOOSE i \in dots : \A j \in dots : i <= j) - 1)

\* The first segment of a pattern; the "!" is the flag beside it.
prefixOf(pattern) == <<pattern.out, firstSegment(pattern.parts[1])>>

\* It has a star in it when the pattern's first star comes before its first dot.
starsIn(pattern) ==
    /\ Len(pattern.parts) > 1
    /\ \A i \in 1..Len(pattern.parts[1]) : pattern.parts[1][i] # DOT

\* Mutant: the star is looked for as the whole of a segment.
literalPrefixesAll(patterns) ==
    IF patterns = {} \/ \E p \in patterns : prefixOf(p) = <<FALSE, <<>>>> THEN None
    ELSE {prefixOf(p) : p \in patterns}

\* None when a pattern could match anything.
literalPrefixes(patterns) ==
    IF patterns = {} \/ \E p \in patterns : starsIn(p) \/ prefixOf(p) = <<FALSE, <<>>>>
    THEN None ELSE {prefixOf(p) : p \in patterns}

unindexed(rules) == {p \in rules : literalPrefixes(p.actions) = None}

byActionPrefix(rules, prefix) ==
    {p \in rules \ unindexed(rules) : prefix \in literalPrefixes(p.actions)}

candidates(rules, action) ==
    byActionPrefix(rules, <<FALSE, firstSegment(action)>>) \cup unindexed(rules)

-----------------------------------------------------------------------------
(***************************************************************************)
(* Choosing among the rules that matched.                                  *)
(***************************************************************************)
\* Mutant: the two layers share one list of names.
layerOfName(policy, name) == <<FALSE, name>>

layerOf(policy, name) == <<policy.workspace, name>>

\* Mutant: an allow relaxes whatever it names.
withoutRelaxedAny(matched) ==
    LET allows  == {p \in matched : p.effect = "allow"}
        relaxed == UNION {{layerOf(p, name) : name \in p.relaxes} : p \in allows}
    IN  {p \in matched : layerOf(p, p.name) \notin relaxed}

\* Mutant: a local allow stands in for every local ask beside it.
withoutRelaxedUnnamed(matched) ==
    LET relaxing == \E q \in matched : q.effect = "allow" /\ ~q.workspace
    IN  {p \in matched : ~(relaxing /\ p.effect = "ask" /\ ~p.workspace)}

\* The matched rules less the asks an allow of their own layer relaxes.
withoutRelaxed(matched) ==
    LET allows  == {p \in matched : p.effect = "allow"}
        relaxed == UNION {{layerOf(p, name) : name \in p.relaxes} : p \in allows}
    IN  {p \in matched : p.effect = "ask" => layerOf(p, p.name) \notin relaxed}

\* None of them is stricter; the default where nothing matched.
strictestOf(effects, default) ==
    IF effects = {} THEN default
    ELSE CHOOSE e \in effects : \A other \in effects : ~isStricter(other, e)

EffectsOf(matched) == {p.effect : p \in matched}

\* What the observed rules would have decided, when that is stricter.
shadowIfStricter(applied, observed) ==
    IF isStricter(strictestOf(observed, applied), applied)
    THEN strictestOf(observed, applied) ELSE None

\* The fleet id of an agent of that name.
agentIdFor(kind) == <<"agt_">> \o kind

\* A freeze on the agent, by its name or its fleet id.
agentFrozen(state, agentName) ==
    \E known \in {agentName, agentIdFor(agentName)} : <<"freeze", known>> \in state

frozenVerdict == [effect |-> "deny", matched |-> {}, shadow |-> None]

evaluate(rules, request, context) ==
    LET applicable == {p \in candidates(rules, request.action) : matches(p, request, context)}
        enforced   == {p \in applicable : ~p.observe}
        effect     == strictestOf(EffectsOf(withoutRelaxed(enforced)), "allow")
    IN  IF agentFrozen(context.state, context.agentName) THEN frozenVerdict
        ELSE [effect  |-> effect,
              matched |-> applicable,
              shadow  |-> shadowIfStricter(effect, EffectsOf(applicable \ enforced))]

=============================================================================
