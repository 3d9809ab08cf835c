----------------------------- MODULE LocalGate -----------------------------
(***************************************************************************)
(* The gate on this machine (core/src/gate/local-gate.ts): the rules asked *)
(* as the agent and as every agent that started it, then the layers under  *)
(* the rules (self-protection, hidden code, a declared task, strain,       *)
(* containment), then the scopes a person allowed for a while.             *)
(*                                                                         *)
(* A seam builds its gate from the files as they stand, so the variables   *)
(* are what it reads: the rules, the state facts in force, the clock, the  *)
(* allowances, and the options of the session.  The steps are the changes  *)
(* people, the workspace and time make to them; ruled(r) is the verdict a  *)
(* call r meets in a state.                                                *)
(***************************************************************************)
EXTENDS PolicyEngine, Functions

CONSTANTS
    Request,      \* the calls: [action, target, toolClass, projectId, workingDirectory, content, amount]
    Rule,         \* the rules somebody may publish
    Session,      \* the options of a session: [agentName, parents, task, strained, containment]
    Allowance,    \* the allowances a person may grant
    Fact,         \* the state facts the workspace may put in force
    MaxRules,     \* at most this many rules at once
    Tabled,       \* [action -> class]: what the verb tables say where the caller says nothing
    Protected,    \* targets that are Memnox's own rules or state
    Loosening,    \* what a memnox command line says when it changes what agents may do
    KeyFile,      \* targets that are key files
    Inside,       \* targets that land inside the session's repository
    Scratch,      \* targets in a scratch directory
    Quiet         \* destinations that never ask on containment's account

ASSUME BoundAssumption == MaxRules \in Nat

\* What normalizeActionRequest, the rules' validator and isValidTimeWindow let in.
ASSUME RequestAssumption == \A r \in Request : r.action \in Name /\ r.action # None

ASSUME RuleAssumption ==
    \A p \in Rule : p.effect \in Effect /\ p.actions \subseteq Pattern /\ p.windows \subseteq Window

ASSUME SessionAssumption == \A s \in Session : s.agentName \in Name /\ s.parents \in Seq(Name)

\* What a layer under the rules says of a call, if it says anything.
Layer == {"ask", "refuse", "checkpointed"}

ASSUME LayerAssumption == None \notin Layer

ASSUME AllowanceAssumption == \A a \in Allowance : a = [a EXCEPT !.revoked = FALSE]

VARIABLES
    rules,        \* the rules in force
    facts,        \* the state facts in force
    now,          \* the clock, in hours
    allowances,   \* allowances.json
    session       \* the session whose call is ruled on

vars == <<rules, facts, now, allowances, session>>

-----------------------------------------------------------------------------
(***************************************************************************)
(* What a request is, to the layers under the rules.                       *)
(***************************************************************************)
FILE_WRITES == {<<"filesystem", DOT, "write">>, <<"filesystem", DOT, "delete">>}

NETWORK == {<<"http", DOT, "request">>, <<"http", DOT, "connect">>}

OUTWARD_ACTIONS == NETWORK \cup {<<"git", DOT, "push">>, <<"browser", DOT, "navigate">>}

LOCAL_NAMESPACES ==
    {<<"filesystem">>, <<"file">>, <<"fs">>, <<"shell">>, <<"process">>, <<"git">>, <<"editor">>,
     <<"test">>, <<"build">>}

CHANGES == {"write", "destructive", "communication"}

reachesOutside(action) == firstSegment(action) \notin LOCAL_NAMESPACES

fromToolClass(action, toolClass) ==
    CASE toolClass = "read"          -> "read"
      [] toolClass = "destructive"   -> "destructive"
      [] toolClass = "communication" -> "outward"
      [] toolClass = "write"         -> IF reachesOutside(action) THEN "outward" ELSE "write"
      [] OTHER                       -> None

containedClassOf(action, toolClass) ==
    CASE action = <<"filesystem", DOT, "delete">> -> "destructive"
      [] action = <<"filesystem", DOT, "write">>  -> "write"
      [] action \in OUTWARD_ACTIONS          -> "outward"
      [] OTHER -> IF fromToolClass(action, toolClass) # None
                  THEN fromToolClass(action, toolClass)
                  ELSE Tabled[action]

(***************************************************************************)
(* Containment.  A layer answers None, "ask", "refuse" or "checkpointed".  *)
(***************************************************************************)
\* first ?? second
orElse(first, second) == IF first # None THEN first ELSE second

untrustedSecret(r, c) ==
    IF c.untrusted /\ r.action = <<"filesystem", DOT, "read">> /\ r.target \in KeyFile
    THEN "refuse" ELSE None

isQuiet(r) == r.action \in NETWORK /\ r.target \in Quiet

boundaryAsk(r, c) ==
    IF /\ c.root /\ r.target # None /\ r.action \in FILE_WRITES
       /\ r.target \notin Scratch
       /\ r.target \in Inside => ~matchesAny(c.paths, r.target)
    THEN "ask" ELSE None

\* In the namespace, with a dot after it.
startsWith(action, namespace) ==
    Len(action) > 1 /\ action[1] = namespace /\ action[2] = DOT

untrustedAsk(kind, c, action) ==
    IF ~c.untrusted \/ kind \notin {"outward", "destructive"} THEN None
    ELSE IF startsWith(action, "mcp") THEN "refuse" ELSE "ask"

probationAsk(r, c) ==
    IF ~c.probation THEN None
    ELSE IF r.action = <<"filesystem", DOT, "write">> /\ c.root /\ r.target \in Inside
    THEN "checkpointed" ELSE "ask"

containmentAsk(r, c) ==
    LET kind == containedClassOf(r.action, r.toolClass)
    IN  IF untrustedSecret(r, c) # None THEN untrustedSecret(r, c)
        ELSE IF kind = "read" \/ isQuiet(r) THEN None
        ELSE orElse(boundaryAsk(r, c), orElse(untrustedAsk(kind, c, r.action), probationAsk(r, c)))

\* Only an allow is ever tightened.
contained(r, effect) ==
    IF session.containment = None \/ effect # "allow" THEN None
    ELSE containmentAsk(r, session.containment)

(***************************************************************************)
(* The other layers under the rules.                                       *)
(***************************************************************************)
loosens(r) ==
    (IF r.target # None THEN r.target ELSE SubSeq(r.action, 3, Len(r.action))) \in Loosening

selfProtection(r) ==
    IF \/ r.action \in FILE_WRITES /\ r.target \in Protected
       \/ startsWith(r.action, "memnox") /\ loosens(r)
    THEN "refuse" ELSE None

SHELL_HIDDEN == <<"shell", DOT, "hidden">>

hiddenCode(r) == IF r.action = SHELL_HIDDEN THEN "ask" ELSE None

offIntent(r, effect) ==
    IF /\ session.task # None /\ session.task.investigates
       /\ effect # "deny" /\ reachesOutside(r.action) /\ r.toolClass \in CHANGES
    THEN "refuse" ELSE None

underStrain(r, effect) ==
    IF /\ session.strained /\ effect = "allow"
       /\ \/ r.toolClass = "destructive"
          \/ r.toolClass \in CHANGES /\ reachesOutside(r.action)
    THEN "ask" ELSE None

\* How the request sat against the task's declared scope; None is undeclared.
scopeOf(task, r) ==
    LET dimensions == {<<task.paths, r.target>>, <<task.kinds, firstSegment(r.action)>>}
        stated     == {d \in dimensions : d[1] # {} /\ d[2] # None}
    IN  IF task = None THEN None
        ELSE IF stated = {} THEN None
        ELSE IF \A d \in stated : matchesAny(d[1], d[2]) THEN "in_scope" ELSE "out_of_scope"

-----------------------------------------------------------------------------
(***************************************************************************)
(* The verdict.                                                            *)
(***************************************************************************)
evaluatedAs(agentName, held, r) ==
    evaluate(held, r, [agentName |-> agentName,
                       now       |-> now,
                       scope     |-> scopeOf(session.task, r),
                       state     |-> facts])

\* The agent, and then its parents, outermost first.
Line == <<session.agentName>> \o session.parents

\* An answer replaces the one before only when it is stricter, so the first of
\* the strictest stands.
firstStrictest(answers) ==
    CHOOSE a \in answers : \A b \in answers :
        /\ ~isStricter(b.given.effect, a.given.effect)
        /\ b.place < a.place => isStricter(a.given.effect, b.given.effect)

\* As each of the line.
evaluated(held, r) ==
    firstStrictest({[place |-> i, given |-> evaluatedAs(Line[i], held, r)] : i \in DOMAIN Line}).given

effectUnder(effect, layer) ==
    CASE layer \in {None, "checkpointed"} -> effect
      [] layer = "refuse" -> "deny"
      [] OTHER -> "ask"

askedByWorkspace(matched) ==
    \E p \in matched : p.workspace /\ ~p.observe /\ p.effect = "ask"

inForceAt(a, t) == ~a.revoked /\ a.until > t /\ a.since <= t

allowanceFor(r) ==
    {a \in allowances : /\ inForceAt(a, now)
                        /\ matchesAny(a.actions, r.action)
                        /\ matchesAny(a.targets, r.target)
                        /\ matchesAny(a.agents, session.agentName)}

allowedWithin(r, effect, matched) ==
    /\ effect = "ask"
    /\ ~askedByWorkspace(matched)
    /\ allowanceFor(r) # {}

\* The first of the layers that says anything of r where the rules say effect.
layerOn(r, effect) ==
    orElse(selfProtection(r),
    orElse(hiddenCode(r),
    orElse(offIntent(r, effect),
    orElse(underStrain(r, effect), contained(r, effect)))))

afterLayers(r, evaluation) ==
    LET effect == effectUnder(evaluation.effect, layerOn(r, evaluation.effect))
    IN  IF allowedWithin(r, effect, evaluation.matched) THEN "allow" ELSE effect

\* The verdict on r by the rules held.
ruledBy(held, r) == afterLayers(r, evaluated(held, r))

ruled(r) == ruledBy(rules, r)

-----------------------------------------------------------------------------
(***************************************************************************)
(* What changes under the gate.                                            *)
(***************************************************************************)
Init ==
    /\ rules = {}
    /\ facts = {}
    /\ now = 0
    /\ allowances = {}
    /\ session \in Session

\* A person or the workspace publishes a rule.
RulePublished(p) ==
    /\ Cardinality(rules) < MaxRules
    /\ p \notin rules
    /\ rules' = rules \cup {p}
    /\ UNCHANGED <<facts, now, allowances, session>>

\* A state fact comes into force, or lapses.
FactChanges(f) ==
    /\ facts' = IF f \in facts THEN facts \ {f} ELSE facts \cup {f}
    /\ UNCHANGED <<rules, now, allowances, session>>

\* memnox allow: an allowance from now on; FileAllowances.add.
Allowed(a) ==
    /\ a.since = now /\ a \notin allowances
    /\ allowances' = allowances \cup {a}
    /\ UNCHANGED <<rules, facts, now, session>>

\* FileAllowances.revoke.
Revoked(a) ==
    /\ a \in allowances /\ ~a.revoked
    /\ allowances' = (allowances \ {a}) \cup {[a EXCEPT !.revoked = TRUE]}
    /\ UNCHANGED <<rules, facts, now, session>>

Tick ==
    /\ now + 1 < HOURS_IN_A_DAY * DAYS_PER_WEEK
    /\ now' = now + 1
    /\ UNCHANGED <<rules, facts, allowances, session>>

Next ==
    \/ \E p \in Rule : RulePublished(p)
    \/ \E f \in Fact : FactChanges(f)
    \/ \E a \in Allowance : Allowed(a) \/ Revoked(a)
    \/ Tick

Spec == Init /\ [][Next]_vars

-----------------------------------------------------------------------------
(***************************************************************************)
(* Properties.                                                             *)
(***************************************************************************)
Agents == {session.agentName} \cup Range(session.parents)

ContextOf(agentName, r) ==
    [agentName |-> agentName, now |-> now, scope |-> scopeOf(session.task, r), state |-> facts]

\* The rules in force that match r when this agent asks, by the definition of
\* a match alone: no index and no order.
InForceFor(agentName, r) ==
    {p \in rules : ~p.observe /\ matches(p, r, ContextOf(agentName, r))}

\* An actions list of exclusions only, which the index files under "!...".
OnlyExcludes(p) == \A each \in p.actions : each.out

\* The state is well formed, and every call meets one of the three effects.
TypeOK ==
    /\ rules \subseteq Rule /\ Cardinality(rules) <= MaxRules
    /\ facts \subseteq Fact
    /\ now \in 0..(HOURS_IN_A_DAY * DAYS_PER_WEEK - 1)
    /\ \A a \in allowances : [a EXCEPT !.revoked = FALSE] \in Allowance
    /\ session \in Session
    /\ \A r \in Request : ruled(r) \in Effect

\* candidates(): "a superset, never a filter".  Every rule that matches a call
\* is among the rules the index hands over for it, save a rule whose actions
\* are exclusions only.
NoMatchIsFilteredOut ==
    \A r \in Request, p \in rules :
        matches(p, r, ContextOf(session.agentName, r))
            => OnlyExcludes(p) \/ p \in candidates(rules, r.action)

\* "Deny, then ask, then allow", "a deny is never relaxed by anything", and no
\* rule or allowance lets an agent change what governs it: self-protection, and
\* a deny rule in force for the agent or one that started it, or a freeze on one
\* of them, come when they may, end in a refusal whatever else matches, is
\* relaxed or is allowed for a while.  Hidden code is the exception: its
\* question replaces the rules' refusal.
RefusedTo(agent, r) ==
    \/ agentFrozen(facts, agent)
    \/ \E p \in InForceFor(agent, r) : p.effect = "deny" /\ ~OnlyExcludes(p)

RefusalsStand ==
    \A r \in Request :
        \/ selfProtection(r) = "refuse"
        \/ r.action # SHELL_HIDDEN /\ \E agent \in Agents : RefusedTo(agent, r)
        => ruled(r) = "deny"

\* A rule of the workspace asks this agent about r, and no allow of the
\* workspace's that names it is in force.
WorkspaceAsks(agentName, r) ==
    \E p \in InForceFor(agentName, r) :
        /\ p.workspace /\ p.effect = "ask" /\ ~OnlyExcludes(p)
        /\ \A q \in InForceFor(agentName, r) :
              q.workspace /\ q.effect = "allow" => p.name \notin q.relaxes

\* "Nothing on this machine relaxes what the workspace asks": a call the
\* workspace asks about is never simply allowed by a local allow that names the
\* ask or by an allowance; only a workspace allow that names it drops it.
WorkspaceAskStands ==
    \A r \in Request :
        r.action # SHELL_HIDDEN /\ WorkspaceAsks(session.agentName, r) => ruled(r) # "allow"

\* What a window is: from its start hour on each of its days, for the hours to
\* its end, past midnight when the end is not after the start.
InWindow(window, at) ==
    LET week   == HOURS_IN_A_DAY * DAYS_PER_WEEK
        days   == IF window.days = {} THEN 0..(DAYS_PER_WEEK - 1) ELSE window.days
        length == IF window.startHour < window.endHour
                  THEN window.endHour - window.startHour
                  ELSE window.endHour - window.startHour + HOURS_IN_A_DAY
    IN  \E day \in days, elapsed \in 0..(length - 1) :
            (at + window.utcOffset) % week
                = (day * HOURS_IN_A_DAY + window.startHour + elapsed) % week

\* "An overnight window belongs to the day it started on": the hour by hour
\* test of matchesTimeWindow is membership in that window.
WindowIsItsHours ==
    \A p \in rules : \A window \in p.windows :
        matchesTimeWindow(window, now) <=> InWindow(window, now)

\* A call containment itself refuses, and one a parent's workspace asks about.
RefusedByContainment(r) == contained(r, evaluated(rules, r).effect) = "refuse"

ParentsQuestion(r) ==
    \E parent \in Range(session.parents) : askedByWorkspace(evaluatedAs(parent, rules, r).matched)

\* A question of the workspace's own that a parent's answer may come to stand in
\* for: one a workspace allow lifted, or one about hidden code, which is asked
\* about again whatever the parent's answer is.
OwnQuestion(r) ==
    LET own == evaluatedAs(session.agentName, rules, r)
    IN  /\ session.parents # <<>> /\ askedByWorkspace(own.matched)
        /\ own.effect = "allow" \/ r.action = SHELL_HIDDEN

AtLeastAsStrict(effect, than) == ~isStricter(than, effect)

\* "The most restrictive effect wins": publishing one more rule that relaxes
\* nothing never makes any call freer, whatever was in force before.  Left out
\* are the calls for which one does (see the README): one containment refused,
\* which an ask keeps containment from seeing; and one the workspace asks about
\* where another of the line comes to answer, with no question of the workspace's
\* left in the answer for an allowance to stop at.
PublishingOnlyTightens ==
    [][\A p \in rules' \ rules : p.relaxes = {} =>
          \A r \in Request :
              \/ AtLeastAsStrict(ruledBy(rules \cup {p}, r), ruled(r))
              \/ RefusedByContainment(r)
              \/ ParentsQuestion(r)
              \/ OwnQuestion(r)]_vars
=============================================================================
