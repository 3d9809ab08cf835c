---------------------------- MODULE MCLocalGate ----------------------------
(* A small machine for TLC: seventeen rules, each there for one way of    *)
(* deciding, and the calls and sessions they tell apart.  The namespace db *)
(* is two symbols, so that a star may stand inside a segment.              *)
EXTENDS LocalGate

Is(text) == [out |-> FALSE, parts |-> <<text>>]
Not(text) == [out |-> TRUE, parts |-> <<text>>]
Glob(before, after) == [out |-> FALSE, parts |-> <<before, after>>]

Anything == {Glob(<<>>, <<>>)}

Base ==
    [name |-> "base", actions |-> Anything, targets |-> {}, agents |-> {}, aboveAmount |-> None,
     content |-> {}, scope |-> {}, state |-> {}, windows |-> {}, unless |-> {}, project |-> None,
     effect |-> "deny", observe |-> FALSE, workspace |-> FALSE, relaxes |-> {}]

DbDot == <<"d", "b", DOT>>
Db == {Glob(DbDot, <<>>)}
Night == [days |-> {0}, startHour |-> 2, endHour |-> 1, utcOffset |-> 1]
AllDay == [days |-> {1}, startHour |-> 1, endHour |-> 1, utcOffset |-> 0]
Morning == [days |-> {}, startHour |-> 0, endHour |-> 2, utcOffset |-> 0]

MCRule == {
    [Base EXCEPT !.name = "deny-drop", !.actions = {Glob(<<"d">>, <<"drop">>)}],
    [Base EXCEPT !.name = "ask-db", !.actions = Db, !.effect = "ask"],
    [Base EXCEPT !.name = "team-ask", !.actions = Db, !.effect = "ask", !.workspace = TRUE],
    [Base EXCEPT !.name = "parent-ask", !.actions = Db, !.effect = "ask", !.workspace = TRUE,
                 !.agents = {Is(<<"parent">>)}],
    [Base EXCEPT !.name = "child-ask", !.effect = "ask", !.workspace = TRUE,
                 !.agents = {Is(<<"child">>)}],
    [Base EXCEPT !.name = "parent-deny", !.agents = {Is(<<"parent">>)}],
    [Base EXCEPT !.name = "allow-reads", !.actions = {Is(DbDot \o <<"query">>)}, !.effect = "allow"],
    [Base EXCEPT !.name = "team-allow", !.actions = Db, !.effect = "allow", !.workspace = TRUE,
                 !.relaxes = {"team-ask"}],
    [Base EXCEPT !.name = "allow-db", !.actions = Db, !.effect = "allow",
                 !.relaxes = {"ask-db", "team-ask", "deny-drop"}],
    [Base EXCEPT !.name = "watch-allow", !.effect = "allow", !.observe = TRUE,
                 !.relaxes = {"ask-db"}],
    [Base EXCEPT !.name = "watch-deny", !.observe = TRUE, !.windows = {AllDay}],
    [Base EXCEPT !.name = "only-db", !.actions = {[Glob(DbDot, <<>>) EXCEPT !.out = TRUE]}],
    [Base EXCEPT !.name = "night", !.effect = "ask", !.windows = {Night}],
    [Base EXCEPT !.name = "not-child", !.targets = {Not(<<"src">>)}, !.windows = {Morning},
                 !.unless = {[project |-> None, agents |-> {Is(<<"child">>)},
                              workingDirectories |-> {Is(<<"repo">>)}]}],
    [Base EXCEPT !.name = "incident", !.state = {<<"incident">>}, !.aboveAmount = 1,
                 !.unless = {[project |-> None, agents |-> None, workingDirectories |-> None]}],
    [Base EXCEPT !.name = "no-log", !.content = {Glob(<<"log">>, <<>>)}, !.effect = "ask",
                 !.unless = {[project |-> None, agents |-> {}, workingDirectories |-> {Is(<<"tmp">>)}]}],
    [Base EXCEPT !.name = "drift", !.scope = {"out_of_scope"}, !.effect = "ask"] }

Call(action, target, toolClass) ==
    [action |-> action, target |-> target, toolClass |-> toolClass, projectId |-> None,
     workingDirectory |-> <<"repo">>, content |-> None, amount |-> None]

MCRequest == {
    Call(DbDot \o <<"query">>, None, "read"),
    [Call(DbDot \o <<"table", DOT, "drop">>, <<"users">>, "destructive") EXCEPT !.amount = 1],
    [Call(<<"filesystem", DOT, "write">>, <<"src">>, "write") EXCEPT
        !.content = {<<"log", "users">>, <<"return">>}],
    Call(<<"filesystem", DOT, "write">>, <<"rules">>, "write"),
    [Call(<<"filesystem", DOT, "read">>, <<"env">>, "read") EXCEPT !.workingDirectory = None],
    Call(<<"shell", DOT, "hidden">>, None, "unknown"),
    Call(<<"mcp", DOT, "send">>, <<"server">>, "communication"),
    Call(<<"http", DOT, "request">>, <<"npm">>, None),
    Call(<<"memnox", DOT, "allow">>, None, None) }

Plain == [agentName |-> <<"child">>, parents |-> <<>>, task |-> None, strained |-> FALSE,
          containment |-> None]
Contained(untrusted, probation) ==
    [root |-> TRUE, paths |-> {}, untrusted |-> untrusted, probation |-> probation]

MCSession == {
    Plain,
    [Plain EXCEPT !.parents = << <<"parent">> >>, !.containment = Contained(FALSE, TRUE)],
    [Plain EXCEPT !.strained = TRUE, !.containment = Contained(TRUE, FALSE)],
    [Plain EXCEPT !.parents = << <<"parent">> >>,
                  !.task = [investigates |-> TRUE, paths |-> {Is(<<"src">>)}, kinds |-> {}]] }

MCAllowance == {
    [actions |-> Anything, targets |-> {}, agents |-> {Is(<<"child">>)}, since |-> 0, until |-> 3,
     revoked |-> FALSE] }

MCFact == {<<"freeze", <<"agt_", "child">>>>, <<"freeze", <<"parent">>>>, <<"incident">>}

MCTabled == [action \in {r.action : r \in MCRequest} |->
                IF Head(action) = "d" THEN "destructive" ELSE "read"]

MCProtected == {<<"rules">>}
MCLoosening == {<<"allow">>}
MCKeyFile == {<<"env">>}
MCInside == {<<"src">>, <<"rules">>, <<"env">>}
MCScratch == {<<"tmp">>}
MCQuiet == {<<"npm">>}
=============================================================================
