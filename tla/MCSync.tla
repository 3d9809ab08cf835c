------------------------------- MODULE MCSync -------------------------------
(* Histories of the sync for TLC, each with its own share of what may happen.  *)
EXTENDS Sync

MCKind == <<[session |-> "s", approvals |-> 0], [session |-> "s", approvals |-> 1],
            [session |-> "t", approvals |-> 0], [session |-> "s", approvals |-> 0]>>

Nothing == [events |-> 0, reports |-> 0, logins |-> 0, logouts |-> 0, edits |-> 0,
            publishes |-> 0, modes |-> 0, revokes |-> 0, syncs |-> 0, faults |-> 0,
            crashes |-> 0, ticks |-> 0, pulls |-> {FALSE}, held |-> Bundle(1, 1),
            config |-> "observe", told |-> "observe"]

MCBudgets == {
    [Nothing EXCEPT !.events = 4, !.ticks = 2, !.faults = 1],
    [Nothing EXCEPT !.events = 2, !.ticks = 2, !.syncs = 1, !.faults = 1],
    [Nothing EXCEPT !.events = 2, !.ticks = 2, !.logins = 1, !.logouts = 1, !.revokes = 1],
    [Nothing EXCEPT !.reports = 2, !.logins = 1, !.faults = 1, !.crashes = 1],
    [Nothing EXCEPT !.pulls = {TRUE}, !.held = None, !.publishes = 2, !.faults = 1, !.crashes = 1],
    [Nothing EXCEPT !.pulls = {TRUE}, !.publishes = 1, !.syncs = 1, !.logins = 1],
    [Nothing EXCEPT !.told = "enforce", !.modes = 2, !.edits = 2, !.syncs = 1, !.revokes = 1, !.faults = 1] }

=============================================================================
