------------------------------- MODULE Consent -------------------------------
(***************************************************************************)
(* What holding a call promises, with no files, hooks or records in it:    *)
(* a call of a session runs on a yes a person gave before, a "once" lets   *)
(* one call run, a "session" lets every later one run, and nobody's answer *)
(* changes once it is given.  Storage that failed may forget that a "once" *)
(* was used.  ChatApproval implements it.                                  *)
(***************************************************************************)
CONSTANTS Call, Giver, None

VARIABLES
    said,    \* each person's answer, or None
    ran,     \* the calls that ran
    ranOn,   \* the person whose answer a call ran on, None under a session's yes
    lossy    \* some write of the record failed

vars == <<said, ran, ranOn, lossy>>

Answer == {"once", "session", "deny"}

Init ==
    /\ said = [g \in Giver |-> None]
    /\ ran = {}
    /\ ranOn = [c \in Call |-> None]
    /\ lossy = FALSE

Says(g) ==
    /\ said[g] = None
    /\ \E answer \in Answer : said' = [said EXCEPT ![g] = answer]
    /\ UNCHANGED <<ran, ranOn, lossy>>

Unused(g) == \A c \in Call : ranOn[c] # g

RunsOn(c, g) ==
    /\ ranOn' = [ranOn EXCEPT ![c] = g]
    /\ \/ said[g] = "once" /\ (Unused(g) \/ lossy)
       \/ said[g] = "session"
    /\ ran' = ran \cup {c}
    /\ UNCHANGED <<said, lossy>>

RunsCovered(c) ==
    /\ ran' = ran \cup {c}
    /\ \E g \in Giver : said[g] = "session"
    /\ UNCHANGED <<said, ranOn, lossy>>

StorageFails ==
    /\ lossy' = TRUE
    /\ UNCHANGED <<said, ran, ranOn>>

Next ==
    \/ \E c \in Call \ ran : RunsCovered(c) \/ \E g \in Giver : RunsOn(c, g)
    \/ \E g \in Giver : Says(g)
    \/ StorageFails

Spec == Init /\ [][Next]_vars

-----------------------------------------------------------------------------
(* Two calls never run on one "once", unless storage failed. *)
OnceIsOne ==
    \A c, d \in Call :
        c # d /\ ranOn[c] = ranOn[d] /\ ranOn[c] # None /\ ~lossy
            => said[ranOn[c]] = "session"

(* Whatever ran, somebody said yes. *)
RanOnAYes ==
    /\ \A c \in Call : ranOn[c] # None => ranOn[c] \in Giver /\ said[ranOn[c]] \in {"once", "session"}
    /\ \A c \in ran : ranOn[c] = None => \E g \in Giver : said[g] = "session"
=============================================================================
