SPECIFICATION Spec
CONSTANTS
    Request = {r1, r2}
    Phone = {p1}
    None = None
    Changes = {"answer", "rules", "rules_elsewhere", "resume", "rewind", "work", "mac_show",
               "team_no", "cmd_background", "cmd_never"}
    MaxFaults = 1
INVARIANTS
    YesIsSigned
    OneActsUnlessCrowded
    ConfirmedRuleHolds
PROPERTY AnswerSticks
SYMMETRY Symmetry
CHECK_DEADLOCK FALSE
