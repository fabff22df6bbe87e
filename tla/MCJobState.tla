----------------------------- MODULE MCJobState -----------------------------
(* Values for the constants of JobState. *)
EXTENDS JobState

CONSTANTS a, b, q1, q2

Job(settings, pack) == [settings |-> settings, pack |-> pack, rest |-> "video"]

OneConfig    == {Job(q1, FALSE)}
PackConfigs  == {Job(Unset, FALSE), Job(q1, FALSE), Job(q1, TRUE)}
TwoSettings  == {Job(q1, FALSE), Job(q2, FALSE)}

AllPlans   == {{a, b}}
OnlyA      == {{a}}
AnyPlan    == {{a}, {b}, {a, b}}

=============================================================================
