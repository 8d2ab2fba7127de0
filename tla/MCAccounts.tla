------------------------------ MODULE MCAccounts ------------------------------
(* Instances of AccountService for TLC. *)
EXTENDS AccountService, TLC

CONSTANTS a, t, e, s1, s2, c1

\* An admin and a teacher, as the seed script and the admin create them.
MCSeeded == << [email |-> a, role |-> AdminRole],
               [email |-> t, role |-> TeacherRole] >>

\* Role 4 does not exist until it is created; whom staff edit is BLOCKED, who
\* registers is ACTIVE.
MCGrants == {AdminRole, 4}
MCStatuses == {FALSE}
=============================================================================
