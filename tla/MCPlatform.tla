------------------------------ MODULE MCPlatform ------------------------------
(* Instances of Platform for TLC. *)
EXTENDS Platform, TLC

CONSTANTS s1, s2, old, kept, new

MCModules == {"MEDIA", "ROLES", "COURSES"}
MCModuleOf == (old :> "MEDIA") @@ (kept :> "COURSES") @@ (new :> "MEDIA")

\* Of the routes of an earlier deployment one is gone, and one is new.
MCSeeded == << [route |-> old, module |-> "MEDIA"], [route |-> kept, module |-> "COURSES"] >>

\* The new route by hand, under another module; the old one again.
MCPermissionBodies == {[route |-> new, module |-> "ROLES"], [route |-> old, module |-> "MEDIA"]}
MCRoleBodies == {[name |-> "TEACHER", active |-> TRUE, grants |-> {1, 2}],
                 [name |-> "custom", active |-> FALSE, grants |-> {2}]}

\* Administrators and a script that may be killed and run again; uploads and lessons,
\* with failures, or beside the script, which abandons a probe when it exits.
MCBudgets == {[admin |-> 2, media |-> 0, sync |-> 1, fault |-> 1],
              [admin |-> 1, media |-> 0, sync |-> 2, fault |-> 1],
              [admin |-> 0, media |-> 3, sync |-> 0, fault |-> 2],
              [admin |-> 0, media |-> 2, sync |-> 1, fault |-> 0]}
=============================================================================
