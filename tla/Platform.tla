-------------------------------- MODULE Platform --------------------------------
(***************************************************************************)
(* The service and, beside it, the process of create-permissions: access and  *)
(* videos, which share the database, the queue and the faults.                 *)
(***************************************************************************)
EXTENDS Library

vars == <<accessVars, libraryVars, left>>

Init == AccessInit /\ LibraryInit

\* The worker of a process that exits leaves its job behind.
Released == probe' = IF script'.pc = "off"
                     THEN [probe EXCEPT !["script"] = IdleProbe] ELSE probe
OnAccess(Step) ==
  /\ Step /\ Released
  /\ UNCHANGED <<provider, origin, file, nextKey, granted, lesson, media, job, probed,
                 awaited>>

\* The budget bounds the model, not the service: past it, no behaviour need go on.
Quiescent == left.admin = 0 /\ left.media = 0 /\ UNCHANGED vars

Next ==
  \/ OnAccess(StartAccess) \/ OnAccess(ContinueScript) \/ OnAccess(KillScript)
  \/ \E s \in Slots : OnAccess(ContinueAccess(s)) \/ ContinueLibrary(s)
  \/ StartLibrary
  \/ \E p \in Processes : Work(p)
  \/ Quiescent

Spec == Init /\ [][Next]_vars

\* Workers run as long as their process does, and some worker looks for jobs that
\* have stalled.
FairSpec ==
  /\ Spec
  /\ \A p \in Processes : WF_vars(Work(p))
  /\ \A k \in Keys : WF_vars(Stalled(k))

-----------------------------------------------------------------------------
(* Properties *)

AccessTyped ==
  /\ permission \in [PermissionIds -> PermissionRow \cup {None}]
  /\ nextPermission \in 1..(MaxPermissions + 1) /\ nextRole \in 1..(MaxRoles + 1)
  /\ role \in [RoleIds -> RoleRow \cup {None}]
  /\ \A r \in RoleIds : role[r] # None => role[r].grants \subseteq LivePermissions
  /\ change \in [Slots -> ChangeRow] /\ script \in ScriptRow
  /\ undisturbed \in BOOLEAN /\ left \in BudgetRow

LibraryTyped ==
  /\ origin \in Seq(Files) /\ Len(origin) <= MaxVersions
  /\ file \in [Files -> 0..Len(origin)] /\ nextKey \in 1..(MaxKeys + 1)
  /\ granted \subseteq Files /\ lesson \in [Lessons -> LessonRow \cup {None}]
  /\ media \in [Slots -> MediaRow] /\ job \in [Keys -> JobRow \cup {None}]
  /\ probe \in [Processes -> ProbeRow]
  /\ probed \subseteq Lessons /\ awaited \subseteq Keys

OneWorkerEach ==
  /\ ~ Up("script") => ProbeAt("script", "idle")
  /\ \A p, q \in Processes : \A k \in Keys :
       probe[p].key = k => /\ job[k] # None /\ job[k].state = "active"
                           /\ probe[q].key = k => p = q

\* Rows have their shape; roles have only permissions that are there, a job that is
\* active is run by at most one worker, and a process that is off runs none.
TypeOK == AccessTyped /\ LibraryTyped /\ OneWorkerEach

\* When create-permissions gets to its end and no administrator has written since
\* it first read, the permissions are the routes there are and each base role has
\* those of its modules, whatever runs before it were killed half-way.
SyncEndsExact ==
  Synced /\ undisturbed =>
    /\ LiveRoutes = Available
    /\ \A n \in BaseNames, r \in RoleIds : RoleExists(r) /\ role[r].name = n =>
         role[r].grants = {p \in LivePermissions : permission[p].module \in ModulesFor(n)}

\* While it runs the service goes on: if no administrator writes, the script takes
\* away access to a route only if the route is gone, or from a base role whose
\* modules the permission is not in.
SyncKeepsServing ==
  [][\A r \in RoleIds, t \in Routes :
       /\ script' # script /\ undisturbed
       /\ Allowed(r, t) /\ ~ Allowed(r, t)'
       => \/ t \notin Available
          \/ /\ role[r].name \in BaseNames
             /\ \A p \in role[r].grants :
                  RouteOf(p) = t => permission[p].module \notin ModulesFor(role[r].name)]_vars

\* A duration that is due is there when its job is, although workers die, attempts
\* fail, other jobs are run at the same time and uploads are announced twice
\* (media.controller.ts uploadVideoSuccess, duration.consumer.ts process).
AwaitedProbesLand ==
  \A k \in awaited : job[k] = None =>
    \A l \in LessonsWith(k) : lesson[l].duration = file[<<k, "mp4">>]

\* The queue keeps its promise, ProbeQueue: every job ends, and what a worker writes,
\* whatever owners have entered before it or enter later, it has measured for a job that
\* is still pending, on a file of that name.
Queue == INSTANCE ProbeQueue WITH
  Keys <- Keys, Files <- Files, Lessons <- Lessons, Durations <- Durations,
  Probed <- Probed,
  pending <- {k \in Keys : job[k] # None}, origin <- origin, probed <- probed,
  duration <- [l \in Lessons |-> IF lesson[l] = None THEN 0 ELSE lesson[l].duration]
ImplementsProbeQueue == Queue!Spec

\* What is sent of the latest file for a range is what the range asks for, and as long
\* as the header says: from Azure for every range that is not backwards, from the disk
\* for those that do not end past the file.  Versions differ in size.
Size(version) == version + 1
Wanted(size, start, end) ==
  {b \in 0..(size - 1) : start <= b /\ (end = Open \/ b <= end)}
RangesAreRight ==
  \A f \in {g \in Files : file[g] = Len(origin)} :
    LET size == Size(file[f])
    IN \A start \in 0..size : \A end \in (start..(size + 1)) \cup {Open} :
       LET wanted == Wanted(size, start, end)
       IN /\ Unsatisfiable(size, start) <=> wanted = {}
          /\ wanted # {} =>
               /\ AzureBytes(size, start, end) = wanted
               /\ AzureLength(size, start, end) = Cardinality(wanted)
               /\ LocalBytes(size, start, end) = wanted
               /\ end < size => LocalLength(size, start, end) = Cardinality(wanted)
=============================================================================
