-------------------------------- MODULE Roster --------------------------------
(***************************************************************************)
(* A course's enrolments as its owner edits them, split at their awaits:     *)
(* the bulk synchronisation with its transaction, a change of one row, a      *)
(* removal; and purchases, which Checkout has in full.                        *)
(***************************************************************************)
EXTENDS Catalogue

CatalogueFrame == <<course, children, active, coupon, updated>>

\* checkCourseAndUserExist
Syncable(agent, c) == LiveCourse(c) /\ Owns(agent, c)
SyncCheck(s, agent, c, want) ==
  /\ At(s, "idle") /\ Begin /\ Syncable(agent, c)
  /\ req' = [req EXCEPT ![s].pc = "read", ![s].agent = agent, ![s].course = c,
                        ![s].want = want]
  /\ UNCHANGED <<CatalogueFrame, enrolment>>

\* Two reads at once, in any order; neither sees blocked or deleted users.
ReadRoster(s) ==
  /\ At(s, "read") \/ At(s, "readRoster")
  /\ req' = [req EXCEPT
       ![s].pc = IF At(s, "read") THEN "readUsers" ELSE "sync",
       ![s].seen = {[id |-> i, user |-> enrolment[i].user] :
                      i \in {j \in Roster(req[s].course) : enrolment[j].user \in active}}]
  /\ UNCHANGED <<CatalogueFrame, enrolment, edits>>

ReadUsers(s) ==
  /\ At(s, "read") \/ At(s, "readUsers")
  /\ req' = [req EXCEPT ![s].pc = IF At(s, "read") THEN "readRoster" ELSE "sync",
                        ![s].present = req[s].want \cap active]
  /\ UNCHANGED <<CatalogueFrame, enrolment, edits>>

SeenUsers(s) == {e.user : e \in req[s].seen}
ToAdd(s) == req[s].present \ SeenUsers(s)
ToDropWhenAdding(s) ==  \* mutant: an early return if there is nobody to add
  {e \in req[s].seen : ToAdd(s) # {} /\ e.user \notin req[s].want}
ToDrop(s) == {e \in req[s].seen : e.user \notin req[s].want}

-----------------------------------------------------------------------------
(* Transactions.  The rows one drops or changes, and the index entries of the rows   *)
(* it adds, drops or changes, are locked until it ends.                               *)

AddedUsers(s) == {e.user : e \in req[s].added}
RowHeld(i) == \E x \in Slots : i \in req[x].held
EntryHeldBy(x, c, u) ==
  \/ req[x].course = c /\ u \in AddedUsers(x)
  \/ \E i \in Roster(c) : i \in req[x].held /\ enrolment[i].user = u
EntryHeld(s, c, u) == \E x \in Slots \ {s} : EntryHeldBy(x, c, u)

\* Ids are handed out at the insert.
FreeRows == {i \in EnrolmentIds : enrolment[i] = None} \
            {e.id : e \in UNION {req[x].added : x \in Slots}}
NewEnrolment == CHOOSE i \in FreeRows : \A j \in FreeRows : i <= j

Enrolled(s, u) == u \in Students(req[s].course)
Create(s, u) ==
  /\ At(s, "sync") /\ u \in ToAdd(s) \ AddedUsers(s)
  /\ ~ EntryHeld(s, req[s].course, u)
  /\ IF Enrolled(s, u) \/ FreeRows = {} THEN Finish(s)
     ELSE req' = [req EXCEPT ![s].added = @ \cup {[id |-> NewEnrolment, user |-> u]}]
  /\ UNCHANGED <<CatalogueFrame, enrolment, edits>>

\* The update asks for the row as it was read, and throws without it.
AsReadById(s, e) == LiveRow(e.id)  \* mutant: whatever the row says
AsRead(s, e) ==
  LiveRow(e.id) /\ enrolment[e.id].course = req[s].course /\ enrolment[e.id].user = e.user
Drop(s, e) ==
  /\ At(s, "sync") /\ ToAdd(s) = AddedUsers(s)
  /\ e \in ToDrop(s) /\ e.id \notin req[s].held /\ ~ RowHeld(e.id)
  /\ IF AsRead(s, e) THEN req' = [req EXCEPT ![s].held = @ \cup {e.id}]
     ELSE Finish(s)
  /\ UNCHANGED <<CatalogueFrame, enrolment, edits>>

Written(s) == ToAdd(s) = AddedUsers(s) /\ {e.id : e \in ToDrop(s)} = req[s].held
CommitSync(s) ==
  /\ At(s, "sync") /\ Written(s) /\ Finish(s)
  /\ enrolment' = [i \in EnrolmentIds |->
       IF i \in req[s].held THEN [enrolment[i] EXCEPT !.live = FALSE]
       ELSE IF \E e \in req[s].added : e.id = i
       THEN [course |-> req[s].course, status |-> "ACTIVE", live |-> TRUE,
             user |-> (CHOOSE e \in req[s].added : e.id = i).user]
       ELSE enrolment[i]]
  /\ UNCHANGED <<CatalogueFrame, edits>>

-----------------------------------------------------------------------------
(* One row at a time *)

\* The row must be of a course of the agent's, and so must its new course.
MovableAny(agent, i, c) == LiveRow(i) /\ Syncable(agent, c)  \* mutant: any row
Movable(agent, i, c) ==
  LiveRow(i) /\ Owns(agent, enrolment[i].course) /\ Syncable(agent, c)

UpdateEnrolment(s, agent, i, u, c, status) ==
  /\ At(s, "idle") /\ Begin /\ Movable(agent, i, c)
  /\ req' = [req EXCEPT ![s].pc = "move", ![s].agent = agent, ![s].row = i,
                        ![s].user = u, ![s].course = c, ![s].status = status,
                        ![s].from = enrolment[i].course]
  /\ UNCHANGED <<CatalogueFrame, enrolment>>

\* The update takes the row, and then the index entry it is to have.
LockRow(s) ==
  /\ At(s, "move") /\ ~ RowHeld(req[s].row)
  /\ IF LiveRow(req[s].row)
     THEN req' = [req EXCEPT ![s].pc = "entry", ![s].held = {req[s].row}]
     ELSE Finish(s)
  /\ UNCHANGED <<CatalogueFrame, enrolment, edits>>

WriteEnrolment(s) ==
  LET i == req[s].row  u == req[s].user  c == req[s].course
      taken == \E j \in Roster(c) \ {i} : enrolment[j].user = u
  IN /\ At(s, "entry") /\ ~ EntryHeld(s, c, u) /\ Finish(s)
     /\ enrolment' = IF taken THEN enrolment
                     ELSE [enrolment EXCEPT ![i].course = c, ![i].user = u,
                                            ![i].status = req[s].status]
     /\ UNCHANGED <<CatalogueFrame, edits>>

\* External: PostgreSQL aborts one of the transactions of a cycle of waits.
WaitsFor(s, x) ==
  /\ x # s
  /\ \/ /\ At(s, "sync")
        /\ \/ \E u \in ToAdd(s) \ AddedUsers(s) : EntryHeldBy(x, req[s].course, u)
           \/ /\ ToAdd(s) = AddedUsers(s)
              /\ \E e \in ToDrop(s) : e.id \in req[x].held
     \/ At(s, "entry") /\ EntryHeldBy(x, req[s].course, req[s].user)
AbortedNever(s) == FALSE  \* mutant: waits that nothing detects
Aborted(s) ==
  \E cycle \in SUBSET Slots :
    /\ s \in cycle
    /\ \A x \in cycle : /\ \E y \in cycle : WaitsFor(x, y)
                        /\ \E y \in cycle : WaitsFor(y, x)
Abort(s) == Aborted(s) /\ Finish(s) /\ UNCHANGED <<CatalogueFrame, enrolment, edits>>

\* One statement, with the owner in its condition.
DeleteEnrolment(agent, i) ==
  /\ Begin /\ LiveRow(i) /\ Owns(agent, enrolment[i].course) /\ ~ RowHeld(i)
  /\ enrolment' = [enrolment EXCEPT ![i].live = FALSE]
  /\ UNCHANGED <<CatalogueFrame, req>>

Buy(u, c) ==
  /\ Begin /\ c \notin FreeCourses /\ u \notin Students(c) /\ FreeRows # {}
  /\ \A x \in Slots : ~ EntryHeldBy(x, c, u)
  /\ enrolment' = [enrolment EXCEPT ![NewEnrolment] =
                     [course |-> c, user |-> u, status |-> "ACTIVE", live |-> TRUE]]
  /\ UNCHANGED <<CatalogueFrame, req>>

\* An administrator blocks or deletes a user, or lets one in again.
SetActive(u, on) ==
  /\ Begin /\ active' = IF on THEN active \cup {u} ELSE active \ {u}
  /\ UNCHANGED <<course, children, enrolment, coupon, req, updated>>

ContinueRoster(s) ==
  \/ ReadRoster(s) \/ ReadUsers(s)
  \/ \E u \in Users : Create(s, u)
  \/ \E e \in Inserted : Drop(s, e)
  \/ CommitSync(s) \/ Abort(s) \/ LockRow(s) \/ WriteEnrolment(s)

StartRoster ==
  \/ \E s \in Slots, agent \in Staff, c \in CourseIds :
       \/ \E want \in RosterBodies : SyncCheck(s, agent, c, want)
       \/ \E i \in EnrolmentIds, u \in Users, status \in Statuses :
            UpdateEnrolment(s, agent, i, u, c, status)
  \/ \E agent \in Staff, i \in EnrolmentIds : DeleteEnrolment(agent, i)
  \/ \E u \in Users : \E c \in CourseIds : Buy(u, c)
  \/ \E u \in Users, on \in BOOLEAN : SetActive(u, on)
=============================================================================
