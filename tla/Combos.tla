-------------------------------- MODULE Combos --------------------------------
(***************************************************************************)
(* Courses and combos as their owners create, update and delete them.  Titles *)
(* and the like are left out; so is whether a course is shown.  Deleting a    *)
(* course with its chapters and lessons is in Outline.                        *)
(***************************************************************************)
EXTENDS Catalogue

ComboFrame == <<enrolment, active, coupon>>

Insert(agent, type, terms) ==
  course' = [course EXCEPT ![NewCourse] =
    [courseType |-> type, owner |-> agent, terms |-> terms, live |-> TRUE]]

CreateSingle(agent) ==
  /\ Begin /\ FreeCourses # {}
  /\ \E terms \in Terms : Insert(agent, "SINGLE", terms)
  /\ UNCHANGED <<ComboFrame, children, req, updated>>

IsCombo(c) == course[c].courseType = "COMBO"
Below(c) == {x \in CourseIds : <<c, x>> \in children}
Singles(ids) == {c \in ids : ~ IsCombo(c)}
CombosOf(ids) == {c \in ids : IsCombo(c)}

\* What a new combo is connected to: the courses asked for, and the children of
\* those that are combos, deleted children too.
WithChildrenNot(ids) == ids  \* mutant: children are not looked at
WithChildren(ids) == ids \cup UNION {Below(c) : c \in CombosOf(ids)}

CreateCombo(s, agent, ids) ==
  /\ At(s, "idle") /\ Begin /\ \A c \in ids : LiveCourse(c)
  /\ req' = [req EXCEPT ![s].pc = "insertCombo", ![s].agent = agent,
                        ![s].connect = WithChildren(ids)]
  /\ UNCHANGED <<ComboFrame, course, children, updated>>

InsertCombo(s) ==
  /\ At(s, "insertCombo") /\ Finish(s)
  /\ \/ /\ FreeCourses # {}
        /\ \E terms \in Terms : Insert(req[s].agent, "COMBO", terms)
        /\ children' = children \cup ({NewCourse} \X req[s].connect)
     \/ FreeCourses = {} /\ UNCHANGED <<course, children>>
  /\ UNCHANGED <<ComboFrame, updated, edits>>

\* updateCourse of a single course: nothing it looks at can change before it writes.
UpdateSingle(agent, c) ==
  /\ Begin /\ LiveCourse(c) /\ Owns(agent, c) /\ ~ IsCombo(c)
  /\ \E terms \in Terms : course' = [course EXCEPT ![c].terms = terms]
  /\ UNCHANGED <<ComboFrame, children, req, updated>>

\* ... and of a combo; courseType must be what it is.
ReshapableAny(agent, c) == LiveCourse(c) /\ Owns(agent, c)  \* mutant: of any type
Reshapable(agent, c) == LiveCourse(c) /\ Owns(agent, c) /\ IsCombo(c)
UpdateCombo(s, agent, c, ids) ==
  /\ At(s, "idle") /\ Begin /\ Reshapable(agent, c)
  /\ req' = [req EXCEPT ![s].pc = "expand", ![s].agent = agent, ![s].course = c,
                        ![s].ids = ids, ![s].below = {x \in Below(c) : LiveCourse(x)}]
  /\ UNCHANGED <<ComboFrame, course, children, updated>>

\* An update is connected to the children of a combo asked for, not to itself, and
\* only to live ones.
Expansion(ids) ==
  Singles(ids) \cup {x \in UNION {Below(c) : c \in CombosOf(ids)} : LiveCourse(x)}
Expand(s) ==
  LET ids == req[s].ids
  IN /\ At(s, "expand")
     /\ IF \A c \in ids : LiveCourse(c)
        THEN req' = [req EXCEPT ![s].pc = "reshape", ![s].connect = Expansion(ids)]
        ELSE Finish(s)
     /\ UNCHANGED <<ComboFrame, course, children, updated, edits>>

\* disconnect and connect what the two reads differ in
Disconnected(s) == {req[s].course} \X (req[s].below \ req[s].connect)
Connected(s) == {req[s].course} \X (req[s].connect \ req[s].below)
Reshape(s) ==
  /\ At(s, "reshape") /\ Finish(s)
  /\ \/ /\ LiveCourse(req[s].course)
        /\ \E terms \in Terms : course' = [course EXCEPT ![req[s].course].terms = terms]
        /\ children' = (children \ Disconnected(s)) \cup Connected(s)
        /\ updated' = updated \cup {req[s].course}
     \/ ~ LiveCourse(req[s].course) /\ UNCHANGED <<course, children, updated>>
  /\ UNCHANGED <<ComboFrame, edits>>

DeleteCourse(agent, c) ==
  /\ Begin /\ LiveCourse(c) /\ Owns(agent, c)
  /\ course' = [course EXCEPT ![c].live = FALSE]
  /\ UNCHANGED <<ComboFrame, children, req, updated>>

ContinueCombos(s) == InsertCombo(s) \/ Expand(s) \/ Reshape(s)

StartCombos ==
  \E agent \in Staff :
    \/ CreateSingle(agent)
    \/ \E s \in Slots, ids \in ComboBodies :
         \/ CreateCombo(s, agent, ids)
         \/ \E c \in CourseIds : UpdateCombo(s, agent, c, ids)
    \/ \E c \in CourseIds : UpdateSingle(agent, c) \/ DeleteCourse(agent, c)
=============================================================================
