------------------------------- MODULE Outline -------------------------------
(***************************************************************************)
(* One course's outline and the lesson gate: its chapters and lessons with  *)
(* their orders, drafts and soft deletions, the edits its owner (or an      *)
(* admin) makes, and the lessons its students complete one after another.   *)
(*                                                                         *)
(* Handlers are split at their awaits as in Checkout.  deleteChapter and    *)
(* deleteCourse are transactions: the rows they have marked are in req and  *)
(* become deleted together at the commit, and whoever wants to update such  *)
(* a row waits.  reorder's batch of blind updates by id takes row locks     *)
(* until it commits and is therefore one step.  Rows are never removed.     *)
(***************************************************************************)
EXTENDS Integers, FiniteSets

CONSTANTS
  Students,        \* users who may be enrolled in the course
  Slots,           \* requests in progress at once
  MaxChapters, MaxLessons,  \* ids that may be used
  MaxEdits,        \* edits and changes of the roster, at most
  EditKinds,       \* which edits the run has
  InitialChapter,  \* chapters there at the start, by id
  InitialLesson,   \* lessons there at the start, by id
  Plans,           \* bodies that reorder may be sent
  None             \* the absent row or value

ChapterIds == 1..MaxChapters
LessonIds == 1..MaxLessons
Kinds == {"createChapter", "createLesson", "editChapter", "editLesson",
          "deleteChapter", "deleteLesson", "draftCourse", "deleteCourse",
          "reorder", "roster"}
Pcs == {"idle", "countChapters", "insertChapter", "countLessons",
        "insertLesson", "writeLesson", "deleteLessons", "commitDelete",
        "reorder", "current", "previous", "incomplete", "confirm", "upsert"}

ChapterRow == [order : Nat, draft : BOOLEAN, deleted : BOOLEAN]
LessonRow == [chapter : ChapterIds, order : Nat, draft : BOOLEAN,
              deleted : BOOLEAN]

\* A body of reorder: new orders of some chapters, and the chapter and order
\* of some lessons.  Its schema lists a chapter or a lesson at most once.
PlanShape(p) ==
  /\ DOMAIN p.chapters \subseteq ChapterIds
  /\ DOMAIN p.lessons \subseteq LessonIds
  /\ p.chapters \in [DOMAIN p.chapters -> Nat]
  /\ p.lessons \in [DOMAIN p.lessons ->
                      [chapter : DOMAIN p.chapters, order : Nat]]

ASSUME SizeAssumption ==
  MaxChapters \in Nat /\ MaxLessons \in Nat /\ MaxEdits \in Nat

\* Rows are there from the first id of the sequence on.
ASSUME OutlineAssumption ==
  /\ EditKinds \subseteq Kinds
  /\ InitialChapter \in [ChapterIds -> ChapterRow \cup {None}]
  /\ InitialLesson \in [LessonIds -> LessonRow \cup {None}]
  /\ \A l \in LessonIds : InitialLesson[l] # None =>
       InitialChapter[InitialLesson[l].chapter] # None
  /\ \A c \in ChapterIds : InitialChapter[c] # None =>
       \A d \in 1..c : InitialChapter[d] # None
  /\ \A p \in Plans : PlanShape(p)
  /\ None \notin Students \cup Plans \cup ChapterRow \cup LessonRow

VARIABLES
  course,    \* whether the course is a draft, and deleted
  chapter,   \* Chapter rows by id
  lesson,    \* Lesson rows by id
  progress,  \* LessonProgress rows: pairs <<student, lesson>>
  enrolled,  \* students with an active enrolment in the course
  req,       \* requests in progress
  edits,     \* edits so far, at most MaxEdits
  reshaped   \* history: a lesson has been put somewhere since the start

vars == <<course, chapter, lesson, progress, enrolled, req, edits, reshaped>>

ReqRow == [pc : Pcs, student : Students \cup {None}, lesson : 0..MaxLessons,
           chapter : 0..MaxChapters, chapterOrder : Nat, order : Nat,
           chapters : SUBSET ChapterIds, lessons : SUBSET LessonIds,
           whole : BOOLEAN, plan : Plans \cup {None}]

IdleReq == [pc |-> "idle", student |-> None, lesson |-> 0, chapter |-> 0,
            chapterOrder |-> 0, order |-> 0, chapters |-> {}, lessons |-> {},
            whole |-> FALSE, plan |-> None]

Init ==
  /\ course = [draft |-> FALSE, deleted |-> FALSE]
  /\ chapter = InitialChapter
  /\ lesson = InitialLesson
  /\ progress = {}
  /\ enrolled = Students
  /\ req = [s \in Slots |-> IdleReq]
  /\ edits = 0
  /\ reshaped = FALSE

-----------------------------------------------------------------------------
(* What the handlers look up *)

ChapterThere(c) == chapter[c] # None
ChapterLive(c) == ChapterThere(c) /\ ~ chapter[c].deleted
LessonThere(l) == lesson[l] # None
LessonLive(l) == LessonThere(l) /\ ~ lesson[l].deleted

\* The lesson, its chapter and the course are there: what the owner may edit
\* and what completeLesson asks for.
Editable(l) ==
  LessonLive(l) /\ ChapterLive(lesson[l].chapter) /\ ~ course.deleted

\* ... and none of the three is a draft: what a student is shown.
Visible(l) ==
  /\ Editable(l) /\ ~ lesson[l].draft
  /\ ~ chapter[lesson[l].chapter].draft /\ ~ course.draft

\* checkCanAccessLesson for a student.
CanAccess(u, l) == u \in enrolled /\ Visible(l)

\* previousLessons of hasCompletedAllPreviousLessons, for a lesson of order o
\* in chapter c of order co.  Neither the draft flag nor the deletion of the
\* lessons' own chapters is asked for.
PublishedLive(l) == LessonLive(l) /\ ~ lesson[l].draft
PrecedingOrSame(c, co, o) ==  \* mutant: lte in place of lt
  {l \in LessonIds :
     /\ PublishedLive(l)
     /\ \/ chapter[lesson[l].chapter].order < co
        \/ lesson[l].chapter = c /\ lesson[l].order <= o}
PrecedingInChapter(c, co, o) ==  \* mutant: earlier chapters are forgotten
  {l \in LessonIds :
     PublishedLive(l) /\ lesson[l].chapter = c /\ lesson[l].order < o}
Preceding(c, co, o) ==
  {l \in LessonIds :
     /\ PublishedLive(l)
     /\ \/ chapter[lesson[l].chapter].order < co
        \/ lesson[l].chapter = c /\ lesson[l].order < o}

Before(l) ==
  Preceding(lesson[l].chapter, chapter[lesson[l].chapter].order, lesson[l].order)

Done(u, ls) == \A l \in ls : <<u, l>> \in progress

\* The ids' sequences: the next id of each table.
NextChapter == Cardinality({c \in ChapterIds : ChapterThere(c)}) + 1
NextLesson == Cardinality({l \in LessonIds : LessonThere(l)}) + 1

(* Control of a request, and row locks *)

At(s, pc) == req[s].pc = pc
Finish(s) == req' = [req EXCEPT ![s] = IdleReq]
Start(s, row) == At(s, "idle") /\ req' = [req EXCEPT ![s] = row]

\* Rows a delete has marked and not committed.
ChapterLocked(c) ==
  \E x \in Slots : req[x].pc \in {"deleteLessons", "commitDelete"}
                   /\ c \in req[x].chapters
LessonLocked(l) ==
  \E x \in Slots : At(x, "commitDelete") /\ l \in req[x].lessons

Edit(kind) == kind \in EditKinds /\ edits < MaxEdits /\ edits' = edits + 1

-----------------------------------------------------------------------------
(* Creating *)

\* A new chapter's or lesson's order is the number of live ones there are.
LastChapterOrder ==  \* mutant: one too low
  Cardinality({c \in ChapterIds : ChapterLive(c)}) - 1
NewChapterOrder == Cardinality({c \in ChapterIds : ChapterLive(c)})
NewLessonOrder(c) ==
  Cardinality({l \in LessonIds : LessonLive(l) /\ lesson[l].chapter = c})

CreateChapter(s) ==
  /\ Edit("createChapter") /\ ~ course.deleted
  /\ Start(s, [IdleReq EXCEPT !.pc = "countChapters"])
  /\ UNCHANGED <<course, chapter, lesson, progress, enrolled, reshaped>>

CountChapters(s) ==
  /\ At(s, "countChapters")
  /\ req' = [req EXCEPT ![s].pc = "insertChapter", ![s].order = NewChapterOrder]
  /\ UNCHANGED <<course, chapter, lesson, progress, enrolled, edits, reshaped>>

\* Past the last id the request is dropped (a bound of the model).
InsertChapter(s) ==
  /\ At(s, "insertChapter") /\ Finish(s)
  /\ IF NextChapter \in ChapterIds
     THEN \E d \in BOOLEAN :
            chapter' = [chapter EXCEPT ![NextChapter] =
                          [order |-> req[s].order, draft |-> d, deleted |-> FALSE]]
     ELSE UNCHANGED chapter
  /\ UNCHANGED <<course, lesson, progress, enrolled, edits, reshaped>>

CreateLesson(s, c) ==
  /\ Edit("createLesson") /\ ChapterLive(c) /\ ~ course.deleted
  /\ Start(s, [IdleReq EXCEPT !.pc = "countLessons", !.chapter = c])
  /\ UNCHANGED <<course, chapter, lesson, progress, enrolled, reshaped>>

CountLessons(s) ==
  /\ At(s, "countLessons")
  /\ req' = [req EXCEPT ![s].pc = "insertLesson",
                        ![s].order = NewLessonOrder(req[s].chapter)]
  /\ UNCHANGED <<course, chapter, lesson, progress, enrolled, edits, reshaped>>

\* A foreign key to the chapter's row does not wait for a soft delete of it.
InsertLesson(s) ==
  /\ At(s, "insertLesson") /\ Finish(s)
  /\ IF NextLesson \in LessonIds
     THEN /\ \E d \in BOOLEAN :
               lesson' = [lesson EXCEPT ![NextLesson] =
                            [chapter |-> req[s].chapter, order |-> req[s].order,
                             draft |-> d, deleted |-> FALSE]]
          /\ reshaped' = TRUE
     ELSE UNCHANGED <<lesson, reshaped>>
  /\ UNCHANGED <<course, chapter, progress, enrolled, edits>>

-----------------------------------------------------------------------------
(* Editing *)

UpdateChapter(c, d) ==
  /\ Edit("editChapter")
  /\ ChapterLive(c) /\ ~ course.deleted /\ ~ ChapterLocked(c)
  /\ chapter' = [chapter EXCEPT ![c].draft = d]
  /\ UNCHANGED <<course, lesson, progress, enrolled, req, reshaped>>

\* The body names the lesson's chapter, which must be one of the course's,
\* deleted or not.
UpdateLesson(s, l, c) ==
  /\ Edit("editLesson") /\ Editable(l) /\ ChapterThere(c)
  /\ Start(s, [IdleReq EXCEPT !.pc = "writeLesson", !.lesson = l, !.chapter = c])
  /\ UNCHANGED <<course, chapter, lesson, progress, enrolled, reshaped>>

WriteLesson(s) ==
  LET l == req[s].lesson
  IN /\ At(s, "writeLesson") /\ ~ LessonLocked(l) /\ Finish(s)
     /\ IF lesson[l].deleted
        THEN UNCHANGED <<lesson, reshaped>>
        ELSE \E d \in BOOLEAN :
               /\ lesson' = [lesson EXCEPT ![l].chapter = req[s].chapter,
                                           ![l].draft = d]
               /\ reshaped' = (reshaped \/ ~ d \/ req[s].chapter # lesson[l].chapter)
     /\ UNCHANGED <<course, chapter, progress, enrolled, edits>>

DeleteLesson(l) ==
  /\ Edit("deleteLesson") /\ Editable(l) /\ ~ LessonLocked(l)
  /\ lesson' = [lesson EXCEPT ![l].deleted = TRUE]
  /\ UNCHANGED <<course, chapter, progress, enrolled, req, reshaped>>

\* updateCourse, as far as the outline is concerned.
DraftCourse(d) ==
  /\ Edit("draftCourse") /\ ~ course.deleted
  /\ course' = [course EXCEPT !.draft = d]
  /\ UNCHANGED <<chapter, lesson, progress, enrolled, req, reshaped>>

-----------------------------------------------------------------------------
(* Deleting a chapter, or the course, with everything under it *)

DeleteChapter(s, c) ==
  /\ Edit("deleteChapter")
  /\ ChapterLive(c) /\ ~ course.deleted /\ ~ ChapterLocked(c)
  /\ Start(s, [IdleReq EXCEPT !.pc = "deleteLessons", !.chapters = {c}])
  /\ UNCHANGED <<course, chapter, lesson, progress, enrolled, reshaped>>

\* deleteCourse marks the live chapters first; its update of the course's own
\* row, not awaited where it is written, runs last, when it is returned.
DeleteCourse(s) ==
  LET live == {c \in ChapterIds : ChapterLive(c)}
  IN /\ Edit("deleteCourse") /\ \A c \in live : ~ ChapterLocked(c)
     /\ Start(s, [IdleReq EXCEPT !.pc = "deleteLessons", !.chapters = live,
                                 !.whole = TRUE])
     /\ UNCHANGED <<course, chapter, lesson, progress, enrolled, reshaped>>

\* The live lessons of the chapters this transaction has marked.
LessonsToDelete(s) ==
  {l \in LessonIds : LessonLive(l) /\ lesson[l].chapter \in req[s].chapters}

DeleteLessons(s) ==
  /\ At(s, "deleteLessons") /\ \A l \in LessonsToDelete(s) : ~ LessonLocked(l)
  /\ req' = [req EXCEPT ![s].pc = "commitDelete", ![s].lessons = LessonsToDelete(s)]
  /\ UNCHANGED <<course, chapter, lesson, progress, enrolled, edits, reshaped>>

\* A course that is deleted already makes its update, and all the rest, fail.
CommitDelete(s) ==
  /\ At(s, "commitDelete") /\ Finish(s)
  /\ IF req[s].whole /\ course.deleted
     THEN UNCHANGED <<course, chapter, lesson>>
     ELSE /\ course' = [course EXCEPT !.deleted = @ \/ req[s].whole]
          /\ chapter' = [c \in ChapterIds |->
               IF c \in req[s].chapters THEN [chapter[c] EXCEPT !.deleted = TRUE]
                                        ELSE chapter[c]]
          /\ lesson' = [l \in LessonIds |->
               IF l \in req[s].lessons THEN [lesson[l] EXCEPT !.deleted = TRUE]
                                       ELSE lesson[l]]
  /\ UNCHANGED <<progress, enrolled, edits, reshaped>>

-----------------------------------------------------------------------------
(* Reordering *)

ReorderRead(s, p) ==
  /\ Edit("reorder") /\ ~ course.deleted
  /\ \A c \in DOMAIN p.chapters : ChapterLive(c)
  /\ \A l \in DOMAIN p.lessons : Editable(l)
  /\ Start(s, [IdleReq EXCEPT !.pc = "reorder", !.plan = p])
  /\ UNCHANGED <<course, chapter, lesson, progress, enrolled, reshaped>>

ReorderWrite(s) ==
  LET p == req[s].plan
  IN /\ At(s, "reorder") /\ Finish(s)
     /\ \A c \in DOMAIN p.chapters : ~ ChapterLocked(c)
     /\ \A l \in DOMAIN p.lessons : ~ LessonLocked(l)
     /\ chapter' = [c \in ChapterIds |->
          IF c \in DOMAIN p.chapters
          THEN [chapter[c] EXCEPT !.order = p.chapters[c]] ELSE chapter[c]]
     /\ lesson' = [l \in LessonIds |->
          IF l \in DOMAIN p.lessons
          THEN [lesson[l] EXCEPT !.chapter = p.lessons[l].chapter,
                                 !.order = p.lessons[l].order] ELSE lesson[l]]
     /\ reshaped' = TRUE
     /\ UNCHANGED <<course, progress, enrolled, edits>>

\* Two of these transactions take their locks in different orders, and
\* PostgreSQL aborts one.
Aborted(s) ==
  /\ req[s].pc \in {"deleteLessons", "reorder"}
  /\ \E x \in Slots \ {s} : req[x].pc \in {"deleteLessons", "commitDelete", "reorder"}
  /\ Finish(s)
  /\ UNCHANGED <<course, chapter, lesson, progress, enrolled, edits, reshaped>>

-----------------------------------------------------------------------------
(* POST /lessons/:lessonId/complete *)

CompleteLesson(s, u, l) ==
  /\ CanAccess(u, l)
  /\ Start(s, [IdleReq EXCEPT !.pc = "current", !.student = u, !.lesson = l])
  /\ UNCHANGED <<course, chapter, lesson, progress, enrolled, edits, reshaped>>

ReadCurrent(s) ==
  LET l == req[s].lesson
      c == lesson[l].chapter
  IN /\ At(s, "current")
     /\ IF Visible(l)
        THEN req' = [req EXCEPT ![s].pc = "previous", ![s].chapter = c,
                                ![s].chapterOrder = chapter[c].order,
                                ![s].order = lesson[l].order]
        ELSE Finish(s)
     /\ UNCHANGED <<course, chapter, lesson, progress, enrolled, edits, reshaped>>

ReadPrevious(s) ==
  /\ At(s, "previous")
  /\ req' = [req EXCEPT ![s].pc = "incomplete",
               ![s].lessons = Preceding(req[s].chapter, req[s].chapterOrder,
                                        req[s].order)]
  /\ UNCHANGED <<course, chapter, lesson, progress, enrolled, edits, reshaped>>

CountIncomplete(s) ==
  /\ At(s, "incomplete")
  /\ IF Done(req[s].student, req[s].lessons)
     THEN req' = [req EXCEPT ![s].pc = "confirm"]
     ELSE Finish(s)
  /\ UNCHANGED <<course, chapter, lesson, progress, enrolled, edits, reshaped>>

\* completeLesson asks again whether the lesson is there, but not whether it,
\* its chapter or the course has become a draft.
Confirm(s) ==
  /\ At(s, "confirm")
  /\ IF Editable(req[s].lesson) THEN req' = [req EXCEPT ![s].pc = "upsert"]
                                ELSE Finish(s)
  /\ UNCHANGED <<course, chapter, lesson, progress, enrolled, edits, reshaped>>

Upsert(s) ==
  /\ At(s, "upsert") /\ Finish(s)
  /\ progress' = progress \cup {<<req[s].student, req[s].lesson>>}
  /\ UNCHANGED <<course, chapter, lesson, enrolled, edits, reshaped>>

(* The roster, which Checkout and the teachers change. *)
SetEnrolled(us) ==
  /\ Edit("roster")
  /\ enrolled' = us
  /\ UNCHANGED <<course, chapter, lesson, progress, req, reshaped>>

\* No request is left: the course may rest here.
Quiescent == (\A s \in Slots : At(s, "idle")) /\ UNCHANGED vars

-----------------------------------------------------------------------------
Teach(s) ==
  \/ CreateChapter(s) \/ DeleteCourse(s)
  \/ \E c \in ChapterIds :
       \/ CreateLesson(s, c) \/ DeleteChapter(s, c)
       \/ \E l \in LessonIds : UpdateLesson(s, l, c)
  \/ \E p \in Plans : ReorderRead(s, p)

TeachAtOnce ==
  \/ \E c \in ChapterIds, d \in BOOLEAN : UpdateChapter(c, d)
  \/ \E l \in LessonIds : DeleteLesson(l)
  \/ \E d \in BOOLEAN : DraftCourse(d)
  \/ \E us \in SUBSET Students : SetEnrolled(us)

Study(s, u) == \E l \in LessonIds : CompleteLesson(s, u, l)

Continue(s) ==
  \/ CountChapters(s) \/ InsertChapter(s) \/ CountLessons(s) \/ InsertLesson(s)
  \/ WriteLesson(s) \/ DeleteLessons(s) \/ CommitDelete(s)
  \/ ReorderWrite(s) \/ Aborted(s)
  \/ ReadCurrent(s) \/ ReadPrevious(s) \/ CountIncomplete(s)
  \/ Confirm(s) \/ Upsert(s)

Next ==
  \/ \E s \in Slots : Teach(s) \/ Continue(s) \/ \E u \in Students : Study(s, u)
  \/ TeachAtOnce
  \/ Quiescent

Spec == Init /\ [][Next]_vars

(* Node runs every request on.  A diligent student sends a request for a    *)
(* lesson that is open and not done whenever there is one, for ever.        *)
NextLessonOf(s, u) ==
  \E l \in LessonIds : /\ CompleteLesson(s, u, l)
                       /\ <<u, l>> \notin progress /\ Done(u, Before(l))

StudySpec ==
  /\ Spec
  /\ \A s \in Slots : WF_vars(Continue(s))
  /\ \A u \in Students : SF_vars(\E s \in Slots : NextLessonOf(s, u))

-----------------------------------------------------------------------------
(* Properties *)

\* Every row and request stays in the shape its table and handler give it.
TypeOK ==
  /\ course \in [draft : BOOLEAN, deleted : BOOLEAN]
  /\ chapter \in [ChapterIds -> ChapterRow \cup {None}]
  /\ lesson \in [LessonIds -> LessonRow \cup {None}]
  /\ progress \subseteq Students \X LessonIds
  /\ enrolled \subseteq Students
  /\ req \in [Slots -> ReqRow]
  /\ edits \in 0..MaxEdits
  /\ reshaped \in BOOLEAN

Shown == {l \in LessonIds : Visible(l)}
ShownBefore(l) ==
  {p \in Shown :
     \/ chapter[lesson[p].chapter].order < chapter[lesson[l].chapter].order
     \/ lesson[p].chapter = lesson[l].chapter /\ lesson[p].order < lesson[l].order}

\* The gate: until a lesson is added, published, moved or reordered, whoever
\* has completed a lesson has completed every shown lesson before it, however
\* the student's requests overlap and whatever is hidden, deleted or shown
\* again between the gate's four reads.
ProgressInOrder ==
  ~ reshaped => \A e \in progress : Done(e[1], ShownBefore(e[2]))

\* Nobody is locked out: when no published lesson sits in a draft or deleted
\* chapter, a student who has not finished has an unfinished lesson that opens,
\* whatever edits have made of the orders.
NothingHidden == \A l \in LessonIds : PublishedLive(l) => Visible(l)
NoLockout ==
  NothingHidden =>
    \A u \in Students :
      \/ Done(u, Shown)
      \/ \E l \in Shown : <<u, l>> \notin progress /\ Done(u, Before(l))

\* 'Bài đầu tiên luôn được mở' (tasks/task-180526.md): a lesson that no shown
\* lesson precedes is open.
FirstLessonOpen ==
  \A u \in Students, l \in Shown :
    Before(l) \cap Shown = {} => Done(u, Before(l))

\* Whoever keeps studying finishes: from some moment on every shown lesson is
\* done, unless the student is no longer enrolled or a published lesson hides
\* in a draft or deleted chapter.
StudyEnds ==
  \A u \in Students :
    <>[](u \notin enrolled \/ ~ NothingHidden \/ Done(u, Shown))
=============================================================================
