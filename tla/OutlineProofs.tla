----------------------------- MODULE OutlineProofs -----------------------------
(***************************************************************************)
(* Proofs about the outline and the lesson gate, for any outline, edits,     *)
(* students and overlapping completions.                                     *)
(***************************************************************************)
EXTENDS Outline, FiniteSetTheorems, WellFoundedInduction, TLAPS

-----------------------------------------------------------------------------
(* The inductive invariant *)

LessonsPlaced == \A l \in LessonIds : LessonThere(l) => ChapterThere(lesson[l].chapter)

\* Ids are used in order, so that a new chapter takes no other's place.
IdsDense == \A c \in ChapterIds : ChapterThere(c) => \A d \in 1..c : ChapterThere(d)

GatePcs == {"current", "previous", "incomplete", "confirm", "upsert"}

\* What a request refers to is there, and rows are never removed.
Sound(r) ==
  /\ r.pc \in {"countLessons", "insertLesson", "writeLesson"} =>
       r.chapter \in ChapterIds /\ ChapterThere(r.chapter)
  /\ r.pc \in GatePcs \cup {"writeLesson"} => r.lesson \in LessonIds /\ LessonThere(r.lesson)
  /\ r.pc \in GatePcs => r.student \in Students
  /\ r.pc \in {"deleteLessons", "commitDelete"} => \A c \in r.chapters : ChapterThere(c)
  /\ r.pc = "commitDelete" => \A l \in r.lessons : LessonThere(l)
  /\ r.pc = "reorder" => /\ r.plan \in Plans
                         /\ \A c \in DOMAIN r.plan.chapters : ChapterThere(c)
                         /\ \A l \in DOMAIN r.plan.lessons : LessonThere(l)

\* As long as nothing has been put anywhere: where the request's lesson is, what precedes
\* it, and in the end that the student has completed all that.
Gated(r) ==
  /\ r.pc = "previous" =>
       /\ r.chapter = lesson[r.lesson].chapter /\ r.order = lesson[r.lesson].order
       /\ r.chapterOrder = chapter[lesson[r.lesson].chapter].order
  /\ r.pc = "incomplete" => Before(r.lesson) \subseteq r.lessons
  /\ r.pc \in {"confirm", "upsert"} => Done(r.student, Before(r.lesson))

CompletedInOrder ==
  \A e \in progress : LessonThere(e[2]) /\ Done(e[1], Before(e[2]))

OutlineInv ==
  /\ TypeOK /\ LessonsPlaced /\ IdsDense
  /\ \A s \in Slots : Sound(req[s])
  /\ ~ reshaped => CompletedInOrder /\ \A s \in Slots : Gated(req[s])

-----------------------------------------------------------------------------
(* What edits leave alone *)

Kept ==
  /\ \A c \in ChapterIds : ChapterThere(c) => ChapterThere(c)'
  /\ \A l \in LessonIds : LessonThere(l) => LessonThere(l)'

\* Unless the outline is reshaped, lessons and chapters stay where they are, and no lesson
\* is published or added.
InPlace ==
  ~ reshaped' =>
    /\ ~ reshaped
    /\ \A c \in ChapterIds : ChapterThere(c) => chapter'[c].order = chapter[c].order
    /\ \A l \in LessonIds : LessonThere(l) =>
         lesson'[l].chapter = lesson[l].chapter /\ lesson'[l].order = lesson[l].order
    /\ \A l \in LessonIds : PublishedLive(l)' => PublishedLive(l)
    /\ \A l \in LessonIds : LessonThere(l)' => LessonThere(l)

LEMMA PlacedIn ==
  ASSUME OutlineInv, NEW l \in LessonIds, LessonThere(l)
  PROVE  /\ lesson[l] \in LessonRow /\ lesson[l].chapter \in ChapterIds
         /\ ChapterThere(lesson[l].chapter) /\ chapter[lesson[l].chapter] \in ChapterRow
<1>1. lesson[l] \in LessonRow  BY DEF OutlineInv, TypeOK, LessonThere
<1>2. lesson[l].chapter \in ChapterIds  BY <1>1 DEF LessonRow
<1> QED  BY <1>1, <1>2 DEF OutlineInv, LessonsPlaced, TypeOK, ChapterThere

\* Then no lesson gets more lessons before it.
LEMMA BeforeShrinks ==
  ASSUME OutlineInv, InPlace, ~ reshaped', NEW l \in LessonIds, LessonThere(l)
  PROVE  Before(l)' \subseteq Before(l)
<1> SUFFICES ASSUME NEW p \in Before(l)'  PROVE p \in Before(l)
  OBVIOUS
<1>1. /\ p \in LessonIds /\ PublishedLive(p)'
      /\ \/ chapter'[lesson'[p].chapter].order < chapter'[lesson'[l].chapter].order
         \/ lesson'[p].chapter = lesson'[l].chapter /\ lesson'[p].order < lesson'[l].order
  BY DEF Before, Preceding
<1>2. PublishedLive(p) /\ LessonThere(p)
  BY <1>1 DEF InPlace, PublishedLive, LessonLive
<1>3. \A x \in {l, p} :
        /\ lesson'[x].chapter = lesson[x].chapter /\ lesson'[x].order = lesson[x].order
        /\ chapter'[lesson[x].chapter].order = chapter[lesson[x].chapter].order
  BY <1>1, <1>2, PlacedIn DEF InPlace
<1> QED  BY <1>1, <1>2, <1>3 DEF Before, Preceding

LEMMA SoundStays ==
  ASSUME Kept, NEW r \in ReqRow, Sound(r), \A p \in Plans : PlanShape(p)
  PROVE  Sound(r)'
<1>1. r.chapters \subseteq ChapterIds /\ r.lessons \subseteq LessonIds
  BY DEF ReqRow
<1>2. r.plan \in Plans => DOMAIN r.plan.chapters \subseteq ChapterIds
                          /\ DOMAIN r.plan.lessons \subseteq LessonIds
  BY DEF PlanShape
<1> QED  BY <1>1, <1>2 DEF Sound, Kept

LEMMA GatedStays ==
  ASSUME OutlineInv, InPlace, ~ reshaped', progress \subseteq progress',
         NEW r \in ReqRow, Sound(r), Gated(r)
  PROVE  Gated(r)'
<1>1. r.pc \in GatePcs => /\ r.lesson \in LessonIds /\ LessonThere(r.lesson)
                          /\ Before(r.lesson)' \subseteq Before(r.lesson)
  BY BeforeShrinks DEF Sound
<1>2. ASSUME r.pc = "previous"
      PROVE  /\ r.chapter = lesson'[r.lesson].chapter /\ r.order = lesson'[r.lesson].order
             /\ r.chapterOrder = chapter'[lesson'[r.lesson].chapter].order
  BY <1>1, <1>2, PlacedIn DEF Gated, GatePcs, InPlace
<1>3. r.pc = "incomplete" => Before(r.lesson)' \subseteq r.lessons
  BY <1>1 DEF Gated, GatePcs
<1>4. r.pc \in {"confirm", "upsert"} => Done(r.student, Before(r.lesson))'
  BY <1>1 DEF Gated, GatePcs, Done
<1> QED  BY <1>2, <1>3, <1>4 DEF Gated

\* Tables change, requests at most end.
LEMMA TablesMove ==
  ASSUME OutlineInv, TypeOK', LessonsPlaced', IdsDense', Kept, InPlace,
         UNCHANGED progress,
         \A x \in Slots : req'[x] = req[x] \/ req'[x] = IdleReq
  PROVE  OutlineInv' /\ InPlace
<1>1. ASSUME NEW x \in Slots  PROVE Sound(req[x])' /\ (~ reshaped' => Gated(req[x])')
  <2>1. CASE req'[x] = IdleReq  BY <2>1 DEF Sound, Gated, IdleReq, GatePcs
  <2>2. CASE req'[x] = req[x]
    <3>1. req[x] \in ReqRow /\ Sound(req[x])  BY DEF OutlineInv, TypeOK
    <3>2. ASSUME NEW r \in ReqRow, r = req[x]
          PROVE  Sound(r)' /\ (~ reshaped' => Gated(r)')
      <4>1. Sound(r)'  BY <3>1, <3>2, SoundStays, OutlineAssumption
      <4>2. ~ reshaped' => Gated(r)
        BY <3>2 DEF OutlineInv, InPlace
      <4> QED  BY <3>1, <3>2, <4>1, <4>2, GatedStays
    <3> QED  BY <2>2, <3>1, <3>2
  <2> QED  BY <1>1, <2>1, <2>2
<1>2. ~ reshaped' => CompletedInOrder'
  <2> SUFFICES ASSUME ~ reshaped', NEW e \in progress
               PROVE  LessonThere(e[2])' /\ Done(e[1], Before(e[2]))'
    BY DEF CompletedInOrder
  <2>1. /\ e[2] \in LessonIds /\ LessonThere(e[2]) /\ Done(e[1], Before(e[2]))
    BY DEF OutlineInv, CompletedInOrder, InPlace, TypeOK
  <2>2. Before(e[2])' \subseteq Before(e[2])  BY <2>1, BeforeShrinks
  <2> QED  BY <2>1, <2>2 DEF Done, Kept
<1> QED  BY <1>1, <1>2 DEF OutlineInv

\* A request moves and the tables stand.
LEMMA RequestMoves ==
  ASSUME OutlineInv, NEW s \in Slots, NEW r \in ReqRow, req' = [req EXCEPT ![s] = r],
         UNCHANGED <<course, chapter, lesson, progress, reshaped>>,
         enrolled' \subseteq Students, edits' \in 0..MaxEdits,
         Sound(r), ~ reshaped => Gated(r)
  PROVE  OutlineInv' /\ InPlace
<1>1. TypeOK'  BY DEF OutlineInv, TypeOK
<1>2. LessonsPlaced' /\ IdsDense'
  BY DEF OutlineInv, LessonsPlaced, IdsDense, LessonThere, ChapterThere
<1>3. \A l : Before(l)' = Before(l)
  BY DEF Before, Preceding, PublishedLive, LessonLive, LessonThere
<1>4. \A x : Sound(x)' <=> Sound(x)  BY DEF Sound, ChapterThere, LessonThere
<1>5. \A x : Gated(x)' <=> Gated(x)  BY <1>3 DEF Gated, Done
<1>6. \A x \in Slots : req'[x] = req[x] \/ req'[x] = r  BY DEF OutlineInv, TypeOK
<1>7. CompletedInOrder' <=> CompletedInOrder
  BY <1>3 DEF CompletedInOrder, LessonThere, Done
<1>8. InPlace  BY DEF InPlace, PublishedLive, LessonLive, LessonThere
<1> QED  BY <1>1, <1>2, <1>4, <1>5, <1>6, <1>7, <1>8 DEF OutlineInv

-----------------------------------------------------------------------------
(* Requests *)

LEMMA IdleRow == IdleReq \in ReqRow /\ Sound(IdleReq) /\ Gated(IdleReq)
  BY SizeAssumption DEF IdleReq, ReqRow, Pcs, Sound, Gated, GatePcs

LEMMA IdsInRange ==
  /\ \A c \in ChapterIds : c \in 0..MaxChapters
  /\ \A l \in LessonIds : l \in 0..MaxLessons
  BY SizeAssumption DEF ChapterIds, LessonIds

LEMMA RowsThere ==
  /\ \A r \in ChapterRow : r # None
  /\ \A r \in LessonRow : r # None
  /\ \A u \in Students : u # None
  /\ \A p \in Plans : p # None
  BY OutlineAssumption

LEMMA EditsCount ==
  ASSUME OutlineInv, NEW kind, Edit(kind)
  PROVE  edits' \in 0..MaxEdits
  BY SizeAssumption DEF OutlineInv, TypeOK, Edit

LEMMA Finishes ==
  ASSUME OutlineInv, NEW s \in Slots, Finish(s),
         UNCHANGED <<course, chapter, lesson, progress, enrolled, edits, reshaped>>
  PROVE  OutlineInv' /\ InPlace
<1>1. enrolled' \subseteq Students /\ edits' \in 0..MaxEdits
  BY DEF OutlineInv, TypeOK
<1> QED  BY <1>1, IdleRow, RequestMoves DEF Finish

LEMMA CreateChapterKeeps ==
  ASSUME OutlineInv, NEW s \in Slots, CreateChapter(s)
  PROVE  OutlineInv' /\ InPlace
<1> DEFINE r == [IdleReq EXCEPT !.pc = "countChapters"]
<1>1. r \in ReqRow /\ r.pc = "countChapters"  BY IdleRow DEF ReqRow, Pcs
<1> HIDE DEF r
<1>2. Sound(r) /\ Gated(r)  BY <1>1 DEF Sound, Gated, GatePcs
<1>3. enrolled' \subseteq Students /\ edits' \in 0..MaxEdits
  BY EditsCount DEF CreateChapter, OutlineInv, TypeOK
<1>4. req' = [req EXCEPT ![s] = r]  BY DEF CreateChapter, Start, r
<1> QED  BY <1>1, <1>2, <1>3, <1>4, RequestMoves DEF CreateChapter

LEMMA CreateLessonKeeps ==
  ASSUME OutlineInv, NEW s \in Slots, NEW c \in ChapterIds, CreateLesson(s, c)
  PROVE  OutlineInv' /\ InPlace
<1> DEFINE r == [IdleReq EXCEPT !.pc = "countLessons", !.chapter = c]
<1>1. r \in ReqRow /\ r.pc = "countLessons" /\ r.chapter = c
  BY IdleRow, IdsInRange DEF ReqRow, Pcs
<1> HIDE DEF r
<1>2. Sound(r) /\ Gated(r)
  BY <1>1 DEF Sound, Gated, GatePcs, CreateLesson, ChapterLive
<1>3. enrolled' \subseteq Students /\ edits' \in 0..MaxEdits
  BY EditsCount DEF CreateLesson, OutlineInv, TypeOK
<1>4. req' = [req EXCEPT ![s] = r]  BY DEF CreateLesson, Start, r
<1> QED  BY <1>1, <1>2, <1>3, <1>4, RequestMoves DEF CreateLesson

LEMMA UpdateLessonKeeps ==
  ASSUME OutlineInv, NEW s \in Slots, NEW l \in LessonIds, NEW c \in ChapterIds,
         UpdateLesson(s, l, c)
  PROVE  OutlineInv' /\ InPlace
<1> DEFINE r == [IdleReq EXCEPT !.pc = "writeLesson", !.lesson = l, !.chapter = c]
<1>1. r \in ReqRow /\ r.pc = "writeLesson" /\ r.chapter = c /\ r.lesson = l
  BY IdleRow, IdsInRange DEF ReqRow, Pcs
<1> HIDE DEF r
<1>2. Sound(r) /\ Gated(r)
  BY <1>1 DEF Sound, Gated, GatePcs, UpdateLesson, Editable, LessonLive
<1>3. enrolled' \subseteq Students /\ edits' \in 0..MaxEdits
  BY EditsCount DEF UpdateLesson, OutlineInv, TypeOK
<1>4. req' = [req EXCEPT ![s] = r]  BY DEF UpdateLesson, Start, r
<1> QED  BY <1>1, <1>2, <1>3, <1>4, RequestMoves DEF UpdateLesson

\* Both deletions: chapters that are there are marked.
LEMMA DeletionsKeep ==
  ASSUME OutlineInv, NEW s \in Slots,
         DeleteCourse(s) \/ \E c \in ChapterIds : DeleteChapter(s, c)
  PROVE  OutlineInv' /\ InPlace
<1>1. ASSUME NEW r \in ReqRow, r.pc = "deleteLessons", \A c \in r.chapters : ChapterThere(c),
             req' = [req EXCEPT ![s] = r], edits' \in 0..MaxEdits,
             UNCHANGED <<course, chapter, lesson, progress, enrolled, reshaped>>
      PROVE  OutlineInv' /\ InPlace
  <2>1. Sound(r) /\ Gated(r)  BY <1>1 DEF Sound, Gated, GatePcs
  <2>2. enrolled' \subseteq Students  BY <1>1 DEF OutlineInv, TypeOK
  <2> QED  BY <1>1, <2>1, <2>2, RequestMoves
<1>2. ASSUME NEW c \in ChapterIds, DeleteChapter(s, c)  PROVE OutlineInv' /\ InPlace
  <2> DEFINE r == [IdleReq EXCEPT !.pc = "deleteLessons", !.chapters = {c}]
  <2>1. r \in ReqRow /\ r.pc = "deleteLessons" /\ r.chapters = {c}
    BY IdleRow DEF ReqRow, Pcs
  <2>2. edits' \in 0..MaxEdits /\ ChapterThere(c) /\ req' = [req EXCEPT ![s] = r]
    BY <1>2, EditsCount DEF DeleteChapter, ChapterLive, Start
  <2> HIDE DEF r
  <2> QED  BY <1>1, <1>2, <2>1, <2>2 DEF DeleteChapter
<1>3. ASSUME DeleteCourse(s)  PROVE OutlineInv' /\ InPlace
  <2> DEFINE live == {c \in ChapterIds : ChapterLive(c)}
  <2> DEFINE r == [IdleReq EXCEPT !.pc = "deleteLessons", !.chapters = live, !.whole = TRUE]
  <2>1. r \in ReqRow /\ r.pc = "deleteLessons" /\ r.chapters = live
    BY IdleRow DEF ReqRow, Pcs
  <2>2. edits' \in 0..MaxEdits /\ req' = [req EXCEPT ![s] = r]
    BY <1>3, EditsCount DEF DeleteCourse, Start
  <2>3. \A c \in live : ChapterThere(c)  BY DEF ChapterLive
  <2> HIDE DEF r, live
  <2> QED  BY <1>1, <1>3, <2>1, <2>2, <2>3 DEF DeleteCourse
<1> QED  BY <1>2, <1>3

LEMMA ReorderReadKeeps ==
  ASSUME OutlineInv, NEW s \in Slots, NEW p \in Plans, ReorderRead(s, p)
  PROVE  OutlineInv' /\ InPlace
<1> DEFINE r == [IdleReq EXCEPT !.pc = "reorder", !.plan = p]
<1>1. r \in ReqRow /\ r.pc = "reorder" /\ r.plan = p
  BY IdleRow DEF ReqRow, Pcs
<1> HIDE DEF r
<1>2. Sound(r) /\ Gated(r)
  BY <1>1 DEF Sound, Gated, GatePcs, ReorderRead, ChapterLive, Editable, LessonLive
<1>3. enrolled' \subseteq Students /\ edits' \in 0..MaxEdits
  BY EditsCount DEF ReorderRead, OutlineInv, TypeOK
<1>4. req' = [req EXCEPT ![s] = r]  BY DEF ReorderRead, Start, r
<1> QED  BY <1>1, <1>2, <1>3, <1>4, RequestMoves DEF ReorderRead

LEMMA CompleteLessonKeeps ==
  ASSUME OutlineInv, NEW s \in Slots, NEW u \in Students, NEW l \in LessonIds,
         CompleteLesson(s, u, l)
  PROVE  OutlineInv' /\ InPlace
<1> DEFINE r == [IdleReq EXCEPT !.pc = "current", !.student = u, !.lesson = l]
<1>1. r \in ReqRow /\ r.pc = "current" /\ r.student = u /\ r.lesson = l
  BY IdleRow, IdsInRange DEF ReqRow, Pcs
<1> HIDE DEF r
<1>2. Sound(r) /\ Gated(r)
  BY <1>1 DEF Sound, Gated, GatePcs, CompleteLesson, CanAccess, Visible, Editable, LessonLive
<1>3. enrolled' \subseteq Students /\ edits' \in 0..MaxEdits
  BY DEF CompleteLesson, OutlineInv, TypeOK
<1>4. req' = [req EXCEPT ![s] = r]  BY DEF CompleteLesson, Start, r
<1> QED  BY <1>1, <1>2, <1>3, <1>4, RequestMoves DEF CompleteLesson

LEMMA CountsAreNat ==
  /\ NewChapterOrder \in Nat
  /\ \A c : NewLessonOrder(c) \in Nat
<1>1. IsFiniteSet(ChapterIds) /\ IsFiniteSet(LessonIds)
  BY FS_Interval, SizeAssumption DEF ChapterIds, LessonIds
<1> QED  BY <1>1, FS_Subset, FS_CardinalityType DEF NewChapterOrder, NewLessonOrder

LEMMA CountsKeep ==
  ASSUME OutlineInv, NEW s \in Slots, CountChapters(s) \/ CountLessons(s)
  PROVE  OutlineInv' /\ InPlace
<1>1. enrolled' \subseteq Students /\ edits' \in 0..MaxEdits /\ req[s] \in ReqRow
      /\ req \in [Slots -> ReqRow] /\ Sound(req[s])
  BY DEF CountChapters, CountLessons, OutlineInv, TypeOK
<1>2. ASSUME CountChapters(s)  PROVE OutlineInv' /\ InPlace
  <2> DEFINE r == [req[s] EXCEPT !.pc = "insertChapter", !.order = NewChapterOrder]
  <2>1. r \in ReqRow /\ r.pc = "insertChapter"
    BY <1>1, CountsAreNat DEF ReqRow, Pcs
  <2>2. req' = [req EXCEPT ![s] = r]  BY <1>1, <1>2 DEF CountChapters
  <2> HIDE DEF r
  <2>3. Sound(r) /\ Gated(r)  BY <2>1 DEF Sound, Gated, GatePcs
  <2> QED  BY <1>1, <1>2, <2>1, <2>2, <2>3, RequestMoves DEF CountChapters
<1>3. ASSUME CountLessons(s)  PROVE OutlineInv' /\ InPlace
  <2> DEFINE r == [req[s] EXCEPT !.pc = "insertLesson",
                                 !.order = NewLessonOrder(req[s].chapter)]
  <2>1. r \in ReqRow /\ r.pc = "insertLesson" /\ r.chapter = req[s].chapter
    BY <1>1, CountsAreNat DEF ReqRow, Pcs
  <2>2. req' = [req EXCEPT ![s] = r]  BY <1>1, <1>3 DEF CountLessons
  <2>3. req[s].chapter \in ChapterIds /\ ChapterThere(req[s].chapter)
    BY <1>1, <1>3 DEF CountLessons, At, Sound
  <2> HIDE DEF r
  <2>4. Sound(r) /\ Gated(r)  BY <2>1, <2>3 DEF Sound, Gated, GatePcs
  <2> QED  BY <1>1, <1>3, <2>1, <2>2, <2>4, RequestMoves DEF CountLessons
<1> QED  BY <1>2, <1>3

LEMMA DeleteLessonsKeeps ==
  ASSUME OutlineInv, NEW s \in Slots, DeleteLessons(s)
  PROVE  OutlineInv' /\ InPlace
<1> DEFINE r == [req[s] EXCEPT !.pc = "commitDelete", !.lessons = LessonsToDelete(s)]
<1>1. enrolled' \subseteq Students /\ edits' \in 0..MaxEdits /\ req[s] \in ReqRow
      /\ req \in [Slots -> ReqRow] /\ Sound(req[s]) /\ req[s].pc = "deleteLessons"
  BY DEF DeleteLessons, At, OutlineInv, TypeOK
<1>2. LessonsToDelete(s) \subseteq LessonIds /\ \A l \in LessonsToDelete(s) : LessonThere(l)
  BY DEF LessonsToDelete, LessonLive
<1>3. /\ r \in ReqRow /\ r.pc = "commitDelete" /\ r.chapters = req[s].chapters
      /\ r.lessons = LessonsToDelete(s)
  BY <1>1, <1>2 DEF ReqRow, Pcs
<1>4. req' = [req EXCEPT ![s] = r]  BY <1>1 DEF DeleteLessons
<1> HIDE DEF r
<1>5. Sound(r) /\ Gated(r)
  BY <1>1, <1>2, <1>3 DEF Sound, Gated, GatePcs
<1> QED  BY <1>1, <1>3, <1>4, <1>5, RequestMoves DEF DeleteLessons

-----------------------------------------------------------------------------
(* The gate *)

\* What all requests at the gate have in common.
LEMMA AtTheGate ==
  ASSUME OutlineInv, NEW s \in Slots, req[s].pc \in GatePcs
  PROVE  /\ req[s] \in ReqRow /\ req \in [Slots -> ReqRow]
         /\ Sound(req[s]) /\ (~ reshaped => Gated(req[s]))
         /\ req[s].lesson \in LessonIds /\ LessonThere(req[s].lesson)
         /\ req[s].student \in Students
         /\ enrolled \subseteq Students /\ edits \in 0..MaxEdits
  BY DEF OutlineInv, TypeOK, Sound

LEMMA ReadCurrentKeeps ==
  ASSUME OutlineInv, NEW s \in Slots, ReadCurrent(s)
  PROVE  OutlineInv' /\ InPlace
<1> DEFINE l == req[s].lesson
<1> DEFINE c == lesson[l].chapter
<1> DEFINE r == [req[s] EXCEPT !.pc = "previous", !.chapter = c,
                               !.chapterOrder = chapter[c].order, !.order = lesson[l].order]
<1>1. req[s].pc \in GatePcs  BY DEF ReadCurrent, At, GatePcs
<1>2. CASE Finish(s)  BY <1>2, Finishes DEF ReadCurrent
<1>3. CASE req' = [req EXCEPT ![s].pc = "previous", ![s].chapter = c,
                              ![s].chapterOrder = chapter[c].order, ![s].order = lesson[l].order]
  <2>1. lesson[l].order \in Nat /\ c \in 0..MaxChapters /\ chapter[c].order \in Nat
    BY <1>1, AtTheGate, PlacedIn, IdsInRange DEF LessonRow, ChapterRow
  <2>2. req[s] \in ReqRow /\ req \in [Slots -> ReqRow]  BY <1>1, AtTheGate
  <2> HIDE DEF c, l
  <2>3. /\ r \in ReqRow /\ r.pc = "previous" /\ r.lesson = req[s].lesson
        /\ r.student = req[s].student /\ r.chapter = c
        /\ r.chapterOrder = chapter[c].order /\ r.order = lesson[l].order
    BY <2>1, <2>2 DEF ReqRow, Pcs
  <2>4. req' = [req EXCEPT ![s] = r]  BY <1>3, <2>2
  <2> HIDE DEF r
  <2>5. Sound(r) /\ Gated(r)
    BY <1>1, <2>3, AtTheGate DEF Sound, Gated, GatePcs, c, l
  <2> QED  BY <1>1, <2>3, <2>4, <2>5, AtTheGate, RequestMoves DEF ReadCurrent
<1> QED  BY <1>2, <1>3 DEF ReadCurrent

\* As long as nothing moves, the place that was read is the lesson's, so that what is read
\* now is what precedes it now.
LEMMA ReadPreviousKeeps ==
  ASSUME OutlineInv, NEW s \in Slots, ReadPrevious(s)
  PROVE  OutlineInv' /\ InPlace
<1> DEFINE found == Preceding(req[s].chapter, req[s].chapterOrder, req[s].order)
<1> DEFINE r == [req[s] EXCEPT !.pc = "incomplete", !.lessons = found]
<1>1. req[s].pc \in GatePcs /\ req[s].pc = "previous"  BY DEF ReadPrevious, At, GatePcs
<1>2. req[s] \in ReqRow /\ req \in [Slots -> ReqRow]  BY <1>1, AtTheGate
<1>3. found \subseteq LessonIds  BY DEF Preceding
<1>4. ~ reshaped => found = Before(req[s].lesson)
  BY <1>1, AtTheGate DEF Gated, Before
<1>5. req' = [req EXCEPT ![s] = r]  BY <1>2 DEF ReadPrevious
<1> HIDE DEF found
<1>6. /\ r \in ReqRow /\ r.pc = "incomplete" /\ r.lesson = req[s].lesson
      /\ r.student = req[s].student /\ r.lessons = found
  BY <1>2, <1>3 DEF ReqRow, Pcs
<1> HIDE DEF r
<1>7. Sound(r) /\ (~ reshaped => Gated(r))
  BY <1>1, <1>4, <1>6, AtTheGate DEF Sound, Gated, GatePcs
<1> QED  BY <1>1, <1>5, <1>6, <1>7, AtTheGate, RequestMoves DEF ReadPrevious

\* A request that passes a check goes on with the same student and lesson.
LEMMA GateGoesOn ==
  ASSUME OutlineInv, NEW s \in Slots, req[s].pc \in GatePcs,
         NEW pc \in {"confirm", "upsert"}, req' = [req EXCEPT ![s].pc = pc],
         ~ reshaped => Done(req[s].student, Before(req[s].lesson)),
         UNCHANGED <<course, chapter, lesson, progress, enrolled, edits, reshaped>>
  PROVE  OutlineInv' /\ InPlace
<1> DEFINE r == [req[s] EXCEPT !.pc = pc]
<1>1. /\ r \in ReqRow /\ r.pc = pc /\ r.lesson = req[s].lesson /\ r.student = req[s].student
      /\ req' = [req EXCEPT ![s] = r]
  BY AtTheGate DEF ReqRow, Pcs
<1> HIDE DEF r
<1>2. Sound(r) /\ (~ reshaped => Gated(r))
  BY <1>1, AtTheGate DEF Sound, Gated, GatePcs
<1> QED  BY <1>1, <1>2, AtTheGate, RequestMoves

LEMMA CountIncompleteKeeps ==
  ASSUME OutlineInv, NEW s \in Slots, CountIncomplete(s)
  PROVE  OutlineInv' /\ InPlace
<1>1. req[s].pc \in GatePcs /\ req[s].pc = "incomplete"
  BY DEF CountIncomplete, At, GatePcs
<1>2. CASE Finish(s)  BY <1>2, Finishes DEF CountIncomplete
<1>3. CASE Done(req[s].student, req[s].lessons) /\ req' = [req EXCEPT ![s].pc = "confirm"]
  <2>1. ~ reshaped => Done(req[s].student, Before(req[s].lesson))
    BY <1>1, <1>3, AtTheGate DEF Gated, Done
  <2> QED  BY <1>1, <1>3, <2>1, GateGoesOn DEF CountIncomplete
<1> QED  BY <1>2, <1>3 DEF CountIncomplete

LEMMA ConfirmKeeps ==
  ASSUME OutlineInv, NEW s \in Slots, Confirm(s)
  PROVE  OutlineInv' /\ InPlace
<1>1. req[s].pc \in GatePcs /\ req[s].pc = "confirm"  BY DEF Confirm, At, GatePcs
<1>2. CASE Finish(s)  BY <1>2, Finishes DEF Confirm
<1>3. CASE req' = [req EXCEPT ![s].pc = "upsert"]
  <2>1. ~ reshaped => Done(req[s].student, Before(req[s].lesson))
    BY <1>1, AtTheGate DEF Gated
  <2> QED  BY <1>1, <1>3, <2>1, GateGoesOn DEF Confirm
<1> QED  BY <1>2, <1>3 DEF Confirm

LEMMA UpsertKeeps ==
  ASSUME OutlineInv, NEW s \in Slots, Upsert(s)
  PROVE  OutlineInv' /\ InPlace
<1> DEFINE e == <<req[s].student, req[s].lesson>>
<1>1. req[s].pc \in GatePcs /\ req[s].pc = "upsert"  BY DEF Upsert, At, GatePcs
<1>2. /\ e \in Students \X LessonIds /\ LessonThere(e[2])
      /\ ~ reshaped => Done(e[1], Before(e[2]))
  BY <1>1, AtTheGate DEF Gated
<1>3. /\ req' = [req EXCEPT ![s] = IdleReq] /\ progress' = progress \cup {e}
      /\ UNCHANGED <<course, chapter, lesson, enrolled, edits, reshaped>>
  BY DEF Upsert, Finish
<1> HIDE DEF e
<1>4. TypeOK'  BY <1>2, <1>3, IdleRow DEF OutlineInv, TypeOK
<1>5. LessonsPlaced' /\ IdsDense'
  BY <1>3 DEF OutlineInv, LessonsPlaced, IdsDense, LessonThere, ChapterThere
<1>6. \A l : Before(l)' = Before(l)
  BY <1>3 DEF Before, Preceding, PublishedLive, LessonLive, LessonThere
<1>7. \A r : Sound(r) => Sound(r)'  BY <1>3 DEF Sound, ChapterThere, LessonThere
<1>8. \A r : Gated(r) => Gated(r)'
  <2> SUFFICES ASSUME NEW r, Gated(r)  PROVE Gated(r)'
    OBVIOUS
  <2>1. r.pc = "previous" =>
          /\ r.chapter = lesson'[r.lesson].chapter /\ r.order = lesson'[r.lesson].order
          /\ r.chapterOrder = chapter'[lesson'[r.lesson].chapter].order
    BY <1>3 DEF Gated
  <2>2. r.pc = "incomplete" => Before(r.lesson)' \subseteq r.lessons
    BY <1>6 DEF Gated
  <2>3. r.pc \in {"confirm", "upsert"} => Done(r.student, Before(r.lesson))'
    BY <1>3, <1>6 DEF Gated, Done
  <2> QED  BY <2>1, <2>2, <2>3 DEF Gated
<1>9. \A x \in Slots : req'[x] = req[x] \/ req'[x] = IdleReq
  BY <1>3 DEF OutlineInv, TypeOK
<1>10. ~ reshaped' => CompletedInOrder'
  BY <1>2, <1>3, <1>6 DEF OutlineInv, CompletedInOrder, LessonThere, Done
<1>11. InPlace  BY <1>3 DEF InPlace, PublishedLive, LessonLive, LessonThere
<1> QED  BY <1>3, <1>4, <1>5, <1>7, <1>8, <1>9, <1>10, <1>11, IdleRow DEF OutlineInv

-----------------------------------------------------------------------------
(* Edits *)

\* The next chapter is new, and all before it are there.
LEMMA NextIsNew ==
  ASSUME OutlineInv
  PROVE  /\ NextChapter \in Nat \ {0}
         /\ NextChapter \in ChapterIds => ~ ChapterThere(NextChapter)
         /\ \A d \in 1..(NextChapter - 1) : d \in ChapterIds /\ ChapterThere(d)
<1> DEFINE T == {c \in ChapterIds : ChapterThere(c)}
<1> DEFINE n == Cardinality(T)
<1>1. IsFiniteSet(T)
  <2>1. IsFiniteSet(ChapterIds)  BY FS_Interval, SizeAssumption DEF ChapterIds
  <2> QED  BY <2>1, FS_Subset
<1>2. n \in Nat /\ NextChapter = n + 1  BY <1>1, FS_CardinalityType DEF NextChapter
<1>3. \A c \in T : \A d \in 1..c : d \in T
  BY SizeAssumption DEF OutlineInv, IdsDense, ChapterIds
<1>4. T \subseteq Nat  BY SizeAssumption DEF ChapterIds
<1> HIDE DEF T
<1>5. ASSUME n + 1 \in T  PROVE FALSE
  <2>1. 1..(n + 1) \subseteq T  BY <1>2, <1>3, <1>5
  <2>2. Cardinality(1..(n + 1)) = n + 1  BY <1>2, FS_Interval
  <2>3. Cardinality(1..(n + 1)) <= n  BY <1>1, <2>1, FS_Subset
  <2> QED  BY <1>2, <2>2, <2>3
<1>6. ASSUME NEW d \in 1..n, d \notin T  PROVE FALSE
  <2>1. T \subseteq 1..(d - 1)
    <3> SUFFICES ASSUME NEW c \in T, c \notin 1..(d - 1)  PROVE FALSE
      OBVIOUS
    <3>1. c \in ChapterIds  BY DEF T
    <3>2. c \in Nat \ {0} /\ d \in 1..c  BY <1>2, <1>6, <3>1, SizeAssumption DEF ChapterIds
    <3> QED  BY <1>3, <1>6, <3>2
  <2>2. IsFiniteSet(1..(d - 1)) /\ Cardinality(1..(d - 1)) = d - 1
    <3>1. 1 \in Int /\ d - 1 \in Int /\ d - 1 >= 0  BY <1>2, <1>6
    <3> QED  BY <3>1, FS_Interval
  <2>3. n <= d - 1  BY <2>1, <2>2, FS_Subset
  <2> QED  BY <1>2, <2>3
<1>7. \A d \in 1..n : d \in ChapterIds /\ ChapterThere(d)  BY <1>6 DEF T
<1>8. NextChapter \in ChapterIds => ~ ChapterThere(NextChapter)  BY <1>2, <1>5 DEF T
<1> HIDE DEF n
<1> QED  BY <1>2, <1>7, <1>8

LEMMA InsertChapterKeeps ==
  ASSUME OutlineInv, NEW s \in Slots, InsertChapter(s)
  PROVE  OutlineInv' /\ InPlace
<1>1. CASE UNCHANGED chapter  BY <1>1, Finishes DEF InsertChapter
<1>2. ASSUME NEW n \in ChapterIds, n = NextChapter, NEW d \in BOOLEAN,
             chapter' = [chapter EXCEPT ![n] = [order |-> req[s].order, draft |-> d,
                                                deleted |-> FALSE]]
      PROVE  OutlineInv' /\ InPlace
  <2> DEFINE row == [order |-> req[s].order, draft |-> d, deleted |-> FALSE]
  <2>1. row \in ChapterRow  BY DEF ChapterRow, OutlineInv, TypeOK, ReqRow
  <2>2. /\ chapter' \in [ChapterIds -> ChapterRow \cup {None}] /\ chapter'[n] # None
        /\ \A c \in ChapterIds : c # n => chapter'[c] = chapter[c]
    BY <1>2, <2>1, RowsThere DEF OutlineInv, TypeOK
  <2>3. ~ ChapterThere(n) /\ \A c \in 1..(n - 1) : c \in ChapterIds /\ ChapterThere(c)
    BY <1>2, NextIsNew
  <2>4. /\ UNCHANGED <<course, lesson, progress, enrolled, edits, reshaped>>
        /\ req' = [req EXCEPT ![s] = IdleReq]
    BY DEF InsertChapter, Finish
  <2>5. TypeOK'  BY <2>2, <2>4, IdleRow DEF OutlineInv, TypeOK
  <2>6. Kept  BY <2>2, <2>3, <2>4 DEF Kept, ChapterThere, LessonThere
  <2>7. LessonsPlaced'
    BY <2>4, <2>6, PlacedIn DEF LessonsPlaced, LessonThere, Kept
  <2>8. IdsDense'
    <3> SUFFICES ASSUME NEW c \in ChapterIds, ChapterThere(c)', NEW x \in 1..c
                 PROVE  ChapterThere(x)'
      BY DEF IdsDense
    <3>1. x \in ChapterIds  BY SizeAssumption DEF ChapterIds
    <3>2. CASE c = n  BY <2>2, <2>3, <2>6, <3>1, <3>2 DEF Kept, ChapterThere, ChapterIds
    <3>3. CASE c # n
      BY <2>2, <2>6, <3>1, <3>3 DEF Kept, ChapterThere, OutlineInv, IdsDense
    <3> QED  BY <3>2, <3>3
  <2>9. InPlace
    BY <2>2, <2>3, <2>4 DEF InPlace, ChapterThere, LessonThere, PublishedLive, LessonLive
  <2>10. \A x \in Slots : req'[x] = req[x] \/ req'[x] = IdleReq
    BY <2>4 DEF OutlineInv, TypeOK
  <2> QED  BY <2>4, <2>5, <2>6, <2>7, <2>8, <2>9, <2>10, TablesMove
<1> QED  BY <1>1, <1>2 DEF InsertChapter

\* The edits that change rows and add none.
LEMMA RowsChange ==
  ASSUME OutlineInv, chapter' \in [ChapterIds -> ChapterRow \cup {None}],
         \A c \in ChapterIds : ChapterThere(c)' <=> ChapterThere(c),
         course' \in [draft : BOOLEAN, deleted : BOOLEAN],
         lesson' \in [LessonIds -> LessonRow \cup {None}],
         \A l \in LessonIds : LessonThere(l) => LessonThere(l)',
         \A l \in LessonIds : LessonThere(l)' =>
           ChapterThere(lesson'[l].chapter) /\ lesson'[l].chapter \in ChapterIds,
         \A x \in Slots : req'[x] = req[x] \/ req'[x] = IdleReq,
         req' \in [Slots -> ReqRow], enrolled' \subseteq Students, edits' \in 0..MaxEdits,
         reshaped' \in BOOLEAN, UNCHANGED progress, InPlace
  PROVE  OutlineInv' /\ InPlace
<1>1. TypeOK'  BY DEF OutlineInv, TypeOK
<1>2. Kept  BY DEF Kept
<1>3. LessonsPlaced'  BY DEF LessonsPlaced, ChapterThere
<1>4. IdsDense'
  <2>1. \A c \in ChapterIds : \A d \in 1..c : d \in ChapterIds
    BY SizeAssumption DEF ChapterIds
  <2> QED  BY <2>1 DEF OutlineInv, IdsDense
<1> QED  BY <1>1, <1>2, <1>3, <1>4, TablesMove

LEMMA InsertLessonKeeps ==
  ASSUME OutlineInv, NEW s \in Slots, InsertLesson(s)
  PROVE  OutlineInv' /\ InPlace
<1>1. CASE UNCHANGED <<lesson, reshaped>>  BY <1>1, Finishes DEF InsertLesson
<1>2. ASSUME NEW n \in LessonIds, n = NextLesson, NEW d \in BOOLEAN, reshaped' = TRUE,
             lesson' = [lesson EXCEPT ![n] = [chapter |-> req[s].chapter, order |-> req[s].order,
                                              draft |-> d, deleted |-> FALSE]]
      PROVE  OutlineInv' /\ InPlace
  <2> DEFINE row == [chapter |-> req[s].chapter, order |-> req[s].order,
                     draft |-> d, deleted |-> FALSE]
  <2>1. req[s].chapter \in ChapterIds /\ ChapterThere(req[s].chapter)
    BY DEF InsertLesson, At, OutlineInv, Sound
  <2>2. row \in LessonRow /\ row.chapter = req[s].chapter
    BY <2>1 DEF LessonRow, OutlineInv, TypeOK, ReqRow
  <2> HIDE DEF row
  <2>3. /\ lesson' \in [LessonIds -> LessonRow \cup {None}]
        /\ lesson'[n] = row /\ \A l \in LessonIds : l # n => lesson'[l] = lesson[l]
    BY <1>2, <2>2 DEF OutlineInv, TypeOK, row
  <2>4. /\ UNCHANGED <<course, chapter, progress, enrolled, edits>>
        /\ req' = [req EXCEPT ![s] = IdleReq]
    BY DEF InsertLesson, Finish
  <2>5. \A l \in LessonIds : LessonThere(l)' =>
          ChapterThere(lesson'[l].chapter) /\ lesson'[l].chapter \in ChapterIds
    <3> SUFFICES ASSUME NEW l \in LessonIds, lesson'[l] # None
                 PROVE  ChapterThere(lesson'[l].chapter) /\ lesson'[l].chapter \in ChapterIds
      BY DEF LessonThere
    <3>1. CASE l = n  BY <2>1, <2>2, <2>3, <3>1
    <3>2. CASE l # n  BY <2>3, <3>2, PlacedIn DEF LessonThere
    <3> QED  BY <3>1, <3>2
  <2>6. \A l \in LessonIds : LessonThere(l) => LessonThere(l)'
    BY <2>2, <2>3, RowsThere DEF LessonThere
  <2>7. \A c : ChapterThere(c)' <=> ChapterThere(c)  BY <2>4 DEF ChapterThere
  <2>8. InPlace  BY <1>2 DEF InPlace
  <2>9. req' \in [Slots -> ReqRow] /\ \A x \in Slots : req'[x] = req[x] \/ req'[x] = IdleReq
    BY <2>4, IdleRow DEF OutlineInv, TypeOK
  <2>10. /\ course' \in [draft : BOOLEAN, deleted : BOOLEAN] /\ enrolled' \subseteq Students
         /\ edits' \in 0..MaxEdits /\ chapter' \in [ChapterIds -> ChapterRow \cup {None}]
    BY <2>4 DEF OutlineInv, TypeOK
  <2> QED  BY <1>2, <2>3, <2>4, <2>5, <2>6, <2>7, <2>8, <2>9, <2>10, RowsChange
<1> QED  BY <1>1, <1>2 DEF InsertLesson

\* What the edits below leave alone.
LEMMA Unchanging ==
  ASSUME OutlineInv
  PROVE  /\ UNCHANGED course => course' \in [draft : BOOLEAN, deleted : BOOLEAN]
         /\ UNCHANGED chapter =>
              /\ chapter' \in [ChapterIds -> ChapterRow \cup {None}]
              /\ \A c \in ChapterIds : ChapterThere(c)' <=> ChapterThere(c)
         /\ UNCHANGED lesson =>
              /\ lesson' \in [LessonIds -> LessonRow \cup {None}]
              /\ \A l \in LessonIds : LessonThere(l)' <=> LessonThere(l)
              /\ \A l \in LessonIds : LessonThere(l)' =>
                   ChapterThere(lesson'[l].chapter) /\ lesson'[l].chapter \in ChapterIds
         /\ UNCHANGED enrolled => enrolled' \subseteq Students
         /\ UNCHANGED edits => edits' \in 0..MaxEdits
         /\ UNCHANGED reshaped => reshaped' \in BOOLEAN
         /\ \A s \in Slots : req' = req \/ req' = [req EXCEPT ![s] = IdleReq] =>
              /\ req' \in [Slots -> ReqRow]
              /\ \A x \in Slots : req'[x] = req[x] \/ req'[x] = IdleReq
<1>1. UNCHANGED lesson =>
        \A l \in LessonIds : LessonThere(l)' =>
          ChapterThere(lesson'[l].chapter) /\ lesson'[l].chapter \in ChapterIds
  BY PlacedIn DEF LessonThere
<1>2. ASSUME NEW s \in Slots, req' = req \/ req' = [req EXCEPT ![s] = IdleReq]
      PROVE  /\ req' \in [Slots -> ReqRow]
             /\ \A x \in Slots : req'[x] = req[x] \/ req'[x] = IdleReq
  BY <1>2, IdleRow DEF OutlineInv, TypeOK
<1> QED  BY <1>1, <1>2 DEF OutlineInv, TypeOK, ChapterThere, LessonThere

LEMMA UpdateChapterKeeps ==
  ASSUME OutlineInv, NEW c \in ChapterIds, NEW d \in BOOLEAN, UpdateChapter(c, d)
  PROVE  OutlineInv' /\ InPlace
<1>1. /\ chapter[c] \in ChapterRow /\ chapter' = [chapter EXCEPT ![c].draft = d]
      /\ UNCHANGED <<course, lesson, progress, enrolled, req, reshaped>>
      /\ edits' \in 0..MaxEdits
  BY EditsCount DEF UpdateChapter, ChapterLive, ChapterThere, OutlineInv, TypeOK
<1>2. /\ chapter' \in [ChapterIds -> ChapterRow \cup {None}]
      /\ chapter'[c] \in ChapterRow /\ chapter'[c].order = chapter[c].order
      /\ \A x \in ChapterIds : x # c => chapter'[x] = chapter[x]
  BY <1>1 DEF OutlineInv, TypeOK, ChapterRow
<1>3. \A x \in ChapterIds : ChapterThere(x)' <=> ChapterThere(x)
  BY <1>1, <1>2, RowsThere DEF ChapterThere
<1>4. InPlace  BY <1>1, <1>2 DEF InPlace, PublishedLive, LessonLive, LessonThere
<1>5. \A l \in LessonIds : LessonThere(l)' =>
        ChapterThere(lesson'[l].chapter) /\ lesson'[l].chapter \in ChapterIds
  BY <1>1, Unchanging
<1>6. req' \in [Slots -> ReqRow]  BY <1>1 DEF OutlineInv, TypeOK
<1> QED  BY <1>1, <1>2, <1>3, <1>4, <1>5, <1>6, Unchanging, RowsChange

\* A lesson's row changes, to one of a chapter that is there.
LEMMA LessonChanges ==
  ASSUME OutlineInv, NEW l \in LessonIds, NEW row \in LessonRow, LessonThere(l),
         lesson' = [lesson EXCEPT ![l] = row], ChapterThere(row.chapter),
         UNCHANGED <<course, chapter, progress, enrolled>>,
         req' = req \/ \E s \in Slots : req' = [req EXCEPT ![s] = IdleReq],
         reshaped' \in BOOLEAN, edits' \in 0..MaxEdits,
         ~ reshaped' => /\ ~ reshaped /\ row.chapter = lesson[l].chapter
                        /\ row.order = lesson[l].order
                        /\ ~ row.deleted /\ ~ row.draft => PublishedLive(l)
  PROVE  OutlineInv' /\ InPlace
<1>1. /\ lesson' \in [LessonIds -> LessonRow \cup {None}]
      /\ lesson'[l] = row /\ \A x \in LessonIds : x # l => lesson'[x] = lesson[x]
  BY DEF OutlineInv, TypeOK
<1>2. \A x \in LessonIds : LessonThere(x) => LessonThere(x)'
  BY <1>1, RowsThere DEF LessonThere
<1>3. \A x \in LessonIds : LessonThere(x)' =>
        ChapterThere(lesson'[x].chapter) /\ lesson'[x].chapter \in ChapterIds
  <2> SUFFICES ASSUME NEW x \in LessonIds, lesson'[x] # None
               PROVE  ChapterThere(lesson'[x].chapter) /\ lesson'[x].chapter \in ChapterIds
    BY DEF LessonThere
  <2>1. CASE x = l  BY <1>1, <2>1 DEF LessonRow
  <2>2. CASE x # l  BY <1>1, <2>2, PlacedIn DEF LessonThere
  <2> QED  BY <2>1, <2>2
<1>4. InPlace
  <2> SUFFICES ASSUME ~ reshaped', NEW x \in LessonIds
               PROVE  /\ LessonThere(x) => lesson'[x].chapter = lesson[x].chapter
                                           /\ lesson'[x].order = lesson[x].order
                      /\ PublishedLive(x)' => PublishedLive(x)
                      /\ LessonThere(x)' => LessonThere(x)
    BY DEF InPlace
  <2>1. CASE x = l  BY <1>1, <2>1 DEF PublishedLive, LessonLive, LessonThere
  <2>2. CASE x # l  BY <1>1, <2>2 DEF PublishedLive, LessonLive, LessonThere
  <2> QED  BY <2>1, <2>2
<1>5. req' \in [Slots -> ReqRow] /\ \A x \in Slots : req'[x] = req[x] \/ req'[x] = IdleReq
  BY IdleRow DEF OutlineInv, TypeOK
<1> QED  BY <1>1, <1>2, <1>3, <1>4, <1>5, Unchanging, RowsChange

LEMMA WriteLessonKeeps ==
  ASSUME OutlineInv, NEW s \in Slots, WriteLesson(s)
  PROVE  OutlineInv' /\ InPlace
<1> DEFINE l == req[s].lesson
<1>1. /\ l \in LessonIds /\ LessonThere(l)
      /\ req[s].chapter \in ChapterIds /\ ChapterThere(req[s].chapter)
  BY DEF WriteLesson, At, OutlineInv, Sound
<1>2. CASE UNCHANGED <<lesson, reshaped>>  BY <1>2, Finishes DEF WriteLesson
<1>3. ASSUME NEW d \in BOOLEAN, ~ lesson[l].deleted,
             lesson' = [lesson EXCEPT ![l].chapter = req[s].chapter, ![l].draft = d],
             reshaped' = (reshaped \/ ~ d \/ req[s].chapter # lesson[l].chapter)
      PROVE  OutlineInv' /\ InPlace
  <2> DEFINE row == [lesson[l] EXCEPT !.chapter = req[s].chapter, !.draft = d]
  <2>1. lesson[l] \in LessonRow  BY <1>1, PlacedIn
  <2>2. /\ row \in LessonRow /\ row.chapter = req[s].chapter /\ row.draft = d
        /\ row.order = lesson[l].order
    BY <1>1, <2>1 DEF LessonRow
  <2>3. lesson' = [lesson EXCEPT ![l] = row]  BY <1>1, <1>3 DEF OutlineInv, TypeOK
  <2>4. reshaped' \in BOOLEAN /\ edits' \in 0..MaxEdits
    BY <1>3 DEF WriteLesson, OutlineInv, TypeOK
  <2> HIDE DEF row, l
  <2> QED  BY <1>1, <1>3, <2>2, <2>3, <2>4, LessonChanges DEF WriteLesson, Finish
<1> QED  BY <1>2, <1>3 DEF WriteLesson

LEMMA DeleteLessonKeeps ==
  ASSUME OutlineInv, NEW l \in LessonIds, DeleteLesson(l)
  PROVE  OutlineInv' /\ InPlace
<1> DEFINE row == [lesson[l] EXCEPT !.deleted = TRUE]
<1>1. LessonThere(l)  BY DEF DeleteLesson, Editable, LessonLive
<1>2. lesson[l] \in LessonRow /\ ChapterThere(lesson[l].chapter)  BY <1>1, PlacedIn
<1>3. /\ row \in LessonRow /\ row.chapter = lesson[l].chapter /\ row.deleted
      /\ row.order = lesson[l].order
  BY <1>2 DEF LessonRow
<1>4. lesson' = [lesson EXCEPT ![l] = row]  BY DEF DeleteLesson, OutlineInv, TypeOK
<1>5. reshaped' \in BOOLEAN /\ edits' \in 0..MaxEdits
  BY EditsCount DEF DeleteLesson, OutlineInv, TypeOK
<1> HIDE DEF row
<1> QED  BY <1>1, <1>2, <1>3, <1>4, <1>5, LessonChanges DEF DeleteLesson

\* Course and roster.
LEMMA NoRowChanges ==
  ASSUME OutlineInv, UNCHANGED <<chapter, lesson, progress, req, reshaped>>,
         course' \in [draft : BOOLEAN, deleted : BOOLEAN], enrolled' \subseteq Students,
         edits' \in 0..MaxEdits
  PROVE  OutlineInv' /\ InPlace
<1>1. InPlace  BY DEF InPlace, PublishedLive, LessonLive, LessonThere
<1>2. req' \in [Slots -> ReqRow]  BY DEF OutlineInv, TypeOK
<1> QED  BY <1>1, <1>2, Unchanging, RowsChange

LEMMA CommitDeleteKeeps ==
  ASSUME OutlineInv, NEW s \in Slots, CommitDelete(s)
  PROVE  OutlineInv' /\ InPlace
<1>1. /\ \A c \in req[s].chapters : ChapterThere(c)
      /\ \A l \in req[s].lessons : LessonThere(l)
      /\ req[s] \in ReqRow
  BY DEF CommitDelete, At, OutlineInv, Sound, TypeOK
<1>2. CASE UNCHANGED <<course, chapter, lesson>>  BY <1>2, Finishes DEF CommitDelete
<1>3. CASE /\ course' = [course EXCEPT !.deleted = @ \/ req[s].whole]
           /\ chapter' = [c \in ChapterIds |->
                IF c \in req[s].chapters THEN [chapter[c] EXCEPT !.deleted = TRUE]
                                         ELSE chapter[c]]
           /\ lesson' = [l \in LessonIds |->
                IF l \in req[s].lessons THEN [lesson[l] EXCEPT !.deleted = TRUE]
                                        ELSE lesson[l]]
  <2>1. course' \in [draft : BOOLEAN, deleted : BOOLEAN]
    BY <1>1, <1>3 DEF OutlineInv, TypeOK, ReqRow
  <2>2. ASSUME NEW c \in ChapterIds
        PROVE  /\ chapter'[c] \in ChapterRow \cup {None}
               /\ ChapterThere(c)' <=> ChapterThere(c)
               /\ ChapterThere(c) => chapter'[c].order = chapter[c].order
    <3>1. chapter[c] \in ChapterRow \cup {None}  BY DEF OutlineInv, TypeOK
    <3>2. CASE c \in req[s].chapters
      <4>1. chapter[c] \in ChapterRow /\ chapter'[c] = [chapter[c] EXCEPT !.deleted = TRUE]
        BY <1>1, <1>3, <3>1, <3>2 DEF ChapterThere
      <4>2. chapter'[c] \in ChapterRow /\ chapter'[c].order = chapter[c].order
        BY <4>1 DEF ChapterRow
      <4> QED  BY <4>1, <4>2, RowsThere DEF ChapterThere
    <3>3. CASE c \notin req[s].chapters
      <4>1. chapter'[c] = chapter[c]  BY <1>3, <3>3
      <4> QED  BY <3>1, <4>1 DEF ChapterThere
    <3> QED  BY <3>2, <3>3
  <2>3. ASSUME NEW l \in LessonIds
        PROVE  /\ lesson'[l] \in LessonRow \cup {None}
               /\ LessonThere(l)' <=> LessonThere(l)
               /\ LessonThere(l) => /\ lesson'[l].order = lesson[l].order
                                    /\ lesson'[l].chapter = lesson[l].chapter
               /\ PublishedLive(l)' => PublishedLive(l)
    <3>1. lesson[l] \in LessonRow \cup {None}  BY DEF OutlineInv, TypeOK
    <3>2. CASE l \in req[s].lessons
      <4>1. lesson[l] \in LessonRow /\ lesson'[l] = [lesson[l] EXCEPT !.deleted = TRUE]
        BY <1>1, <1>3, <3>1, <3>2 DEF LessonThere
      <4>2. /\ lesson'[l] \in LessonRow /\ lesson'[l].order = lesson[l].order
            /\ lesson'[l].chapter = lesson[l].chapter /\ lesson'[l].deleted
        BY <4>1 DEF LessonRow
      <4> QED  BY <4>1, <4>2, RowsThere DEF LessonThere, PublishedLive, LessonLive
    <3>3. CASE l \notin req[s].lessons
      <4>1. lesson'[l] = lesson[l]  BY <1>3, <3>3
      <4> QED  BY <3>1, <4>1 DEF LessonThere, PublishedLive, LessonLive
    <3> QED  BY <3>2, <3>3
  <2>4. /\ chapter' \in [ChapterIds -> ChapterRow \cup {None}]
        /\ lesson' \in [LessonIds -> LessonRow \cup {None}]
    BY <1>3, <2>2, <2>3
  <2>5. \A l \in LessonIds : LessonThere(l)' =>
          ChapterThere(lesson'[l].chapter) /\ lesson'[l].chapter \in ChapterIds
    BY <2>3, PlacedIn
  <2>6. UNCHANGED <<progress, enrolled, edits, reshaped>> /\ req' = [req EXCEPT ![s] = IdleReq]
    BY DEF CommitDelete, Finish
  <2>7. InPlace  BY <2>2, <2>3, <2>6 DEF InPlace
  <2> QED  BY <2>1, <2>2, <2>3, <2>4, <2>5, <2>6, <2>7, Unchanging, RowsChange
<1> QED  BY <1>2, <1>3 DEF CommitDelete

LEMMA ReorderWriteKeeps ==
  ASSUME OutlineInv, NEW s \in Slots, ReorderWrite(s)
  PROVE  OutlineInv' /\ InPlace
<1> DEFINE p == req[s].plan
<1>1. /\ p \in Plans /\ \A c \in DOMAIN p.chapters : ChapterThere(c)
      /\ \A l \in DOMAIN p.lessons : LessonThere(l)
  BY DEF ReorderWrite, At, OutlineInv, Sound
<1>2. PlanShape(p)  BY <1>1, OutlineAssumption
<1>3. /\ chapter' = [c \in ChapterIds |->
           IF c \in DOMAIN p.chapters
           THEN [chapter[c] EXCEPT !.order = p.chapters[c]] ELSE chapter[c]]
      /\ lesson' = [l \in LessonIds |->
           IF l \in DOMAIN p.lessons
           THEN [lesson[l] EXCEPT !.chapter = p.lessons[l].chapter,
                                  !.order = p.lessons[l].order] ELSE lesson[l]]
      /\ reshaped' = TRUE /\ req' = [req EXCEPT ![s] = IdleReq]
      /\ UNCHANGED <<course, progress, enrolled, edits>>
  BY DEF ReorderWrite, Finish
<1> HIDE DEF p
<1>4. ASSUME NEW c \in ChapterIds
      PROVE  /\ chapter'[c] \in ChapterRow \cup {None}
             /\ ChapterThere(c)' <=> ChapterThere(c)
  <2>1. chapter[c] \in ChapterRow \cup {None}  BY DEF OutlineInv, TypeOK
  <2>2. CASE c \in DOMAIN p.chapters
    <3>1. chapter[c] \in ChapterRow /\ chapter'[c] = [chapter[c] EXCEPT !.order = p.chapters[c]]
      BY <1>1, <1>3, <2>1, <2>2 DEF ChapterThere
    <3>2. p.chapters[c] \in Nat  BY <1>2, <2>2 DEF PlanShape
    <3>3. chapter'[c] \in ChapterRow  BY <3>1, <3>2 DEF ChapterRow
    <3> QED  BY <3>1, <3>3, RowsThere DEF ChapterThere
  <2>3. CASE c \notin DOMAIN p.chapters
    <3>1. chapter'[c] = chapter[c]  BY <1>3, <2>3
    <3> QED  BY <2>1, <3>1 DEF ChapterThere
  <2> QED  BY <2>2, <2>3
<1>5. ASSUME NEW l \in LessonIds
      PROVE  /\ lesson'[l] \in LessonRow \cup {None}
             /\ LessonThere(l)' <=> LessonThere(l)
             /\ LessonThere(l)' =>
                  ChapterThere(lesson'[l].chapter) /\ lesson'[l].chapter \in ChapterIds
  <2>1. lesson[l] \in LessonRow \cup {None}  BY DEF OutlineInv, TypeOK
  <2>2. CASE l \in DOMAIN p.lessons
    <3> DEFINE to == p.lessons[l]
    <3>1. lesson[l] \in LessonRow
          /\ lesson'[l] = [lesson[l] EXCEPT !.chapter = to.chapter, !.order = to.order]
      BY <1>1, <1>3, <2>1, <2>2 DEF LessonThere
    <3>2. to.chapter \in DOMAIN p.chapters /\ to.chapter \in ChapterIds /\ to.order \in Nat
      BY <1>2, <2>2 DEF PlanShape
    <3> HIDE DEF to
    <3>3. lesson'[l] \in LessonRow /\ lesson'[l].chapter = to.chapter
      BY <3>1, <3>2 DEF LessonRow
    <3> QED  BY <1>1, <3>1, <3>2, <3>3, RowsThere DEF LessonThere
  <2>3. CASE l \notin DOMAIN p.lessons
    <3>1. lesson'[l] = lesson[l]  BY <1>3, <2>3
    <3> QED  BY <2>1, <3>1, PlacedIn DEF LessonThere
  <2> QED  BY <2>2, <2>3
<1>6. /\ chapter' \in [ChapterIds -> ChapterRow \cup {None}]
      /\ lesson' \in [LessonIds -> LessonRow \cup {None}]
  BY <1>3, <1>4, <1>5
<1>7. InPlace /\ reshaped' \in BOOLEAN  BY <1>3 DEF InPlace
<1> QED  BY <1>3, <1>4, <1>5, <1>6, <1>7, Unchanging, RowsChange

-----------------------------------------------------------------------------
(* The invariant *)

LEMMA OutlineInitially ==
  ASSUME Init
  PROVE  OutlineInv
<1>1. TypeOK
  <2>1. edits \in 0..MaxEdits  BY SizeAssumption DEF Init
  <2>2. req \in [Slots -> ReqRow]  BY IdleRow DEF Init
  <2>3. /\ chapter \in [ChapterIds -> ChapterRow \cup {None}]
        /\ lesson \in [LessonIds -> LessonRow \cup {None}]
    BY OutlineAssumption DEF Init
  <2> QED  BY <2>1, <2>2, <2>3 DEF Init, TypeOK
<1>2. LessonsPlaced /\ IdsDense
  BY OutlineAssumption DEF Init, LessonsPlaced, IdsDense, ChapterThere, LessonThere
<1>3. \A s \in Slots : Sound(req[s]) /\ Gated(req[s])  BY IdleRow DEF Init
<1>4. CompletedInOrder  BY DEF Init, CompletedInOrder
<1> QED  BY <1>1, <1>2, <1>3, <1>4 DEF OutlineInv

LEMMA TeachKeeps ==
  ASSUME OutlineInv, NEW s \in Slots, Teach(s)
  PROVE  OutlineInv' /\ InPlace
  BY CreateChapterKeeps, DeletionsKeep, CreateLessonKeeps, UpdateLessonKeeps,
     ReorderReadKeeps DEF Teach

LEMMA TeachAtOnceKeeps ==
  ASSUME OutlineInv, TeachAtOnce
  PROVE  OutlineInv' /\ InPlace
<1>1. ASSUME NEW d \in BOOLEAN, DraftCourse(d)  PROVE OutlineInv' /\ InPlace
  <2>1. course' \in [draft : BOOLEAN, deleted : BOOLEAN] /\ edits' \in 0..MaxEdits
    BY <1>1, EditsCount DEF DraftCourse, OutlineInv, TypeOK
  <2> QED  BY <1>1, <2>1, Unchanging, NoRowChanges DEF DraftCourse
<1>2. ASSUME NEW us \in SUBSET Students, SetEnrolled(us)  PROVE OutlineInv' /\ InPlace
  <2>1. enrolled' \subseteq Students /\ edits' \in 0..MaxEdits
    BY <1>2, EditsCount DEF SetEnrolled
  <2> QED  BY <1>2, <2>1, Unchanging, NoRowChanges DEF SetEnrolled
<1> QED  BY <1>1, <1>2, UpdateChapterKeeps, DeleteLessonKeeps DEF TeachAtOnce

LEMMA ContinueKeeps ==
  ASSUME OutlineInv, NEW s \in Slots, Continue(s)
  PROVE  OutlineInv' /\ InPlace
<1>1. ASSUME Aborted(s)  PROVE OutlineInv' /\ InPlace
  BY <1>1, Finishes DEF Aborted
<1> QED
  BY <1>1, CountsKeep, InsertChapterKeeps, InsertLessonKeeps, WriteLessonKeeps,
     DeleteLessonsKeeps, CommitDeleteKeeps, ReorderWriteKeeps, ReadCurrentKeeps,
     ReadPreviousKeeps, CountIncompleteKeeps, ConfirmKeeps, UpsertKeeps DEF Continue

LEMMA OutlineSteps ==
  ASSUME OutlineInv, [Next]_vars
  PROVE  OutlineInv' /\ InPlace
<1>1. ASSUME NEW s \in Slots, NEW u \in Students, Study(s, u)  PROVE OutlineInv' /\ InPlace
  BY <1>1, CompleteLessonKeeps DEF Study
<1>2. ASSUME UNCHANGED vars  PROVE OutlineInv' /\ InPlace
  BY <1>2, Unchanging, NoRowChanges DEF vars
<1> QED  BY <1>1, <1>2, TeachKeeps, TeachAtOnceKeeps, ContinueKeeps DEF Next, Quiescent

THEOREM OutlineAlways == Spec => []OutlineInv
<1>1. Init => OutlineInv  BY OutlineInitially
<1>2. OutlineInv /\ [Next]_vars => OutlineInv'  BY OutlineSteps
<1> QED  BY <1>1, <1>2, PTL DEF Spec

\* Rows and requests keep their shape.
THEOREM TypeCorrect == Spec => []TypeOK
<1>1. OutlineInv => TypeOK  BY DEF OutlineInv
<1> QED  BY <1>1, OutlineAlways, PTL

\* Whatever students send and owners hide, show or delete between the gate's four reads,
\* lessons are completed in order, until one is put somewhere.
THEOREM LessonsInOrder == Spec => []ProgressInOrder
<1>1. OutlineInv => ProgressInOrder
  <2> SUFFICES ASSUME OutlineInv, ~ reshaped, NEW e \in progress, NEW p \in ShownBefore(e[2])
               PROVE  <<e[1], p>> \in progress
    BY DEF ProgressInOrder, Done
  <2>1. p \in Before(e[2])
    BY DEF ShownBefore, Shown, Visible, Editable, Before, Preceding, PublishedLive
  <2> QED  BY <2>1 DEF OutlineInv, CompletedInOrder, Done
<1> QED  BY <1>1, OutlineAlways, PTL

-----------------------------------------------------------------------------
(* Nobody is locked out *)

LEMMA LeastNumber ==
  ASSUME NEW N, N \subseteq Nat, N # {}
  PROVE  \E m \in N : \A n \in N : m <= n
<1>1. PICK m \in N : \A n \in N : ~ (<<n, m>> \in OpToRel(<, Nat))
  BY NatLessThanWellFounded, WFMin, Zenon
<1>2. \A n \in N : n < m => <<n, m>> \in OpToRel(<, Nat)  BY Zenon DEF OpToRel
<1>3. \A n \in N : ~ (n < m)  BY <1>1, <1>2, Zenon
<1> QED  BY <1>3

\* Of some lessons there is one in a first chapter, and first there.
LEMMA FirstOf ==
  ASSUME OutlineInv, NEW ls \in SUBSET LessonIds, ls # {}, \A l \in ls : LessonThere(l)
  PROVE  \E l \in ls : Before(l) \cap ls = {}
<1> DEFINE ChapterOrder(l) == chapter[lesson[l].chapter].order
<1>1. \A l \in ls : ChapterOrder(l) \in Nat /\ lesson[l].order \in Nat
  BY PlacedIn DEF LessonRow, ChapterRow
<1> HIDE DEF ChapterOrder
<1>2. PICK a \in ls : \A l \in ls : ChapterOrder(a) <= ChapterOrder(l)
  <2> DEFINE N == {ChapterOrder(l) : l \in ls}
  <2>1. N \subseteq Nat /\ N # {}  BY <1>1
  <2>2. \E m \in N : \A n \in N : m <= n
    <3> HIDE DEF N
    <3> QED  BY <2>1, LeastNumber
  <2> QED  BY <2>2
<1> DEFINE here == {l \in ls : lesson[l].chapter = lesson[a].chapter}
<1>3. PICK b \in here : \A l \in here : lesson[b].order <= lesson[l].order
  <2> DEFINE N == {lesson[l].order : l \in here}
  <2>1. N \subseteq Nat /\ N # {}  BY <1>1
  <2>2. \E m \in N : \A n \in N : m <= n
    <3> HIDE DEF N
    <3> QED  BY <2>1, LeastNumber
  <2> QED  BY <2>2
<1>4. ASSUME NEW p \in Before(b), p \in ls  PROVE FALSE
  <2>1. \/ chapter[lesson[p].chapter].order < chapter[lesson[b].chapter].order
        \/ lesson[p].chapter = lesson[b].chapter /\ lesson[p].order < lesson[b].order
    BY DEF Before, Preceding
  <2>2. CASE chapter[lesson[p].chapter].order < chapter[lesson[b].chapter].order
    <3>1. ChapterOrder(p) < ChapterOrder(a)  BY <1>3, <2>2 DEF ChapterOrder
    <3> QED  BY <1>1, <1>2, <1>4, <3>1
  <2>3. CASE lesson[p].chapter = lesson[b].chapter /\ lesson[p].order < lesson[b].order
    BY <1>1, <1>3, <1>4, <2>3
  <2> QED  BY <2>1, <2>2, <2>3
<1> QED  BY <1>3, <1>4

\* Whatever the orders have become: with no published lesson in a hidden chapter, the first
\* of the lessons that a student has not done is open.
THEOREM NobodyLockedOut == Spec => []NoLockout
<1>1. OutlineInv => NoLockout
  <2> SUFFICES ASSUME OutlineInv, NothingHidden, NEW u \in Students, ~ Done(u, Shown)
               PROVE  \E l \in Shown : <<u, l>> \notin progress /\ Done(u, Before(l))
    BY DEF NoLockout
  <2> DEFINE left == {l \in Shown : <<u, l>> \notin progress}
  <2>1. /\ left \in SUBSET LessonIds /\ left # {}
        /\ \A l \in left : LessonThere(l)
    BY DEF Shown, Done, Visible, Editable, LessonLive
  <2> HIDE DEF left
  <2>2. PICK l \in left : Before(l) \cap left = {}  BY <2>1, FirstOf
  <2>3. Before(l) \subseteq Shown
    BY DEF Before, Preceding, NothingHidden, Shown
  <2>4. Done(u, Before(l))  BY <2>2, <2>3 DEF left, Done
  <2>5. l \in Shown /\ <<u, l>> \notin progress  BY <2>2 DEF left
  <2> QED  BY <2>4, <2>5
<1> QED  BY <1>1, OutlineAlways, PTL

-----------------------------------------------------------------------------
(* The gate is Curriculum's: although it looks in four reads and writes after  *)
(* them, a lesson is completed as if it looked and wrote at once.               *)

Asked == [l \in LessonIds |-> IF LessonThere(l) THEN Before(l) ELSE {}]
C == INSTANCE Curriculum WITH Lessons <- LessonIds, done <- progress, asked <- Asked

LEMMA AskedTyped == Asked \in C!Asks
  BY DEF Asked, C!Asks, Before, Preceding

\* Only the write at the end of the gate completes a lesson.
LEMMA WhoCompletes ==
  ASSUME [Next]_vars, progress' # progress
  PROVE  \E s \in Slots : Upsert(s)
<1>1. ASSUME NEW s \in Slots, Teach(s)  PROVE FALSE
  BY <1>1 DEF Teach, CreateChapter, DeleteCourse, CreateLesson, DeleteChapter,
              UpdateLesson, ReorderRead
<1>2. ASSUME TeachAtOnce  PROVE FALSE
  BY <1>2 DEF TeachAtOnce, UpdateChapter, DeleteLesson, DraftCourse, SetEnrolled
<1>3. ASSUME NEW s \in Slots, NEW u \in Students, Study(s, u)  PROVE FALSE
  BY <1>3 DEF Study, CompleteLesson
<1>4. ASSUME NEW s \in Slots, Continue(s)  PROVE Upsert(s)
  BY <1>4 DEF Continue, CountChapters, InsertChapter, CountLessons, InsertLesson,
              WriteLesson, DeleteLessons, CommitDelete, ReorderWrite, Aborted,
              ReadCurrent, ReadPrevious, CountIncomplete, Confirm
<1> QED  BY <1>1, <1>2, <1>3, <1>4 DEF Next, Quiescent, vars

LEMMA GateSteps ==
  ASSUME OutlineInv, [Next]_vars, OutlineInv'
  PROVE  [C!Next]_(C!vars)
<1>1. ASSUME NEW s \in Slots, Upsert(s)  PROVE C!Next
  <2> DEFINE u == req[s].student  l == req[s].lesson
  <2>1. /\ progress' = progress \cup {<<u, l>>}
        /\ UNCHANGED <<chapter, lesson, reshaped>>
        /\ req[s].pc \in GatePcs /\ req[s].pc = "upsert"
    BY <1>1 DEF Upsert, At, GatePcs
  <2>2. /\ u \in Students /\ l \in LessonIds /\ LessonThere(l)
        /\ ~ reshaped => Done(u, Before(l))
    BY <2>1, AtTheGate DEF Gated
  <2> HIDE DEF u, l
  <2>3. UNCHANGED Asked
    BY <2>1 DEF Asked, Before, Preceding, PublishedLive, LessonLive, LessonThere
  <2>4. reshaped \/ C!Ready(u, l)
    BY <2>2 DEF C!Ready, Asked, Done, OutlineInv, TypeOK
  <2>5. C!Complete(u, l)  BY <2>1, <2>3, <2>4 DEF C!Complete
  <2> QED  BY <2>2, <2>5 DEF C!Next
<1>2. ASSUME UNCHANGED progress, reshaped'  PROVE C!Reshape
  <2>1. Asked' \in C!Asks
    BY DEF Asked, C!Asks, Before, Preceding
  <2> QED  BY <1>2, <2>1 DEF C!Reshape, OutlineInv, TypeOK
<1>3. ASSUME UNCHANGED progress, ~ reshaped'  PROVE C!AskLess
  <2>1. InPlace /\ ~ reshaped  BY <1>3, OutlineSteps DEF InPlace
  <2>2. Asked' \in C!Asks
    BY DEF Asked, C!Asks, Before, Preceding
  <2>3. ASSUME NEW l \in LessonIds  PROVE Asked'[l] \subseteq Asked[l]
    <3>1. CASE LessonThere(l)'
      <4>1. LessonThere(l)  BY <1>3, <2>1, <3>1 DEF InPlace
      <4>2. Before(l)' \subseteq Before(l)  BY <1>3, <2>1, <4>1, BeforeShrinks
      <4> QED  BY <3>1, <4>1, <4>2 DEF Asked
    <3>2. CASE ~ LessonThere(l)'  BY <3>2 DEF Asked
    <3> QED  BY <3>1, <3>2
  <2>4. UNCHANGED reshaped  BY <1>3, <2>1 DEF OutlineInv, TypeOK
  <2> QED  BY <1>3, <2>2, <2>3, <2>4 DEF C!AskLess
<1> QED  BY <1>1, <1>2, <1>3, WhoCompletes DEF C!Next

\* However reads, edits and writes overlap, each step of the outline is one of Curriculum
\* or none: the gate is atomic as far as anybody can tell (lesson.service.ts
\* hasCompletedAllPreviousLessons, completeLesson).
THEOREM GateIsAtomic == Spec => C!Spec
<1>1. Init => C!Init
  BY AskedTyped DEF Init, C!Init
<1>2. OutlineInv /\ [Next]_vars /\ OutlineInv' => [C!Next]_(C!vars)
  BY GateSteps
<1> QED  BY <1>1, <1>2, OutlineAlways, PTL DEF Spec, C!Spec

\* What Curriculum itself promises, whatever is asked and however it changes: until the
\* course is reshaped, lessons have been completed in order.
DonePairs == progress \subseteq Students \X LessonIds
LEMMA CurriculumSteps ==
  ASSUME C!InOrder, DonePairs, [C!Next]_(C!vars)
  PROVE  C!InOrder' /\ DonePairs'
<1>1. ASSUME NEW u \in Students, NEW l \in LessonIds, C!Complete(u, l)
      PROVE  C!InOrder' /\ DonePairs'
  <2>1. progress' = progress \cup {<<u, l>>} /\ UNCHANGED <<Asked, reshaped>>
        /\ (reshaped \/ C!Ready(u, l))
    BY <1>1 DEF C!Complete
  <2> HIDE DEF Asked
  <2> QED  BY <2>1 DEF C!InOrder, C!Ready, DonePairs
<1>2. ASSUME C!AskLess  PROVE C!InOrder' /\ DonePairs'
  <2>1. /\ \A l \in LessonIds : Asked'[l] \subseteq Asked[l]
        /\ UNCHANGED <<progress, reshaped>>
    BY <1>2 DEF C!AskLess
  <2> QED  BY <2>1 DEF C!InOrder, C!Ready, DonePairs
<1>3. ASSUME C!Reshape  PROVE C!InOrder' /\ DonePairs'
  BY <1>3 DEF C!Reshape, C!InOrder, DonePairs
<1>4. ASSUME UNCHANGED C!vars  PROVE C!InOrder' /\ DonePairs'
  <2>1. UNCHANGED <<progress, Asked, reshaped>>  BY <1>4 DEF C!vars
  <2> QED  BY <2>1 DEF C!InOrder, C!Ready, DonePairs
<1> QED  BY <1>1, <1>2, <1>3, <1>4 DEF C!Next

THEOREM CurriculumInOrder == C!Spec => []C!InOrder
<1>1. C!Init => C!InOrder /\ DonePairs  BY DEF C!Init, C!InOrder, DonePairs
<1>2. C!InOrder /\ DonePairs /\ [C!Next]_(C!vars) => C!InOrder' /\ DonePairs'
  BY CurriculumSteps
<1> QED  BY <1>1, <1>2, PTL DEF C!Spec
-----------------------------------------------------------------------------
(* Deletions that overlap.  What one has marked, it alone deletes.             *)

Deleting(r) == r.pc \in {"deleteLessons", "commitDelete"}

\* The rows a deletion has marked are live.
MarksLive(r) ==
  /\ Deleting(r) => \A c \in r.chapters : ~ chapter[c].deleted
  /\ r.pc = "commitDelete" => \A l \in r.lessons : ~ lesson[l].deleted

\* No two deletions have marked one row.
MarksApart(r, q) ==
  /\ Deleting(r) /\ Deleting(q) => r.chapters \cap q.chapters = {}
  /\ r.pc = "commitDelete" /\ q.pc = "commitDelete" => r.lessons \cap q.lessons = {}

MarkedOnce ==
  /\ \A s \in Slots : MarksLive(req[s])
  /\ \A s, t \in Slots : s # t => MarksApart(req[s], req[t])

StayLive ==
  /\ \A c \in ChapterIds : ChapterThere(c) /\ ~ chapter[c].deleted => ~ chapter'[c].deleted
  /\ \A l \in LessonIds : LessonThere(l) /\ ~ lesson[l].deleted => ~ lesson'[l].deleted

\* A request that marks nothing new moves on, and nothing is deleted.
LEMMA MarksStay ==
  ASSUME OutlineInv, MarkedOnce, StayLive,
         \A x \in Slots : req'[x] = req[x] \/ ~ Deleting(req'[x])
  PROVE  MarkedOnce'
<1>1. ASSUME NEW x \in Slots, Deleting(req'[x])
      PROVE  /\ req'[x] = req[x] /\ MarksLive(req[x]) /\ Sound(req[x])
             /\ req[x].chapters \subseteq ChapterIds /\ req[x].lessons \subseteq LessonIds
  BY <1>1 DEF MarkedOnce, OutlineInv, TypeOK, ReqRow
<1>2. \A x \in Slots : MarksLive(req[x])'
  BY <1>1 DEF MarksLive, Deleting, Sound, StayLive
<1>3. ASSUME NEW s \in Slots, NEW t \in Slots, s # t  PROVE MarksApart(req'[s], req'[t])
  <2>1. MarksApart(req[s], req[t])
    BY <1>3 DEF MarkedOnce
  <2> QED  BY <1>1, <2>1 DEF MarksApart, Deleting
<1> QED  BY <1>2, <1>3 DEF MarkedOnce

\* A deletion marks rows that are live and that no other has marked.
LEMMA MarksMore ==
  ASSUME OutlineInv, MarkedOnce, UNCHANGED <<chapter, lesson>>,
         NEW s \in Slots, NEW r, req' = [req EXCEPT ![s] = r], MarksLive(r),
         \A x \in Slots \ {s} : MarksApart(r, req[x])
  PROVE  MarkedOnce'
<1>1. \A x \in Slots : req'[x] = IF x = s THEN r ELSE req[x]
  BY DEF OutlineInv, TypeOK
<1>2. \A x \in Slots : MarksLive(req[x])'
  BY <1>1 DEF MarkedOnce, MarksLive
<1>3. ASSUME NEW x \in Slots, NEW y \in Slots, x # y  PROVE MarksApart(req'[x], req'[y])
  <2>1. CASE x # s /\ y # s
    BY <1>1, <1>3, <2>1 DEF MarkedOnce
  <2>2. CASE x = s
    BY <1>1, <1>3, <2>2
  <2>3. CASE y = s
    <3>1. MarksApart(r, req[x])
      BY <1>3, <2>3
    <3> QED  BY <1>1, <1>3, <2>3, <3>1 DEF MarksApart
  <2> QED  BY <2>1, <2>2, <2>3
<1> QED  BY <1>2, <1>3 DEF MarkedOnce

LEMMA DeleteChapterMarks ==
  ASSUME OutlineInv, MarkedOnce, NEW s \in Slots, NEW c \in ChapterIds, DeleteChapter(s, c)
  PROVE  MarkedOnce'
<1> DEFINE r == [IdleReq EXCEPT !.pc = "deleteLessons", !.chapters = {c}]
<1>1. r.pc = "deleteLessons" /\ r.chapters = {c} /\ req' = [req EXCEPT ![s] = r]
      /\ UNCHANGED <<chapter, lesson>> /\ ~ chapter[c].deleted /\ ~ ChapterLocked(c)
  BY DEF DeleteChapter, Start, ChapterLive, IdleReq
<1> HIDE DEF r
<1>2. MarksLive(r)
  BY <1>1 DEF MarksLive
<1>3. \A x \in Slots \ {s} : MarksApart(r, req[x])
  BY <1>1 DEF MarksApart, Deleting, ChapterLocked
<1> QED  BY <1>1, <1>2, <1>3, MarksMore

LEMMA DeleteCourseMarks ==
  ASSUME OutlineInv, MarkedOnce, NEW s \in Slots, DeleteCourse(s)
  PROVE  MarkedOnce'
<1> DEFINE live == {c \in ChapterIds : ChapterLive(c)}
<1> DEFINE r == [IdleReq EXCEPT !.pc = "deleteLessons", !.chapters = live, !.whole = TRUE]
<1>1. r.pc = "deleteLessons" /\ r.chapters = live /\ req' = [req EXCEPT ![s] = r]
      /\ UNCHANGED <<chapter, lesson>> /\ \A c \in live : ~ ChapterLocked(c)
  BY DEF DeleteCourse, Start, IdleReq
<1>2. \A c \in live : ~ chapter[c].deleted
  BY DEF ChapterLive
<1> HIDE DEF r, live
<1>3. MarksLive(r)
  BY <1>1, <1>2 DEF MarksLive
<1>4. \A x \in Slots \ {s} : MarksApart(r, req[x])
  BY <1>1 DEF MarksApart, Deleting, ChapterLocked
<1> QED  BY <1>1, <1>3, <1>4, MarksMore

LEMMA DeleteLessonsMarks ==
  ASSUME OutlineInv, MarkedOnce, NEW s \in Slots, DeleteLessons(s)
  PROVE  MarkedOnce'
<1> DEFINE marked == LessonsToDelete(s)
<1> DEFINE r == [req[s] EXCEPT !.pc = "commitDelete", !.lessons = marked]
<1>1. req[s] \in ReqRow /\ req[s].pc = "deleteLessons" /\ MarksLive(req[s])
  BY DEF DeleteLessons, At, OutlineInv, TypeOK, MarkedOnce
<1>2. r.pc = "commitDelete" /\ r.lessons = marked /\ r.chapters = req[s].chapters
  BY <1>1 DEF ReqRow
<1>3. req' = [req EXCEPT ![s] = r]
  BY <1>1 DEF DeleteLessons, OutlineInv, TypeOK, ReqRow
<1>4. UNCHANGED <<chapter, lesson>> /\ \A l \in marked : ~ LessonLocked(l)
  BY DEF DeleteLessons
<1>5. \A l \in marked : ~ lesson[l].deleted
  BY DEF LessonsToDelete, LessonLive
<1> HIDE DEF r, marked
<1>6. MarksLive(r)
  BY <1>1, <1>2, <1>5 DEF MarksLive, Deleting
<1>7. ASSUME NEW x \in Slots \ {s}  PROVE MarksApart(r, req[x])
  <2>1. MarksApart(req[s], req[x])
    BY DEF MarkedOnce
  <2> QED  BY <1>1, <1>2, <1>4, <2>1 DEF MarksApart, Deleting, LessonLocked, At
<1> QED  BY <1>3, <1>4, <1>6, <1>7, MarksMore

\* The commit deletes its own rows, and nobody else has marked those.
LEMMA CommitDeleteMarks ==
  ASSUME OutlineInv, MarkedOnce, NEW s \in Slots, CommitDelete(s)
  PROVE  MarkedOnce'
<1>1. /\ req[s].pc = "commitDelete" /\ req'[s] = IdleReq
      /\ \A x \in Slots \ {s} : req'[x] = req[x]
  BY DEF CommitDelete, At, Finish, OutlineInv, TypeOK
<1>2. /\ \A c \in ChapterIds \ req[s].chapters : chapter'[c] = chapter[c]
      /\ \A l \in LessonIds \ req[s].lessons : lesson'[l] = lesson[l]
  BY DEF CommitDelete
<1>3. ~ Deleting(IdleReq)
  BY DEF IdleReq, Deleting
<1>4. ASSUME NEW x \in Slots \ {s}
      PROVE  /\ MarksLive(req[x]) /\ MarksApart(req[s], req[x])
             /\ req[x].chapters \subseteq ChapterIds /\ req[x].lessons \subseteq LessonIds
  BY DEF MarkedOnce, OutlineInv, TypeOK, ReqRow
<1>5. ASSUME NEW x \in Slots \ {s}  PROVE MarksLive(req[x])'
  <2>1. Deleting(req[x]) => \A c \in req[x].chapters : chapter'[c] = chapter[c]
    BY <1>1, <1>2, <1>4 DEF MarksApart, Deleting
  <2>2. req[x].pc = "commitDelete" => \A l \in req[x].lessons : lesson'[l] = lesson[l]
    BY <1>1, <1>2, <1>4 DEF MarksApart
  <2> QED  BY <1>1, <1>4, <2>1, <2>2 DEF MarksLive
<1>6. MarksLive(req[s])'
  BY <1>1, <1>3 DEF MarksLive, Deleting
<1>7. ASSUME NEW x \in Slots, NEW y \in Slots, x # y  PROVE MarksApart(req'[x], req'[y])
  <2>1. MarksApart(req[x], req[y])
    BY <1>7 DEF MarkedOnce
  <2> QED  BY <1>1, <1>3, <1>7, <2>1 DEF MarksApart, Deleting
<1> QED  BY <1>1, <1>5, <1>6, <1>7 DEF MarkedOnce

\* A lesson that is deleted by itself is one that no deletion has marked.
LEMMA DeleteLessonMarks ==
  ASSUME OutlineInv, MarkedOnce, NEW l \in LessonIds, DeleteLesson(l)
  PROVE  MarkedOnce'
<1>1. /\ UNCHANGED <<chapter, req>> /\ ~ LessonLocked(l)
      /\ \A x \in LessonIds \ {l} : lesson'[x] = lesson[x]
  BY DEF DeleteLesson, OutlineInv, TypeOK
<1>2. ASSUME NEW x \in Slots  PROVE MarksLive(req[x])'
  <2>1. MarksLive(req[x]) /\ req[x].lessons \subseteq LessonIds
    BY DEF MarkedOnce, OutlineInv, TypeOK, ReqRow
  <2> QED  BY <1>1, <2>1 DEF MarksLive, LessonLocked, At
<1> QED  BY <1>1, <1>2 DEF MarkedOnce

\* The other writes delete nothing, and begin no deletion.
LEMMA WritesMark ==
  ASSUME OutlineInv, MarkedOnce, NEW s \in Slots,
         InsertChapter(s) \/ InsertLesson(s) \/ WriteLesson(s) \/ ReorderWrite(s)
  PROVE  MarkedOnce'
<1>1. \A x \in Slots : req'[x] = req[x] \/ ~ Deleting(req'[x])
  <2>1. Finish(s) /\ ~ Deleting(IdleReq)
    BY DEF InsertChapter, InsertLesson, WriteLesson, ReorderWrite, IdleReq, Deleting
  <2> QED  BY <2>1 DEF Finish, OutlineInv, TypeOK
<1>2. ASSUME NEW c \in ChapterIds, ChapterThere(c), ~ chapter[c].deleted
      PROVE  ~ chapter'[c].deleted
  <2>1. chapter[c] \in ChapterRow
    BY <1>2 DEF OutlineInv, TypeOK, ChapterThere
  <2>2. CASE InsertChapter(s)
    <3>1. chapter'[c] = chapter[c]
      BY <1>2, <2>2, NextIsNew DEF InsertChapter, OutlineInv, TypeOK
    <3> QED  BY <1>2, <3>1
  <2>3. CASE ReorderWrite(s)
    BY <1>2, <2>1, <2>3 DEF ReorderWrite, ChapterRow
  <2>4. CASE InsertLesson(s) \/ WriteLesson(s)
    BY <1>2, <2>4 DEF InsertLesson, WriteLesson
  <2> QED  BY <2>2, <2>3, <2>4
<1>3. ASSUME NEW l \in LessonIds, LessonThere(l), ~ lesson[l].deleted
      PROVE  ~ lesson'[l].deleted
  <2>1. lesson[l] \in LessonRow
    BY <1>3 DEF OutlineInv, TypeOK, LessonThere
  <2>2. CASE InsertLesson(s)
    <3>1. CASE NextLesson \in LessonIds /\ l = NextLesson
      BY <2>2, <3>1 DEF InsertLesson, OutlineInv, TypeOK
    <3>2. CASE ~ (NextLesson \in LessonIds /\ l = NextLesson)
      <4>1. lesson'[l] = lesson[l]
        BY <2>2, <3>2 DEF InsertLesson, OutlineInv, TypeOK
      <4> QED  BY <1>3, <4>1
    <3> QED  BY <3>1, <3>2
  <2>3. CASE ReorderWrite(s)
    BY <1>3, <2>1, <2>3 DEF ReorderWrite, LessonRow
  <2>4. CASE WriteLesson(s)
    <3> DEFINE x == req[s].lesson
    <3>1. CASE UNCHANGED lesson
      BY <1>3, <3>1
    <3>2. ASSUME NEW d \in BOOLEAN, ~ lesson[x].deleted,
                 lesson' = [lesson EXCEPT ![x].chapter = req[s].chapter, ![x].draft = d]
          PROVE  ~ lesson'[l].deleted
      <4>1. lesson' = [lesson EXCEPT ![x] = [lesson[x] EXCEPT !.chapter = req[s].chapter,
                                                              !.draft = d]]
        BY <3>2 DEF OutlineInv, TypeOK
      <4>2. CASE l # x
        <5>1. lesson'[l] = lesson[l]
          BY <4>1, <4>2 DEF OutlineInv, TypeOK
        <5> QED  BY <1>3, <5>1
      <4>3. CASE l = x
        <5>1. lesson'[l] = [lesson[l] EXCEPT !.chapter = req[s].chapter, !.draft = d]
          BY <4>1, <4>3 DEF OutlineInv, TypeOK
        <5> QED  BY <1>3, <2>1, <5>1 DEF LessonRow
      <4> QED  BY <4>2, <4>3
    <3> QED  BY <2>4, <3>1, <3>2 DEF WriteLesson
  <2>5. CASE InsertChapter(s)
    BY <1>3, <2>5 DEF InsertChapter
  <2> QED  BY <2>2, <2>3, <2>4, <2>5
<1>4. StayLive
  BY <1>2, <1>3 DEF StayLive
<1> QED  BY <1>1, <1>4, MarksStay

LEMMA UpdateChapterMarks ==
  ASSUME OutlineInv, MarkedOnce, NEW c \in ChapterIds, NEW d \in BOOLEAN, UpdateChapter(c, d)
  PROVE  MarkedOnce'
<1>1. UNCHANGED <<lesson, req>> /\ chapter' = [chapter EXCEPT ![c].draft = d]
  BY DEF UpdateChapter
<1>2. StayLive
  <2> SUFFICES ASSUME NEW x \in ChapterIds, ChapterThere(x), ~ chapter[x].deleted
               PROVE  ~ chapter'[x].deleted
    BY <1>1 DEF StayLive
  <2>1. chapter[x] \in ChapterRow
    BY DEF OutlineInv, TypeOK, ChapterThere
  <2> QED  BY <1>1, <2>1 DEF OutlineInv, TypeOK, ChapterRow
<1> QED  BY <1>1, <1>2, MarksStay

\* Reads and first steps of the other requests.
LEMMA ReadsMark ==
  ASSUME OutlineInv, MarkedOnce, UNCHANGED <<chapter, lesson>>, NEW s \in Slots,
         \/ CreateChapter(s) \/ CountChapters(s) \/ CountLessons(s)
         \/ \E c \in ChapterIds : CreateLesson(s, c)
         \/ \E c \in ChapterIds, l \in LessonIds : UpdateLesson(s, l, c)
         \/ \E p \in Plans : ReorderRead(s, p)
         \/ \E u \in Students : Study(s, u)
         \/ Aborted(s) \/ ReadCurrent(s) \/ ReadPrevious(s) \/ CountIncomplete(s)
         \/ Confirm(s) \/ Upsert(s)
  PROVE  MarkedOnce'
<1>1. /\ req \in [Slots -> ReqRow] /\ \A x \in Slots \ {s} : req'[x] = req[x]
  <2>1. req \in [Slots -> ReqRow]
    BY DEF OutlineInv, TypeOK
  <2>2. CASE \/ CreateChapter(s) \/ \E c \in ChapterIds : CreateLesson(s, c)
             \/ \E c \in ChapterIds, l \in LessonIds : UpdateLesson(s, l, c)
             \/ \E p \in Plans : ReorderRead(s, p)
             \/ \E u \in Students : Study(s, u)
    BY <2>1, <2>2 DEF CreateChapter, CreateLesson, UpdateLesson, ReorderRead, Study,
                      CompleteLesson, Start
  <2>3. CASE CountChapters(s) \/ CountLessons(s) \/ Aborted(s) \/ Upsert(s)
    BY <2>1, <2>3 DEF CountChapters, CountLessons, Aborted, Upsert, Finish
  <2>4. CASE ReadCurrent(s) \/ ReadPrevious(s) \/ CountIncomplete(s) \/ Confirm(s)
    BY <2>1, <2>4 DEF ReadCurrent, ReadPrevious, CountIncomplete, Confirm, Finish
  <2> QED  BY <2>1, <2>2, <2>3, <2>4
<1>2. ~ Deleting(req'[s])
  <2>1. CASE CountChapters(s) \/ CountLessons(s)
    BY <1>1, <2>1 DEF CountChapters, CountLessons, Deleting, ReqRow
  <2>2. CASE ReadCurrent(s) \/ ReadPrevious(s) \/ CountIncomplete(s) \/ Confirm(s)
    <3>1. CASE Finish(s)
      BY <1>1, <3>1 DEF Finish, IdleReq, Deleting
    <3>2. CASE ~ Finish(s)
      <4>1. req'[s].pc \in {"previous", "incomplete", "confirm", "upsert"}
        <5>1. CASE ReadCurrent(s)
          BY <1>1, <3>2, <5>1 DEF ReadCurrent, ReqRow
        <5>2. CASE ReadPrevious(s)
          BY <1>1, <5>2 DEF ReadPrevious, ReqRow
        <5>3. CASE CountIncomplete(s) \/ Confirm(s)
          BY <1>1, <3>2, <5>3 DEF CountIncomplete, Confirm, ReqRow
        <5> QED  BY <2>2, <5>1, <5>2, <5>3
      <4> QED  BY <4>1 DEF Deleting
    <3> QED  BY <3>1, <3>2
  <2>3. CASE Aborted(s) \/ Upsert(s)
    BY <1>1, <2>3 DEF Aborted, Upsert, Finish, IdleReq, Deleting
  <2>4. CASE \/ CreateChapter(s) \/ \E c \in ChapterIds : CreateLesson(s, c)
             \/ \E c \in ChapterIds, l \in LessonIds : UpdateLesson(s, l, c)
             \/ \E p \in Plans : ReorderRead(s, p)
             \/ \E u \in Students : Study(s, u)
    BY <1>1, <2>4 DEF CreateChapter, CreateLesson, UpdateLesson, ReorderRead, Study,
                      CompleteLesson, Start, IdleReq, Deleting
  <2> QED  BY <2>1, <2>2, <2>3, <2>4
<1>3. StayLive
  BY DEF StayLive
<1> QED  BY <1>1, <1>2, <1>3, MarksStay

LEMMA MarkedOnceStep ==
  ASSUME OutlineInv, MarkedOnce, [Next]_vars
  PROVE  MarkedOnce'
<1>1. UNCHANGED <<chapter, lesson, req>> => MarkedOnce'
  BY DEF MarkedOnce, MarksLive
<1>2. CASE TeachAtOnce
  BY <1>1, <1>2, UpdateChapterMarks, DeleteLessonMarks
     DEF TeachAtOnce, DraftCourse, SetEnrolled
<1>3. ASSUME NEW s \in Slots, Teach(s)  PROVE MarkedOnce'
  BY <1>3, DeleteChapterMarks, DeleteCourseMarks, ReadsMark
     DEF Teach, CreateChapter, CreateLesson, UpdateLesson, ReorderRead
<1>4. ASSUME NEW s \in Slots, Continue(s)  PROVE MarkedOnce'
  BY <1>4, DeleteLessonsMarks, CommitDeleteMarks, WritesMark, ReadsMark
     DEF Continue, CountChapters, CountLessons, Aborted, ReadCurrent, ReadPrevious,
         CountIncomplete, Confirm, Upsert
<1>5. ASSUME NEW s \in Slots, NEW u \in Students, Study(s, u)  PROVE MarkedOnce'
  BY <1>5, ReadsMark DEF Study, CompleteLesson
<1> QED  BY <1>1, <1>2, <1>3, <1>4, <1>5 DEF Next, Quiescent, vars

\* Deletions of chapters and of the course, of single lessons and edits may overlap as they
\* like: the rows that a deletion has marked stay live until it commits, and no other has
\* marked them, so that nobody deletes a row twice (chapter.repo.ts and course.repo.ts delete).
THEOREM RowsDeletedOnce == Spec => []MarkedOnce
<1>1. Init => MarkedOnce
  BY DEF Init, MarkedOnce, MarksLive, MarksApart, Deleting, IdleReq
<1>2. OutlineInv /\ MarkedOnce /\ [Next]_vars => MarkedOnce'
  BY MarkedOnceStep
<1> QED  BY <1>1, <1>2, OutlineAlways, PTL DEF Spec

-----------------------------------------------------------------------------
(* Nobody waits for ever.  A lesson's edit, a deletion and a reorder wait for    *)
(* rows that a deletion has marked; one that has marked them all waits no more.   *)

CanGoOn(s) ==
  /\ ~ At(s, "idle")
  /\ At(s, "writeLesson") => ~ LessonLocked(req[s].lesson)
  /\ At(s, "deleteLessons") => \A l \in LessonsToDelete(s) : ~ LessonLocked(l)
  /\ At(s, "reorder") =>
       /\ \A c \in DOMAIN req[s].plan.chapters : ~ ChapterLocked(c)
       /\ \A l \in DOMAIN req[s].plan.lessons : ~ LessonLocked(l)

NoStandstill ==
  (\E s \in Slots : ~ At(s, "idle")) => \E s \in Slots : CanGoOn(s)

\* Requests on the outline never all wait for rows that deletions have marked: one of them
\* can go on (chapter.repo.ts and course.repo.ts delete, reorder).  What a reorder's own row
\* locks add to that, the model leaves to Aborted.
THEOREM NeverAllWait == Spec => []NoStandstill
<1>1. NoStandstill
  <2> SUFFICES ASSUME NEW s \in Slots, ~ At(s, "idle")
               PROVE  \E x \in Slots : CanGoOn(x)
    BY DEF NoStandstill
  <2>1. ASSUME NEW x \in Slots, At(x, "commitDelete")  PROVE CanGoOn(x)
    BY <2>1 DEF CanGoOn, At
  <2>2. CASE \A x \in Slots : ~ At(x, "commitDelete")
    <3>1. \A l : ~ LessonLocked(l)
      BY <2>2 DEF LessonLocked
    <3>2. ASSUME NEW x \in Slots, At(x, "deleteLessons")  PROVE CanGoOn(x)
      BY <3>1, <3>2 DEF CanGoOn, At
    <3>3. CASE \A x \in Slots : ~ At(x, "deleteLessons")
      <4>1. \A c : ~ ChapterLocked(c)
        BY <2>2, <3>3 DEF ChapterLocked, At
      <4> QED  BY <3>1, <4>1 DEF CanGoOn
    <3> QED  BY <3>2, <3>3
  <2> QED  BY <2>1, <2>2
<1> QED  BY <1>1, PTL

\* And these are all the waits: a request that is not aborted takes a step only when nothing
\* holds it up.
GoesOnAlone == \A s \in Slots : Continue(s) => CanGoOn(s) \/ Aborted(s)

THEOREM WaitsAreAll == Spec => [][GoesOnAlone]_vars
<1>1. ASSUME NEW s \in Slots, Continue(s)  PROVE CanGoOn(s) \/ Aborted(s)
  <2>1. CASE WriteLesson(s) \/ DeleteLessons(s) \/ CommitDelete(s) \/ ReorderWrite(s)
    BY <2>1 DEF WriteLesson, DeleteLessons, CommitDelete, ReorderWrite, CanGoOn, At
  <2>2. CASE CountChapters(s) \/ InsertChapter(s) \/ CountLessons(s) \/ InsertLesson(s)
    BY <2>2 DEF CountChapters, InsertChapter, CountLessons, InsertLesson, CanGoOn, At
  <2>3. CASE \/ ReadCurrent(s) \/ ReadPrevious(s) \/ CountIncomplete(s) \/ Confirm(s)
             \/ Upsert(s)
    BY <2>3 DEF ReadCurrent, ReadPrevious, CountIncomplete, Confirm, Upsert, CanGoOn, At
  <2> QED  BY <1>1, <2>1, <2>2, <2>3 DEF Continue
<1>2. [Next]_vars => GoesOnAlone
  BY <1>1 DEF GoesOnAlone
<1> QED  BY <1>2, PTL DEF Spec

-----------------------------------------------------------------------------
(* No request goes round in circles.                                          *)

Ahead(pc) ==
  CASE pc = "idle" -> 0
    [] pc \in {"insertChapter", "insertLesson", "writeLesson", "commitDelete", "reorder",
               "upsert"} -> 1
    [] pc \in {"countChapters", "countLessons", "deleteLessons", "confirm"} -> 2
    [] pc = "incomplete" -> 3
    [] pc = "previous" -> 4
    [] pc = "current" -> 5

RunsDown ==
  \A s \in Slots :
    ~ At(s, "idle") => req'[s] = req[s] \/ Ahead(req'[s].pc) < Ahead(req[s].pc)

LEMMA ContinueLower ==
  ASSUME OutlineInv, NEW s \in Slots, Continue(s)
  PROVE  RunsDown
<1>1. req \in [Slots -> ReqRow]
  BY DEF OutlineInv, TypeOK
<1>2. ASSUME NEW r, req' = [req EXCEPT ![s] = r], Ahead(r.pc) < Ahead(req[s].pc)
      PROVE  RunsDown
  BY <1>1, <1>2 DEF RunsDown
<1>3. ASSUME Finish(s), ~ At(s, "idle")  PROVE RunsDown
  <2>1. req[s].pc \in Pcs \ {"idle"}
    BY <1>1, <1>3 DEF At, ReqRow
  <2>2. Ahead(IdleReq.pc) < Ahead(req[s].pc)
    BY <2>1 DEF IdleReq, Ahead, Pcs
  <2> QED  BY <1>2, <1>3, <2>2 DEF Finish
<1>4. CASE CountChapters(s) \/ CountLessons(s) \/ DeleteLessons(s)
  <2>1. req'[s].pc \in {"insertChapter", "insertLesson", "commitDelete"}
        /\ req[s].pc \in {"countChapters", "countLessons", "deleteLessons"}
        /\ \A x \in Slots \ {s} : req'[x] = req[x]
    BY <1>1, <1>4 DEF CountChapters, CountLessons, DeleteLessons, At, ReqRow
  <2>2. Ahead(req'[s].pc) = 1 /\ Ahead(req[s].pc) = 2
    BY <2>1 DEF Ahead
  <2> QED  BY <2>1, <2>2 DEF RunsDown
<1>5. CASE /\ ReadCurrent(s) \/ ReadPrevious(s) \/ CountIncomplete(s) \/ Confirm(s)
           /\ ~ Finish(s)
  <2>1. /\ \A x \in Slots \ {s} : req'[x] = req[x]
        /\ \/ req[s].pc = "current" /\ req'[s].pc = "previous"
           \/ req[s].pc = "previous" /\ req'[s].pc = "incomplete"
           \/ req[s].pc = "incomplete" /\ req'[s].pc = "confirm"
           \/ req[s].pc = "confirm" /\ req'[s].pc = "upsert"
    <3>1. CASE ReadCurrent(s)
      BY <1>1, <1>5, <3>1 DEF ReadCurrent, At, ReqRow
    <3>2. CASE ReadPrevious(s)
      BY <1>1, <3>2 DEF ReadPrevious, At, ReqRow
    <3>3. CASE CountIncomplete(s) \/ Confirm(s)
      BY <1>1, <1>5, <3>3 DEF CountIncomplete, Confirm, At, ReqRow
    <3> QED  BY <1>5, <3>1, <3>2, <3>3
  <2>2. Ahead(req'[s].pc) < Ahead(req[s].pc)
    BY <2>1 DEF Ahead
  <2> QED  BY <2>1, <2>2 DEF RunsDown
<1>6. CASE Finish(s)
  <2>1. ~ At(s, "idle")
    BY DEF Continue, CountChapters, CountLessons, DeleteLessons, InsertChapter, InsertLesson,
           WriteLesson, CommitDelete, ReorderWrite, Aborted, ReadCurrent, ReadPrevious,
           CountIncomplete, Confirm, Upsert, At
  <2> QED  BY <1>3, <1>6, <2>1
<1> QED  BY <1>4, <1>5, <1>6
         DEF Continue, InsertChapter, InsertLesson, WriteLesson, CommitDelete, ReorderWrite,
             Aborted, Upsert

\* Whatever step is taken, a request that is under way stays or has fewer steps left: with
\* NeverAllWait, what fairness turns into the end of every request.
THEOREM RequestsRunDown == Spec => [][RunsDown]_vars
<1>1. ASSUME OutlineInv, [Next]_vars  PROVE RunsDown
  <2>1. CASE \E s \in Slots : Continue(s)
    BY <1>1, <2>1, ContinueLower
  <2>2. ASSUME NEW s \in Slots, Teach(s) \/ \E u \in Students : Study(s, u)
        PROVE  RunsDown
    <3>1. At(s, "idle") /\ \A x \in Slots \ {s} : req'[x] = req[x]
      BY <1>1, <2>2 DEF Teach, CreateChapter, DeleteCourse, CreateLesson, DeleteChapter,
           UpdateLesson, ReorderRead, Study, CompleteLesson, Start, OutlineInv, TypeOK
    <3> QED  BY <3>1 DEF RunsDown
  <2>3. CASE UNCHANGED req
    BY <2>3 DEF RunsDown
  <2> QED  BY <1>1, <2>1, <2>2, <2>3
           DEF Next, TeachAtOnce, UpdateChapter, DeleteLesson, DraftCourse, SetEnrolled,
               Quiescent, vars
<1> QED  BY <1>1, OutlineAlways, PTL DEF Spec
=============================================================================
