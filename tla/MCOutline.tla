------------------------------ MODULE MCOutline ------------------------------
(* Instances of Outline for TLC. *)
EXTENDS Outline, TLC

\* One chapter with two lessons and one with one, as createChapter and
\* createLesson number them; any of the lessons and chapters may be a draft.
Published(o) == [order |-> o, draft |-> FALSE, deleted |-> FALSE]
LessonIn(c, o) == [chapter |-> c, order |-> o, draft |-> FALSE, deleted |-> FALSE]

TwoChapters == [c \in ChapterIds |-> IF c <= 2 THEN Published(c - 1) ELSE None]
ThreeLessons == [l \in LessonIds |->
                   CASE l = 1 -> LessonIn(1, 0) [] l = 2 -> LessonIn(1, 1)
                     [] l = 3 -> LessonIn(2, 0) [] OTHER -> None]
TwoLessons == [l \in LessonIds |->
                 CASE l = 1 -> LessonIn(1, 0) [] l = 2 -> LessonIn(2, 0)
                   [] OTHER -> None]

\* Swap the two chapters; move the second chapter's lesson to the front of
\* the first; give two chapters one order.
NoLessons == [l \in {} |-> 0]
SwapChapters == [chapters |-> (1 :> 1 @@ 2 :> 0), lessons |-> NoLessons]
MoveLesson == [chapters |-> (1 :> 0 @@ 2 :> 1),
               lessons |-> (1 :> [chapter |-> 1, order |-> 1] @@
                            2 :> [chapter |-> 1, order |-> 0])]
MCPlans == {SwapChapters, MoveLesson}
NoPlans == {}

AllKinds == Kinds
SymSlots == Permutations(Slots)
=============================================================================
