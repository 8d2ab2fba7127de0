------------------------------ MODULE Curriculum ------------------------------
(***************************************************************************)
(* What the gate of a course promises, as if it looked and let pass at once: *)
(* a lesson is completed by a student who has completed all that is asked    *)
(* for it, until the course is reshaped.  Before that, edits only ask less.  *)
(* What is completed stays completed.                                         *)
(***************************************************************************)
CONSTANTS Students, Lessons

VARIABLES
  done,      \* who has completed what: pairs <<student, lesson>>
  asked,     \* the lessons to complete before each lesson
  reshaped   \* a lesson has been put somewhere since the start

vars == <<done, asked, reshaped>>

Asks == [Lessons -> SUBSET Lessons]
Ready(u, l) == \A p \in asked[l] : <<u, p>> \in done

Init == done = {} /\ asked \in Asks /\ reshaped = FALSE

Complete(u, l) ==
  /\ reshaped \/ Ready(u, l)
  /\ done' = done \cup {<<u, l>>}
  /\ UNCHANGED <<asked, reshaped>>

AskLess ==
  /\ asked' \in Asks /\ \A l \in Lessons : asked'[l] \subseteq asked[l]
  /\ UNCHANGED <<done, reshaped>>

Reshape == reshaped' = TRUE /\ asked' \in Asks /\ UNCHANGED done

Next ==
  \/ \E u \in Students, l \in Lessons : Complete(u, l)
  \/ AskLess \/ Reshape

Spec == Init /\ [][Next]_vars

\* Whatever has been completed was completed in order.
InOrder == ~ reshaped => \A e \in done : Ready(e[1], e[2])
=============================================================================
