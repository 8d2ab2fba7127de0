----------------------------- MODULE RosterEdits -----------------------------
(***************************************************************************)
(* What the roster of a course promises its editors, as if each edit were    *)
(* one step: a purchase, a removal and a move touch one entry; a bulk         *)
(* synchronisation draws up a plan from what it has read, and carries out all *)
(* of it if it still fits, or nothing.                                        *)
(***************************************************************************)
CONSTANTS Editors, Users, Courses   \* 0 is no course

VARIABLES
  on,     \* the entries: who is enrolled in what, pairs <<course, user>>
  plan    \* what each synchronisation has read, until it ends

vars == <<on, plan>>

\* The course, the users asked for, those of them who are active, those on the
\* roster; no course without a plan.
Plans == [course : Courses, want : SUBSET Users, present : SUBSET Users,
          seen : SUBSET Users]
NoPlan == [course |-> 0, want |-> {}, present |-> {}, seen |-> {}]

Init == on = {} /\ plan = [s \in Editors |-> NoPlan]

Enrol(p) == p \notin on /\ on' = on \cup {p} /\ UNCHANGED plan
Remove(p) == p \in on /\ on' = on \ {p} /\ UNCHANGED plan
\* A move of one editor's, which may end nothing else.
Move(p, q) ==
  /\ p \in on /\ q \notin on \ {p}
  /\ on' = (on \ {p}) \cup {q} /\ UNCHANGED plan

Draft(s, p) ==
  /\ plan[s] = NoPlan /\ p.present \subseteq p.want
  /\ plan' = [plan EXCEPT ![s] = p] /\ UNCHANGED on

Entries(c, users) == {c} \X users
ToAdd(p) == Entries(p.course, p.present \ p.seen)
ToDrop(p) == Entries(p.course, p.seen \ p.want)
Fits(p) == ToDrop(p) \subseteq on /\ ToAdd(p) \cap on = {}

CarryOut(s) ==
  LET p == plan[s]
  IN /\ p # NoPlan /\ Fits(p)
     /\ on' = (on \ ToDrop(p)) \cup ToAdd(p)
     /\ plan' = [plan EXCEPT ![s] = NoPlan]
GiveUp(s) == plan[s] # NoPlan /\ plan' = [plan EXCEPT ![s] = NoPlan] /\ UNCHANGED on

Next ==
  \/ \E p, q \in Courses \X Users : Enrol(p) \/ Remove(p) \/ Move(p, q)
  \/ \E s \in Editors : CarryOut(s) \/ GiveUp(s) \/ \E p \in Plans : Draft(s, p)

Spec == Init /\ [][Next]_vars
=============================================================================
