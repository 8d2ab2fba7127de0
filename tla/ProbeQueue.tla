------------------------------ MODULE ProbeQueue ------------------------------
(***************************************************************************)
(* What the queue of probes promises: at most one job for a video at a time;  *)
(* every job comes to an end, so that the video can be probed again; and what   *)
(* a worker writes as a lesson's duration was measured on a file uploaded under *)
(* the name of a job that is pending then.  Owners may enter whatever they like. *)
(***************************************************************************)
EXTENDS Naturals, Sequences

CONSTANTS Keys, Files, Lessons, Durations, Probed(_)

VARIABLES
  pending,   \* the keys that have a job
  origin,    \* the names of the files uploaded so far
  probed,    \* the lessons whose duration was written by a worker last
  duration   \* what each lesson shows

vars == <<pending, origin, probed, duration>>

Init ==
  /\ pending = {} /\ probed = {} /\ origin \in Seq(Files)
  /\ duration \in [Lessons -> Durations]

Upload(f) == origin' = Append(origin, f) /\ UNCHANGED <<pending, probed, duration>>

Enqueue(k) == pending' = pending \cup {k} /\ UNCHANGED <<origin, probed, duration>>

Measure(k, v, l) ==
  /\ k \in pending /\ origin[v] = Probed(k)
  /\ duration' = [duration EXCEPT ![l] = v] /\ probed' = probed \cup {l}
  /\ UNCHANGED <<pending, origin>>

Enter(l, d) ==
  /\ duration' = [duration EXCEPT ![l] = d] /\ probed' = probed \ {l}
  /\ UNCHANGED <<pending, origin>>

Settle(k) ==
  /\ k \in pending /\ pending' = pending \ {k}
  /\ UNCHANGED <<origin, probed, duration>>

Next ==
  \/ \E f \in Files : Upload(f)
  \/ \E k \in Keys : Enqueue(k) \/ Settle(k)
  \/ \E k \in Keys, v \in DOMAIN origin, l \in Lessons : Measure(k, v, l)
  \/ \E l \in Lessons, d \in Durations : Enter(l, d)

Spec == Init /\ [][Next]_vars /\ \A k \in Keys : WF_vars(Settle(k))
=============================================================================
