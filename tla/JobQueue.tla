------------------------------ MODULE JobQueue ------------------------------
(***************************************************************************)
(* What at and atd promise of a job (at/at.c, at/atd.c): once it is        *)
(* submitted it waits until it is run or removed, and it is run once.      *)
(***************************************************************************)
CONSTANT Job
VARIABLE phase

Init == phase = [j \in Job |-> "none"]

Step(j, from, to) == phase[j] = from /\ phase' = [phase EXCEPT ![j] = to]

Submit(j)   == Step(j, "none", "waiting")
Start(j)    == Step(j, "waiting", "running")
Finish(j)   == Step(j, "running", "done")
Remove(j)   == Step(j, "waiting", "removed")

Next == \E j \in Job : Submit(j) \/ Start(j) \/ Finish(j) \/ Remove(j)

Spec == Init /\ [][Next]_phase
=============================================================================
