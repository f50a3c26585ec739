------------------------------ MODULE PageJobs ------------------------------
(***************************************************************************)
(* What the pages of the web frontend have in common.  A page is a React   *)
(* component: pg is its state, lost when it is left, and srv is the part   *)
(* of the server's state it works on.                                      *)
(*                                                                         *)
(* A handler that awaits is a job: a click starts it, the server answers   *)
(* in a step of its own, and a last step runs what follows the await.      *)
(* Meanwhile the user goes on using the page.  A job carries what the      *)
(* handler closed over when it was clicked.  Two equal jobs are one.       *)
(***************************************************************************)
EXTENDS Naturals, FiniteSets

CONSTANTS None,
          MaxClicks,   \* bound: clicks and lost answers
          MaxJobs      \* bound: handlers waiting at once

ASSUME PageAssumption == MaxClicks \in Nat /\ MaxJobs \in Nat

VARIABLES srv, pg, jobs, clicks

vars == <<srv, pg, jobs, clicks>>

(* h: the handler; a: what it was called with; got: what the server answered. *)
Job(h, a) == [h |-> h, a |-> a, res |-> "sent", got |-> None]

(* Handler h sends its call. *)
Start(h, a) ==
    /\ clicks < MaxClicks /\ clicks' = clicks + 1
    /\ Cardinality(jobs) < MaxJobs
    /\ jobs' = jobs \cup {Job(h, a)}

(* A click that calls nothing; one that is free, to close what is open. *)
Click == clicks < MaxClicks /\ clicks' = clicks + 1 /\ UNCHANGED <<srv, jobs>>
Local == UNCHANGED <<srv, jobs, clicks>>

(* The server answers j: "ok", "failed", or a code the page tells apart. *)
Answer(j, r, g) ==
    /\ jobs' = (jobs \ {j}) \cup {[j EXCEPT !.res = r, !.got = g]}
    /\ UNCHANGED <<pg, clicks>>

(* The handler of j goes on after its await, and starts the jobs of S. *)
Then(j, S) ==
    /\ jobs' = (jobs \ {j}) \cup S
    /\ UNCHANGED <<srv, clicks>>

Sent(j, H) == j.h \in H /\ j.res = "sent"
Back(j, H) == j.h \in H /\ j.res # "sent"

(* The call or its answer is lost, or the server fails it. *)
Fail(j) ==
    /\ j.res # "failed"
    /\ clicks < MaxClicks /\ clicks' = clicks + 1
    /\ jobs' = (jobs \ {j}) \cup {[j EXCEPT !.res = "failed", !.got = None]}
    /\ UNCHANGED <<srv, pg>>

InFlight(H) == \E j \in jobs : j.h \in H
=============================================================================
