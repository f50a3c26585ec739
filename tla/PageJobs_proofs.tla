-------------------------- MODULE PageJobs_proofs --------------------------
(***************************************************************************)
(* What the proofs about every page need of its jobs: they keep their      *)
(* shape, and a handler that is answered, or whose call is lost, stays in  *)
(* flight until its last step.                                             *)
(***************************************************************************)
EXTENDS PageJobs, TLAPS

(* A job is a record of four fields, whichever page started it. *)
JobFields == {"h", "a", "res", "got"}
JobsShaped == \A j \in jobs : DOMAIN j = JobFields

(* A job that is answered or changed stays the job of its handler. *)
LEMMA Answered ==
  ASSUME JobsShaped, NEW j \in jobs, NEW k, jobs' = (jobs \ {j}) \cup {k},
         DOMAIN k = JobFields, k.h = j.h
  PROVE  JobsShaped' /\ \A H : InFlight(H) => InFlight(H)'
  BY DEF JobsShaped, InFlight

LEMMA AnsweredWith ==
  ASSUME JobsShaped, NEW j \in jobs, NEW r, NEW g, jobs' = (jobs \ {j}) \cup {[j EXCEPT !.res = r, !.got = g]}
  PROVE  JobsShaped' /\ \A H : InFlight(H) => InFlight(H)'
  <1>1. LET k == [j EXCEPT !.res = r, !.got = g] IN DOMAIN k = JobFields /\ k.h = j.h
    BY DEF JobsShaped, JobFields
  <1> QED BY <1>1, Answered

(* A job that starts is in flight, and so is what was. *)
LEMMA Started ==
  ASSUME JobsShaped, NEW k, jobs' = jobs \cup {k}, DOMAIN k = JobFields
  PROVE  /\ JobsShaped'
         /\ \A H : InFlight(H) \/ k.h \in H => InFlight(H)'
  BY DEF JobsShaped, InFlight

LEMMA NewJob ==
  \A h, a : LET k == Job(h, a)
            IN  DOMAIN k = JobFields /\ k.h = h /\ k.a = a /\ k.res = "sent" /\ k.got = None
  BY DEF Job, JobFields
=============================================================================
