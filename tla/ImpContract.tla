---------------------------- MODULE ImpContract ----------------------------
(***************************************************************************)
(* What flux-imp promises to the instance that runs it, without processes, *)
(* pipes or signals: a request is approved before anything privileged      *)
(* happens for it, a job runs at most once, and the IMP ends the way the   *)
(* job did.  Imp is shown to implement this.                               *)
(***************************************************************************)
CONSTANTS Statuses,    \* how a job can end
          Success,     \* the result of a request that was served
          Failures     \* the results of a request that was refused

VARIABLES kind,      \* "info", "cert" or "job": what is asked for
          allowed,   \* the request is acceptable at this moment
          phase,     \* "deciding", "approved", "running", "reporting", "over"
          job,       \* how the job ended
          known,     \* the IMP is told how
          result     \* how the IMP ended

vars == <<kind, allowed, phase, job, known, result>>

NotYet == <<"none", "none">>

Init == /\ kind \in {"info", "cert", "job"}
        /\ allowed \in BOOLEAN
        /\ phase = "deciding"
        /\ job = NotYet
        /\ known = TRUE
        /\ result = NotYet

\* Permissions and signatures lapse with time.
Lapse == allowed /\ allowed' = FALSE /\ UNCHANGED <<kind, phase, job, known, result>>

Approve == /\ phase = "deciding" /\ kind # "info" /\ allowed
           /\ phase' = "approved"
           /\ UNCHANGED <<kind, allowed, job, known, result>>

Refuse == /\ phase \in {"deciding", "approved"}
          /\ phase' = "over"
          /\ result' \in Failures
          /\ UNCHANGED <<kind, allowed, job, known>>

\* Information is free; a certificate is signed for an approved request.
Serve == /\ phase = CASE kind = "info" -> "deciding"
                      [] kind = "cert" -> "approved"
                      [] OTHER         -> "never"
         /\ phase' = "over"
         /\ result' = Success
         /\ UNCHANGED <<kind, allowed, job, known>>

Start == /\ kind = "job" /\ phase = "approved"
         /\ phase' = "running"
         /\ UNCHANGED <<kind, allowed, job, known, result>>

JobEnds == /\ phase = "running"
           /\ phase' = "reporting"
           /\ job' \in Statuses
           /\ UNCHANGED <<kind, allowed, known, result>>

\* The job's own status, or 128 + the signal that killed it.
Report == /\ phase = "reporting"
          /\ phase' = "over"
          /\ \/ result' = job
             \/ job[1] = "sig" /\ result' = <<"128+", job[2]>>
          /\ UNCHANGED <<kind, allowed, job, known>>

\* The kernel does not tell how the job ended.
Lose == /\ phase = "reporting"
        /\ phase' = "over"
        /\ known' = FALSE
        /\ result' \in Failures
        /\ UNCHANGED <<kind, allowed, job>>

Next == Lapse \/ Approve \/ Refuse \/ Serve \/ Start \/ JobEnds \/ Report \/ Lose

Spec == Init /\ [][Next]_vars
=============================================================================
