-------------------------------- MODULE Imp --------------------------------
(***************************************************************************)
(* The whole of a setuid flux-imp: Privsep decides about a request, and    *)
(* for exec and run its parent goes on as JobMonitor.  Between the two,    *)
(* imp_exec_privileged (src/imp/exec/exec.c) opens a PAM session and puts  *)
(* the job's cgroup under a device policy; it closes the session when the  *)
(* job is gone.  The two modules share nothing but the process that runs   *)
(* them, so each keeps its variables and Imp adds the session and policy.  *)
(*                                                                         *)
(* As in the two modules, Bug definitions hold a mistake each and are not  *)
(* part of the model.                                                      *)
(***************************************************************************)
EXTENDS Naturals

CONSTANTS MaxLen, PipeCap,                      \* of Privsep
          Sigs, SelfSigs, Kid, Desc, MaxSends   \* of JobMonitor

ASSUME ImpAssumption ==
  /\ MaxLen \in Nat \ {0} /\ PipeCap \in Nat \ {0}
  /\ {"USR1", "KILL"} \subseteq Sigs
  /\ SelfSigs \subseteq Sigs
  /\ Kid \notin Desc
  /\ MaxSends \in Nat

VARIABLES cmd, facts, len, ppc, cpc, fds, wakeups, sent, rcvd, cpid, cstatus,
          seen, pstatus

VARIABLES mode, useCgroupKill, mpc, mask, pend, target, todo, found, hpc, kill, killed,
          outcome, kst, kpend, dst, status, sends, lost, targets, atReap, failed

VARIABLES pamSupport,  \* exec.pam-support, in a build with PAM
          pam,         \* the PAM session: "closed", "open"
          devices      \* the device policy has been applied to the cgroup

\* Privsep and JobMonitor, each with the theorems about it, on which ImpProofs
\* builds.
PS == INSTANCE PrivsepProofs

JM == INSTANCE JobMonitorProofs

privsep == <<cmd, facts, len, ppc, cpc, fds, wakeups, sent, rcvd, cpid, cstatus,
             seen, pstatus>>
monitor == <<mode, useCgroupKill, mpc, mask, pend, target, todo, found, hpc, kill,
             killed, outcome, kst, kpend, dst, status, sends, lost, targets, atReap,
             failed>>
session == <<pamSupport, pam, devices>>
vars    == <<privsep, monitor, session>>

Init ==
  /\ PS!Init
  /\ JM!Init
  /\ mode = IF cmd = "run" THEN "run" ELSE "exec"
  /\ pamSupport \in BOOLEAN
  /\ pam = "closed"
  /\ devices = FALSE

-----------------------------------------------------------------------------
\* The parent of exec has passed every check and collected its child.
SettingUp == ppc = "work" /\ cmd = "exec"

\* An error while setting up is fatal, and leaves what is set up as it is.
Die == PS!ParentEnds("failed")

PamSetup ==
  /\ SettingUp /\ pamSupport /\ pam = "closed"
  /\ \/ pam' = "open" /\ UNCHANGED <<ppc, pstatus, fds>>
     \/ Die /\ UNCHANGED pam
  /\ UNCHANGED <<cmd, facts, len, cpc, wakeups, sent, rcvd, cpid, cstatus, seen,
                 monitor, pamSupport, devices>>

CgroupDeviceApply ==
  /\ SettingUp /\ ~devices /\ (pamSupport => pam = "open")
  /\ \/ devices' = TRUE /\ UNCHANGED <<ppc, pstatus, fds>>
     \/ Die /\ UNCHANGED devices
  /\ UNCHANGED <<cmd, facts, len, cpc, wakeups, sent, rcvd, cpid, cstatus, seen,
                 monitor, pamSupport, pam>>

\* A bug: the job starts whether or not its device policy is applied.
BugDecide == PS!Next /\ UNCHANGED <<monitor, session>>

\* Only a job that is fully set up is handed to the monitor.
Decide ==
  /\ PS!Next
  /\ (cmd = "exec" /\ ppc' = "monitor") => devices
  /\ UNCHANGED <<monitor, session>>

\* A bug: the session is closed as soon as the job's first process is reaped.
BugPamFinish == IF mpc = "wait" THEN "closed" ELSE pam

\* pam_finish comes between cgroup_wait_for_empty and the exit of the IMP.
PamFinish == IF mpc = "finish" THEN "closed" ELSE pam

Watch ==
  /\ ppc = "monitor"
  /\ UNCHANGED privsep
  /\ JM!Next
  /\ pam' = IF mpc' # mpc THEN PamFinish ELSE pam
  /\ UNCHANGED <<pamSupport, devices>>

Next == PamSetup \/ CgroupDeviceApply \/ Decide \/ Watch

Spec == Init /\ [][Next]_vars

-----------------------------------------------------------------------------
ImpOver == PS!ParentGone \/ mpc = "ended"

TypeOK == PS!TypeOK /\ JM!TypeOK /\ pam \in {"closed", "open"} /\ devices \in BOOLEAN

\* No process of a job exists before root has checked the request itself, the
\* unprivileged half has exited 0, and, for exec, the job's cgroup is under its
\* device policy.  When the job's first process starts, and until it ends, the PAM
\* session is open if it is asked for (exec.c:254-293, run.c:303-328).
JobIsContained ==
  kst # "none" =>
    /\ PS!Required(cmd) \subseteq seen
    /\ cstatus = "ok"
    /\ cmd = "exec" => devices
    /\ cmd = "exec" /\ pamSupport /\ JM!KidLive => pam = "open"

\* The PAM session spans the job: it is open while those processes run that the
\* job's first process left behind, unless cgroup.procs cannot be opened to see
\* them, and closed once the IMP has ended after starting a job, unless it died
\* because waitpid failed (exec.c:273-277, 320-324, 346-355).
PamSpansJob ==
  (cmd = "exec" /\ pamSupport /\ kst # "none") =>
    /\ useCgroupKill /\ "procs" \notin failed /\ atReap \cap JM!Alive # {}
         => pam = "open"
    /\ mpc = "ended" /\ "waitpid" \notin failed => pam = "closed"

\* The contract's view of the state.
Kind == CASE cmd \in PS!Monitored -> "job" [] cmd = "casign" -> "cert" [] OTHER -> "info"

Approved == PS!Required(cmd) # {} /\ PS!Required(cmd) \subseteq seen

Phase == IF ImpOver THEN "over"
         ELSE IF kst \in {"zombie", "reaped"} THEN "reporting"
         ELSE IF kst # "none" THEN "running"
         ELSE IF Approved THEN "approved" ELSE "deciding"

Result == CASE pstatus = "ok"     -> JM!Exited("0")
            [] pstatus = "failed" -> JM!Exited("1")
            [] OTHER              -> outcome

Contract == INSTANCE ImpContract WITH
  Statuses <- JM!Status,
  Success  <- JM!Exited("0"),
  Failures <- {JM!Exited("1")} \cup {JM!DiedOf(s) : s \in Sigs},
  kind     <- Kind,
  allowed  <- PS!Required(cmd) \subseteq facts,
  phase    <- Phase,
  job      <- status,
  known    <- "waitpid" \notin failed,
  result   <- Result

\* The IMP with its processes, pipes, signals and handlers does only what the
\* contract allows (exec.c, run.c, casign.c, whoami.c under imp.c's main).
ImplementsContract == Contract!Spec
=============================================================================
