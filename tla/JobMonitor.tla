----------------------------- MODULE JobMonitor -----------------------------
(***************************************************************************)
(* The privileged IMP while it starts a job and watches over it: the tail  *)
(* of imp_exec_privileged (src/imp/exec/exec.c) and of imp_run             *)
(* (src/imp/run.c) with src/imp/signals.c, src/imp/cgroup.c and            *)
(* src/imp/pidinfo.c.  The IMP blocks all signals, forks the job, installs *)
(* handlers that pass signals on to it, collects it with waitpid, waits    *)
(* for its cgroup to empty and then ends the way the job ended.            *)
(*                                                                         *)
(* Meanwhile signals are sent to the IMP, and the job's processes fork,    *)
(* exit and die of signals.  The kernel is modelled by its effect: a       *)
(* blocked signal stays pending, once however often it is sent; a forked   *)
(* child inherits the mask and has nothing pending; a dead child keeps its *)
(* pid until it is reaped.  A handler may interrupt another.  No signal     *)
(* suspends a process.                                                     *)
(*                                                                         *)
(* Definitions whose name begins with Bug are not part of the model: each  *)
(* is a definition that follows it with one mistake in it, which TLC has   *)
(* to find when it takes its place.                                        *)
(***************************************************************************)
EXTENDS Naturals

CONSTANTS Sigs,       \* the signals that occur
          SelfSigs,   \* those a job can die of without the IMP's doing
          Kid,        \* the process the IMP forks
          Desc,       \* its descendants, each of which runs at most once
          MaxSends    \* how many signals are sent to the IMP

ASSUME MonitorAssumption ==
  /\ {"USR1", "KILL"} \subseteq Sigs
  /\ SelfSigs \subseteq Sigs
  /\ Kid \notin Desc
  /\ MaxSends \in Nat

VARIABLES
  \* the IMP
  mode,           \* "exec" or "run", the command that starts the job
  useCgroupKill,  \* cgroup->use_cgroup_kill
  mpc,            \* where the IMP is
  mask,           \* the signals it blocks
  pend,           \* the signals pending for it
  target,         \* imp_child: "unset", the pid ("kid") or its group ("group")
  todo,           \* pids read from cgroup.procs and not yet probed
  found,          \* what probing them has found: "none", "hit" or "miss"
  hpc,            \* where its signal handler is
  kill,           \* pids the SIGUSR1 handler read and has not yet killed
  killed,         \* what killing them has found, as in found
  outcome,        \* how the IMP ended
  \* the job
  kst,            \* the state of Kid
  kpend,          \* the signals pending for Kid while it blocks them
  dst,            \* the state of each descendant
  status,         \* how Kid ended
  \* the environment
  sends,          \* signals sent to the IMP so far
  \* history
  lost,           \* forwarded signals that did not reach a live Kid
  targets,        \* the processes SIGUSR1 stood for when it was last handled
  atReap,         \* the descendants that ran when Kid was reaped
  failed          \* the calls that failed: "procs" (cgroup.procs cannot be
                  \* opened while the IMP waits for its cgroup), "waitpid"

imp  == <<mode, useCgroupKill, mpc, mask, target, todo, found, outcome>>
hnd  == <<hpc, kill, killed>>
job  == <<kst, kpend, dst, status>>
hist == <<lost, targets, atReap, failed>>
vars == <<imp, pend, hnd, job, sends, hist>>

-----------------------------------------------------------------------------
(* Signals.                                                                *)

\* The signals that get a handler and stay unblocked.
Forwarded == {"TERM", "INT", "HUP", "CONT", "ALRM", "WINCH", "TTIN", "TTOU",
              "USR1"}

\* Signals that do not kill a process by default.
Harmless == {"CONT", "WINCH", "TTIN", "TTOU"}

Blockable == Sigs \ {"KILL"}

\* The calls whose failure the history records.
Calls == {"procs", "waitpid"}

NoStatus == <<"none", "none">>
Exited(c) == <<"exit", c>>
DiedOf(s) == <<"sig", s>>
Status == {Exited(c) : c \in {"0", "1"}} \cup {DiedOf(s) : s \in Sigs}

\* The signal that imp_raise has to raise.
Raising(s) == mpc \in {"raise", "raised", "pause", "woken"} /\ status = DiedOf(s)

\* sigaction: fwd_signal handles s; imp_raise puts the default back.
Handled(s) == /\ s \in Forwarded
              /\ mpc \notin {"block", "fork", "register", "forward"}
              /\ ~Raising(s)

-----------------------------------------------------------------------------
(* The job's processes, and what kill(2) does to them.                     *)

Alive == {d \in Desc : dst[d] = "alive"}

KidLive == kst \in {"born", "open", "job"}

Procs == Desc \cup {Kid}
Live  == Alive \cup (IF KidLive THEN {Kid} ELSE {})

\* Signal s reaches the processes S.  A newborn child still blocks everything
\* but SIGKILL; until it calls exec it has default dispositions; after that a
\* process may die of s or not.
Strike(S, s) ==
  LET hit      == S \cap Live
      deferred == {p \in hit : p = Kid /\ kst = "born" /\ s # "KILL"}
  IN \E dead \in SUBSET (hit \ deferred) :
       /\ s = "KILL" => dead = hit
       /\ (Kid \in hit /\ kst = "open" /\ s \notin Harmless) => Kid \in dead
       /\ kpend' = IF deferred = {} THEN kpend ELSE kpend \cup {s}
       /\ dst' = [d \in Desc |-> IF d \in dead THEN "dead" ELSE dst[d]]
       /\ kst' = IF Kid \in dead THEN "zombie" ELSE kst
       /\ status' = IF Kid \in dead THEN DiedOf(s) ELSE status

\* The processes kill(imp_child, s) reaches: imp_child is Kid's pid in exec and
\* its process group in run, which is empty until Kid has called setpgrp.
Reached ==
  CASE target = "kid"   -> {Kid} \cap Live
    [] target = "group" -> IF kst \in {"born", "open"} THEN {} ELSE Live
    [] OTHER            -> {}

\* kill(2) of one pid succeeds on a live process and on one that has died and
\* is not reaped yet; res accumulates what a loop over pids has seen.
\* (A bug: only the last pid counts.)
BugTally(res, ok) == IF ok THEN "hit" ELSE "miss"

Tally(res, ok) == IF ok \/ res = "hit" THEN "hit" ELSE "miss"

Init ==
  /\ mode \in {"exec", "run"}
  /\ useCgroupKill \in BOOLEAN
  /\ mpc = "block"
  /\ mask = {}
  /\ pend = {}
  /\ target = "unset"
  /\ todo = {} /\ found = "none"
  /\ hpc = "idle" /\ kill = {} /\ killed = "none"
  /\ outcome = NoStatus
  /\ kst = "none" /\ kpend = {} /\ status = NoStatus
  /\ dst = [d \in Desc |-> "unborn"]
  /\ sends = 0
  /\ lost = {} /\ targets = {} /\ atReap = {} /\ failed = {}

-----------------------------------------------------------------------------
(* The IMP's main flow.  It runs when no handler does and no signal is due. *)

Ready == hpc = "idle" /\ pend \subseteq mask

Ended(st) == mpc' = "ended" /\ outcome' = st

\* A bug: the job is forked with all signals enabled.
BugSigblockAll ==
  /\ mpc = "block" /\ Ready
  /\ mpc' = "fork"
  /\ UNCHANGED <<mode, useCgroupKill, mask, target, todo, found, outcome, pend, hnd,
                 job, sends, hist>>

SigblockAll ==
  /\ mpc = "block" /\ Ready
  /\ mask' = Blockable
  /\ mpc' = "fork"
  /\ UNCHANGED <<mode, useCgroupKill, target, todo, found, outcome, pend, hnd,
                 job, sends, hist>>

Fork ==
  /\ mpc = "fork" /\ Ready
  /\ \/ kst' = "born" /\ mpc' = "register" /\ UNCHANGED outcome
     \/ Ended(Exited("1")) /\ UNCHANGED kst
  /\ UNCHANGED <<mode, useCgroupKill, mask, target, todo, found, pend, hnd, kpend,
                 dst, status, sends, hist>>

\* A bug: exec signals a process group too, which its child never makes.
BugImpChild == "group"

\* imp_set_signal_child (child) in exec, (-child) in run.
ImpChild == IF mode = "exec" THEN "kid" ELSE "group"

SetSignalChild ==
  /\ mpc = "register" /\ Ready
  /\ target' = ImpChild
  /\ mpc' = "forward"
  /\ UNCHANGED <<mode, useCgroupKill, mask, todo, found, outcome, pend, hnd, job,
                 sends, hist>>

\* Two bugs: nothing is unblocked again, or not the IMP's own SIGUSR1.
BugAllBlocked  == Blockable
BugUsr1Blocked == Blockable \ (Forwarded \ {"USR1"})

ForwardingMask == Blockable \ Forwarded

\* imp_setup_signal_forwarding: handlers first, then the mask.
SetupSignalForwarding ==
  /\ mpc = "forward" /\ Ready
  /\ mask' = ForwardingMask
  /\ mpc' = "wait"
  /\ UNCHANGED <<mode, useCgroupKill, target, todo, found, outcome, pend, hnd, job,
                 sends, hist>>

\* The waitpid loop: a signal makes it try again.  It can also find that the
\* kernel has reaped the child for it (ECHILD), which is fatal.
WaitPid ==
  /\ mpc = "wait" /\ Ready
  /\ kst = "zombie"
  /\ kst' = "reaped"
  /\ atReap' = Alive
  /\ \/ mpc' = "drain" /\ UNCHANGED <<outcome, failed>>
     \/ Ended(Exited("1")) /\ failed' = failed \cup {"waitpid"}
  /\ UNCHANGED <<mode, useCgroupKill, mask, target, todo, found, pend, hnd, kpend, dst,
                 status, sends, lost, targets>>

\* A bug: the IMP, which is in the job's cgroup, counts itself.
BugCgroupProcs == Live \cup {"imp"}

\* The pids that reading cgroup.procs gives, without the IMP's own.
CgroupProcs == Live

\* cgroup_wait_for_empty: each pass reads cgroup.procs once.  That the file cannot
\* be opened ends the wait and is no error.
ReadProcs ==
  /\ mpc = "drain" /\ Ready
  /\ \/ /\ useCgroupKill
        /\ todo' = CgroupProcs /\ found' = "none" /\ mpc' = "probe"
        /\ UNCHANGED failed
     \/ /\ useCgroupKill
        /\ failed' = failed \cup {"procs"}
        /\ mpc' = "finish" /\ UNCHANGED <<todo, found>>
     \/ /\ ~useCgroupKill
        /\ mpc' = "finish" /\ UNCHANGED <<todo, found, failed>>
  /\ UNCHANGED <<mode, useCgroupKill, mask, target, outcome, pend, hnd, job, sends,
                 lost, targets, atReap>>

\* cgroup_kill (cgroup, 0) on one of the pids.
Probe ==
  /\ mpc = "probe" /\ Ready
  /\ \E p \in todo :
       /\ todo' = todo \ {p}
       /\ \E zombie \in BOOLEAN : found' = Tally(found, p \in Live \/ zombie)
  /\ UNCHANGED <<mode, useCgroupKill, mpc, mask, target, outcome, pend, hnd, job,
                 sends, hist>>

\* Another pass, after a sleep, as long as the probe of some pid succeeds.
PassDone ==
  /\ mpc = "probe" /\ Ready
  /\ todo = {}
  /\ mpc' = IF found = "hit" THEN "drain" ELSE "finish"
  /\ UNCHANGED <<mode, useCgroupKill, mask, target, todo, found, outcome, pend, hnd,
                 job, sends, hist>>

\* Exit with status of the child process.
Finish ==
  /\ mpc = "finish" /\ Ready
  /\ \/ /\ \E c \in {"0", "1"} : status = Exited(c)
        /\ Ended(status)
     \/ /\ \E s \in Sigs : status = DiedOf(s)
        /\ mpc' = "raise"
        /\ UNCHANGED outcome
  /\ UNCHANGED <<mode, useCgroupKill, mask, target, todo, found, pend, hnd, job, sends,
                 hist>>

\* imp_raise: raise(3) ends the IMP unless the signal is blocked.
Raise ==
  /\ mpc = "raise" /\ Ready
  /\ \E s \in Sigs :
       /\ status = DiedOf(s)
       /\ \/ s \notin mask /\ Ended(status) /\ UNCHANGED pend
          \/ s \in mask /\ mpc' = "raised" /\ pend' = pend \cup {s} /\ UNCHANGED outcome
  /\ UNCHANGED <<mode, useCgroupKill, mask, target, todo, found, hnd, job, sends, hist>>

\* A handler that has run before pause(2) is entered does not end it.
Pause ==
  /\ mpc = "raised" /\ Ready
  /\ mpc' = "pause"
  /\ UNCHANGED <<mode, useCgroupKill, mask, target, todo, found, outcome, pend, hnd,
                 job, sends, hist>>

\* pause(2) returned: exit with 128 + signal.
Woken ==
  /\ mpc = "woken" /\ Ready
  /\ Ended(<<"128+", status[2]>>)
  /\ UNCHANGED <<mode, useCgroupKill, mask, target, todo, found, pend, hnd, job, sends,
                 hist>>

-----------------------------------------------------------------------------
(* Signals taken by the IMP.                                               *)

\* A handler that returns ends pause(2).
AfterHandler == IF mpc = "pause" THEN "woken" ELSE mpc

\* A signal is taken also while another one is handled, but not while the same
\* one is: only the handler of SIGUSR1 takes several steps.
Due(s) == /\ mpc # "ended"
          /\ s \in pend \ mask
          /\ s = "USR1" => hpc = "idle"

\* The SIGUSR1 handler is at h.
Handling(h) == hpc = h /\ mpc # "ended"

\* fwd_signal for everything but SIGUSR1: kill (imp_child, signum).
ForwardSignal(s) ==
  /\ Due(s) /\ Handled(s) /\ s # "USR1"
  /\ pend' = pend \ {s}
  /\ mpc' = AfterHandler
  /\ Strike(Reached, s)
  /\ lost' = IF KidLive /\ Kid \notin Reached THEN lost \cup {s} ELSE lost
  /\ UNCHANGED <<mode, useCgroupKill, mask, target, todo, found, outcome, hnd, sends,
                 targets, atReap, failed>>

\* fwd_signal for SIGUSR1 begins: read cgroup.procs, or go for the children when
\* that is not asked for or the file cannot be opened.
BeginKill ==
  /\ Due("USR1") /\ Handled("USR1")
  /\ pend' = pend \ {"USR1"}
  /\ killed' = "none"
  /\ \/ /\ useCgroupKill
        /\ hpc' = "cgroup" /\ kill' = CgroupProcs /\ targets' = Live
     \/ hpc' = "children" /\ kill' = {} /\ targets' = Live \cap {Kid}
  /\ UNCHANGED <<imp, job, sends, lost, atReap, failed>>

\* A bug: the first pid that cannot be killed ends the loop.
BugKillOne ==
  /\ Handling("cgroup")
  /\ \E p \in kill :
       /\ kill' = IF p \in Live THEN kill \ {p} ELSE {}
       /\ Strike({p}, "KILL")
       /\ \E zombie \in BOOLEAN : killed' = Tally(killed, p \in Live \/ zombie)
  /\ UNCHANGED <<imp, pend, hpc, sends, hist>>

\* cgroup_kill (cgroup, SIGKILL) on one of the pids.
KillOne ==
  /\ Handling("cgroup")
  /\ \E p \in kill :
       /\ kill' = kill \ {p}
       /\ Strike({p}, "KILL")
       /\ \E zombie \in BOOLEAN : killed' = Tally(killed, p \in Live \/ zombie)
  /\ UNCHANGED <<imp, pend, hpc, sends, hist>>

\* All failed: fall back on pid_kill_children.
KillDone ==
  /\ Handling("cgroup")
  /\ kill = {}
  /\ \/ killed = "miss" /\ hpc' = "children" /\ UNCHANGED mpc
     \/ killed # "miss" /\ hpc' = "idle" /\ mpc' = AfterHandler
  /\ UNCHANGED <<mode, useCgroupKill, mask, target, todo, found, outcome, pend, kill,
                 killed, job, sends, hist>>

\* pid_kill_children (getpid (), SIGKILL): Kid is the only child.
KillChildren ==
  /\ Handling("children")
  /\ hpc' = "idle"
  /\ mpc' = AfterHandler
  /\ Strike({Kid}, "KILL")
  /\ UNCHANGED <<mode, useCgroupKill, mask, target, todo, found, outcome, pend, kill,
                 killed, sends, hist>>

\* The default disposition of a signal that has no handler.
DefaultAction(s) ==
  /\ Due(s) /\ ~Handled(s)
  /\ pend' = pend \ {s}
  /\ \/ s \in Harmless /\ UNCHANGED <<mpc, outcome>>
     \/ s \notin Harmless /\ Ended(DiedOf(s))
  /\ UNCHANGED <<mode, useCgroupKill, mask, target, todo, found, hnd, job, sends, hist>>

-----------------------------------------------------------------------------
(* The job.                                                                *)

\* The child: imp_sigunblock_all, where a pending signal is taken.
KidUnblocks ==
  /\ kst = "born"
  /\ kpend' = {}
  /\ \/ /\ kpend \subseteq Harmless
        /\ kst' = "open"
        /\ UNCHANGED status
     \/ \E s \in kpend \ Harmless : kst' = "zombie" /\ status' = DiedOf(s)
  /\ UNCHANGED <<imp, pend, hnd, dst, sends, hist>>

\* The child: in exec, imp_switch_user and execvp; in run, setpgrp, the uid
\* change and execve.  Each failure is fatal to it.
KidStarts ==
  /\ kst = "open"
  /\ \/ kst' = "job" /\ UNCHANGED status
     \/ kst' = "zombie" /\ status' = Exited("1")
  /\ UNCHANGED <<imp, pend, hnd, kpend, dst, sends, hist>>

KidEnds ==
  /\ kst = "job"
  /\ kst' = "zombie"
  /\ \/ \E c \in {"0", "1"} : status' = Exited(c)
     \/ \E s \in SelfSigs : status' = DiedOf(s)
  /\ UNCHANGED <<imp, pend, hnd, kpend, dst, sends, hist>>

JobForks ==
  /\ kst = "job" \/ Alive # {}
  /\ \E d \in Desc : dst[d] = "unborn" /\ dst' = [dst EXCEPT ![d] = "alive"]
  /\ UNCHANGED <<imp, pend, hnd, kst, kpend, status, sends, hist>>

DescEnds ==
  /\ \E d \in Alive : dst' = [dst EXCEPT ![d] = "dead"]
  /\ UNCHANGED <<imp, pend, hnd, kst, kpend, status, sends, hist>>

(* The environment.                                                        *)

SendSignal ==
  /\ mpc # "ended"
  /\ sends < MaxSends
  /\ sends' = sends + 1
  /\ \E s \in Blockable : pend' = pend \cup {s}
  /\ UNCHANGED <<imp, hnd, job, hist>>

Finished == mpc = "ended" /\ UNCHANGED vars

-----------------------------------------------------------------------------
Main == \/ SigblockAll \/ Fork \/ SetSignalChild \/ SetupSignalForwarding
        \/ WaitPid \/ ReadProcs \/ Probe \/ PassDone \/ Finish \/ Raise \/ Pause
        \/ Woken

Handler == \/ BeginKill \/ KillOne \/ KillDone \/ KillChildren
           \/ \E s \in Sigs : ForwardSignal(s) \/ DefaultAction(s)

Job == KidUnblocks \/ KidStarts \/ KidEnds \/ JobForks \/ DescEnds

Next == Main \/ Handler \/ Job \/ SendSignal \/ Finished

\* The kernel schedules the IMP and the child it forked, and delivers signals
\* that are due.  Nothing makes a job end, fork, or anyone send a signal.
Fairness == WF_vars(Main) /\ WF_vars(Handler) /\ WF_vars(KidUnblocks \/ KidStarts)

Spec == Init /\ [][Next]_vars /\ Fairness

-----------------------------------------------------------------------------
TypeOK ==
  /\ mode \in {"exec", "run"}
  /\ useCgroupKill \in BOOLEAN
  /\ mpc \in {"block", "fork", "register", "forward", "wait", "drain", "probe",
              "finish", "raise", "raised", "pause", "woken", "ended"}
  /\ mask \in SUBSET Blockable
  /\ pend \in SUBSET Blockable
  /\ target \in {"unset", "kid", "group"}
  /\ todo \in SUBSET Procs
  /\ found \in {"none", "hit", "miss"}
  /\ hpc \in {"idle", "cgroup", "children"}
  /\ kill \in SUBSET Procs
  /\ killed \in {"none", "hit", "miss"}
  /\ outcome \in Status \cup {NoStatus} \cup {<<"128+", s>> : s \in Sigs}
  /\ kst \in {"none", "born", "open", "job", "zombie", "reaped"}
  /\ kpend \in SUBSET Blockable
  /\ dst \in [Desc -> {"unborn", "alive", "dead"}]
  /\ status \in Status \cup {NoStatus}
  /\ sends \in 0..MaxSends
  /\ lost \in SUBSET Sigs
  /\ targets \in SUBSET Procs
  /\ atReap \in SUBSET Desc
  /\ failed \in SUBSET Calls

\* Once it has forked a job the IMP neither dies of a signal sent to it nor
\* gives up early: it ends after the job is reaped, and then the way the job
\* ended, or with 1 if waitpid did not tell how that was (exec.c:290, 320-324 and
\* 357-363; run.c:190 and 268-274).
MirrorsJob ==
  (mpc = "ended" /\ kst # "none") =>
    /\ kst = "reaped"
    /\ IF "waitpid" \in failed
         THEN outcome = Exited("1")
         ELSE /\ outcome \in {status, <<"128+", status[2]>>}
              /\ outcome[1] = "128+" => status[1] = "sig"

\* A signal taken while the job runs reaches it, also one that came before the
\* fork was announced or before the child has unblocked signals (exec.c:296,
\* 315-318).  This is the exec command; run is checked separately.
ExecLosesNoSignal == mode = "exec" => lost = {}

\* When its handler returns, SIGUSR1 leaves none of the processes running that it
\* found, also when some of them die or fork or other signals come while it works
\* through them (signals.c:75-90, cgroup.c:220-233).
KillReachesAllFound == hpc = "idle" => targets \cap Live = {}

\* The IMP has stopped waiting for the cgroup.
Leaving == mpc \in {"finish", "raise", "raised", "pause", "woken", "ended"}

\* With a cgroup to watch, and unless waitpid or the opening of cgroup.procs
\* fails, the IMP outlives every process that ran when the job's first process
\* was reaped (cgroup.c:242-263).  When cgroup.procs cannot be opened, which
\* cgroup_wait_for_empty takes for an empty cgroup, it does not.
OutlivesJob == (useCgroupKill /\ failed = {} /\ Leaving) => atReap \cap Alive = {}

\* The statuses that imp_raise can pass on, given the mask it runs under.
Raisable == status[1] = "exit" \/ status[2] \in Forwarded \cup {"KILL"}

JobGone == kst \in {"zombie", "reaped"} /\ Alive = {}

\* When the last process of the job is gone the IMP ends, if the job exited or
\* died of SIGKILL or a forwarded signal.
EndsAfterJob == (JobGone /\ Raisable) ~> (mpc = "ended")

\* A signal that the IMP forwards does not stay pending: it is taken also if it
\* came while all signals were blocked around the fork (exec.c:291, signals.c:129).
ForwardedAreTaken ==
  \A s \in Forwarded \cap Sigs : (s \in pend) ~> (s \notin pend \/ mpc = "ended")

-----------------------------------------------------------------------------
(* What comments in the code promise and the code does not keep.           *)

\* "Exit with status of the child process" (exec.c:357, run.c:268), with "If we
\* get here ... signal failed to kill the IMP during pause(). Exit with standard
\* 128+sig" (signals.c:138): the IMP ends when the job is gone, whatever killed it.
AlwaysEndsAfterJob == JobGone ~> (mpc = "ended")

\* "Ensure common signals received by this IMP are forwarded to the child
\* process" (exec.c:315), "so that parent IMP can signal the pgrp as a whole"
\* (run.c:203).
LosesNoSignal == lost = {}

\* "STATUS=cgroup is now empty, exiting" (exec.c:349, run.c:266), here when no
\* call has failed.
CgroupEmptyAtEnd ==
  (useCgroupKill /\ failed = {} /\ kst = "reaped" /\ Leaving) => Alive = {}
=============================================================================
