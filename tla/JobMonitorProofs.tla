-------------------------- MODULE JobMonitorProofs --------------------------
(* Proofs of the safety properties of JobMonitor for every set of signals, *)
(* every number of descendants and every number of signals sent.           *)
EXTENDS JobMonitor, TLAPS

\* The IMP has reaped the job and has not ended.
AfterReap == {"drain", "probe", "finish", "raise", "raised", "pause", "woken"}

\* Its handlers are installed.
Guarding == AfterReap \cup {"wait"}

\* The IMP's steps and the state of the child it forks.
FlowInv ==
  /\ mpc \in {"block", "fork"} => kst = "none"
  /\ mpc \in {"register", "forward", "wait"} => kst \in {"born", "open", "job", "zombie"}
  /\ mpc \in AfterReap => kst = "reaped"
  /\ kst \in {"zombie", "reaped"} => status \in Status
  /\ mpc \in {"raise", "raised", "pause", "woken"} => \E s \in Sigs : status = DiedOf(s)
  /\ mpc # "ended" => outcome = NoStatus /\ "waitpid" \notin failed
  /\ hpc # "idle" => mpc \in Guarding \cup {"ended"}

\* What is blocked, and imp_child, at each step.
MaskInv ==
  /\ mpc \in {"fork", "register", "forward"} => mask = Blockable
  /\ mpc \in Guarding => mask = Blockable \ Forwarded
  /\ mpc \in Guarding \cup {"forward"} => target = (IF mode = "exec" THEN "kid" ELSE "group")

\* A descendant that once ran is not unborn, so that it cannot come back.
Began(p) == IF p = Kid THEN kst # "none" ELSE dst[p] # "unborn"

\* What the SIGUSR1 handler found and has not killed is still in its list.
KillInv ==
  /\ \A p \in targets : Began(p)
  /\ hpc = "idle" => targets \cap Live = {}
  /\ hpc = "cgroup" => targets \cap Live \subseteq kill
  /\ hpc = "children" => targets \cap Live \subseteq {Kid}

\* What ran when the kid was reaped and still runs is in the list being probed,
\* or the probe has found a live process.
DrainInv ==
  /\ kst # "reaped" => atReap = {}
  /\ \A d \in atReap : dst[d] # "unborn"
  /\ mpc = "probe" => found = "hit" \/ atReap \cap Alive \subseteq todo
  /\ useCgroupKill /\ failed = {} /\ Leaving => atReap \cap Alive = {}

IInv == /\ TypeOK /\ FlowInv /\ MaskInv /\ KillInv /\ DrainInv
        /\ MirrorsJob /\ ExecLosesNoSignal

-----------------------------------------------------------------------------
(* What a signal does to the job.                                          *)

LEMMA StrikeEffect ==
  ASSUME TypeOK, NEW S, NEW s \in Sigs, Strike(S, s)
  PROVE  /\ kpend' \in SUBSET Blockable
         /\ dst' \in [Desc -> {"unborn", "alive", "dead"}]
         /\ \A d \in Desc : dst'[d] = dst[d] \/ (dst[d] = "alive" /\ dst'[d] = "dead")
         /\ \/ kst' = kst /\ status' = status
            \/ KidLive /\ kst' = "zombie" /\ status' = DiedOf(s)
         /\ s = "KILL" => S \cap Live' = {}
<1> DEFINE hit      == S \cap Live
           deferred == {p \in hit : p = Kid /\ kst = "born" /\ s # "KILL"}
<1>1. PICK dead \in SUBSET (hit \ deferred) :
        /\ s = "KILL" => dead = hit
        /\ kpend' = IF deferred = {} THEN kpend ELSE kpend \cup {s}
        /\ dst' = [d \in Desc |-> IF d \in dead THEN "dead" ELSE dst[d]]
        /\ kst' = IF Kid \in dead THEN "zombie" ELSE kst
        /\ status' = IF Kid \in dead THEN DiedOf(s) ELSE status
  BY DEF Strike
<1>2. \A p \in dead : p \in Live
  OBVIOUS
<1>3. Kid \in dead => KidLive
  BY <1>2, MonitorAssumption DEF Live, Alive
<1>4. \A d \in Desc : d \in dead => dst[d] = "alive"
  BY <1>2, MonitorAssumption DEF Live, Alive
<1>5. kpend' \in SUBSET Blockable
  BY <1>1 DEF TypeOK, Blockable
<1>6. /\ dst' \in [Desc -> {"unborn", "alive", "dead"}]
      /\ \A d \in Desc : dst'[d] = dst[d] \/ (dst[d] = "alive" /\ dst'[d] = "dead")
  BY <1>1, <1>4 DEF TypeOK
<1>7. s = "KILL" => S \cap Live' = {}
  <2> SUFFICES ASSUME s = "KILL", NEW p \in S, p \in Live' PROVE FALSE
    OBVIOUS
  <2>1. p \in Live
    BY <1>1, <1>4 DEF Live, Alive, KidLive, TypeOK
  <2>2. p \in dead
    BY <1>1, <2>1
  <2> QED
    BY <1>1, <2>2, MonitorAssumption DEF Live, Alive, KidLive
<1> QED
  BY <1>1, <1>3, <1>5, <1>6, <1>7
-----------------------------------------------------------------------------
(* The invariant holds initially and every step preserves it.              *)

LEMMA InitIInv == Init => IInv
<1> SUFFICES ASSUME Init PROVE IInv
  OBVIOUS
<1>1. TypeOK
  BY MonitorAssumption DEF Init, TypeOK, NoStatus
<1>2. FlowInv /\ MaskInv /\ DrainInv
  BY DEF Init, FlowInv, MaskInv, DrainInv, AfterReap, Guarding, Leaving
<1>3. KillInv /\ MirrorsJob /\ ExecLosesNoSignal
  BY DEF Init, KillInv, MirrorsJob, ExecLosesNoSignal
<1> QED
  BY <1>1, <1>2, <1>3 DEF IInv

\* Steps of the IMP's main flow that leave the job alone.
LEMMA QuietMainStep ==
  ASSUME IInv,
         \/ SigblockAll \/ SetSignalChild \/ SetupSignalForwarding \/ ReadProcs
         \/ Probe \/ PassDone \/ Finish \/ Raise \/ Pause \/ Woken
  PROVE  IInv'
<1> USE DEF IInv
<1>1. TypeOK'
  <2>1. CASE SigblockAll \/ SetSignalChild \/ SetupSignalForwarding \/ Pause
    BY <2>1 DEF TypeOK, SigblockAll, SetSignalChild, ImpChild,
       SetupSignalForwarding, ForwardingMask, Pause,
                hnd, job, hist
  <2>2. CASE ReadProcs
    BY <2>2 DEF TypeOK, ReadProcs, CgroupProcs, hnd, job, hist, Live, Alive, Procs, Calls
  <2>3. CASE Probe \/ PassDone
    BY <2>3 DEF TypeOK, Probe, PassDone, Tally, hnd, job, hist
  <2>4. CASE Finish
    BY <2>4 DEF TypeOK, Finish, Ended, hnd, job, hist
  <2>5. CASE Raise
    BY <2>5 DEF TypeOK, Raise, Ended, MaskInv, hnd, job, hist
  <2>6. CASE Woken
    BY <2>6 DEF TypeOK, Woken, Ended, FlowInv, DiedOf, hnd, job, hist
  <2> QED
    BY <2>1, <2>2, <2>3, <2>4, <2>5, <2>6
<1>2. FlowInv'
  BY DEF TypeOK, FlowInv, AfterReap, Guarding, SigblockAll, SetSignalChild, ImpChild,
     SetupSignalForwarding, ForwardingMask, ReadProcs, CgroupProcs, Probe,
     PassDone, Finish, Raise, Pause, Woken,
     Ended, Ready, hnd, job, hist
<1>3. MaskInv'
  BY DEF TypeOK, MaskInv, AfterReap, Guarding, SigblockAll, SetSignalChild, ImpChild,
     SetupSignalForwarding, ForwardingMask, ReadProcs, CgroupProcs, Probe,
     PassDone, Finish, Raise, Pause, Woken,
     Ended, hnd, job, hist
<1>4. KillInv'
  BY DEF KillInv, Began, Live, Alive, KidLive, SigblockAll, SetSignalChild, ImpChild,
     SetupSignalForwarding, ForwardingMask, ReadProcs, CgroupProcs, Probe,
     PassDone, Finish, Raise, Pause, Woken,
     Ended, hnd, job, hist
<1>5. DrainInv'
  <2>1. CASE ReadProcs
    BY <2>1 DEF DrainInv, ReadProcs, CgroupProcs, Leaving, Live, Alive, job, hist
  <2>2. CASE Probe
    BY <2>2 DEF DrainInv, Probe, Tally, Leaving, Live, Alive, job, hist
  <2>3. CASE PassDone
    BY <2>3 DEF DrainInv, PassDone, Leaving, Alive, job, hist
  <2>4. CASE SigblockAll \/ SetSignalChild \/ SetupSignalForwarding
    BY <2>4 DEF DrainInv, SigblockAll, SetSignalChild, ImpChild,
       SetupSignalForwarding, ForwardingMask, Leaving,
                Alive, job, hist
  <2>5. CASE Finish \/ Raise \/ Pause \/ Woken
    BY <2>5 DEF DrainInv, Finish, Raise, Pause, Woken, Ended, Leaving, Alive, job, hist
  <2> QED
    BY <2>1, <2>2, <2>3, <2>4, <2>5
<1>6. MirrorsJob'
  <2>1. CASE Finish
    BY <2>1 DEF MirrorsJob, FlowInv, AfterReap, Finish, Ended, Exited, job, hist
  <2>2. CASE Raise
    BY <2>2 DEF MirrorsJob, FlowInv, AfterReap, Raise, Ended, DiedOf, job, hist
  <2>3. CASE Woken
    BY <2>3 DEF MirrorsJob, FlowInv, AfterReap, Woken, Ended, DiedOf, job, hist
  <2>4. CASE ~(Finish \/ Raise \/ Woken)
    BY <2>4 DEF MirrorsJob, SigblockAll, SetSignalChild, ImpChild,
       SetupSignalForwarding, ForwardingMask,
                ReadProcs, CgroupProcs, Probe, PassDone, Pause, job
  <2> QED
    BY <2>1, <2>2, <2>3, <2>4
<1>7. ExecLosesNoSignal'
  BY DEF ExecLosesNoSignal, SigblockAll, SetSignalChild, ImpChild,
     SetupSignalForwarding, ForwardingMask,
     ReadProcs, CgroupProcs, Probe, PassDone, Finish, Raise, Pause, Woken, hist
<1> QED
  BY <1>1, <1>2, <1>3, <1>4, <1>5, <1>6, <1>7

\* The IMP forks the job.
LEMMA ForkStep == IInv /\ Fork => IInv'
<1> SUFFICES ASSUME IInv, Fork PROVE IInv'
  OBVIOUS
<1> USE DEF IInv, Fork, Ended, hnd, hist
<1>1. TypeOK'
  BY DEF TypeOK, Status
<1>2. FlowInv' /\ MaskInv'
  BY DEF TypeOK, FlowInv, MaskInv, AfterReap, Guarding
<1>3. KillInv'
  BY MonitorAssumption DEF TypeOK, FlowInv, KillInv, Began, Live, Alive, KidLive,
     Guarding, Procs
<1>4. DrainInv' /\ MirrorsJob' /\ ExecLosesNoSignal'
  BY DEF FlowInv, DrainInv, MirrorsJob, ExecLosesNoSignal, Alive, Leaving
<1> QED
  BY <1>1, <1>2, <1>3, <1>4

\* The IMP reaps the job.
LEMMA WaitPidStep == IInv /\ WaitPid => IInv'
<1> SUFFICES ASSUME IInv, WaitPid PROVE IInv'
  OBVIOUS
<1> USE DEF IInv, WaitPid, Ended, hnd
<1>1. TypeOK'
  BY DEF TypeOK, Alive, Status, Exited, Calls
<1>2. FlowInv' /\ MaskInv'
  BY DEF TypeOK, FlowInv, MaskInv, AfterReap, Guarding
<1>3. KillInv'
  BY DEF KillInv, Began, Live, Alive, KidLive, Ready
<1>4. DrainInv' /\ MirrorsJob' /\ ExecLosesNoSignal'
  BY DEF DrainInv, MirrorsJob, ExecLosesNoSignal, Alive, Leaving
<1> QED
  BY <1>1, <1>2, <1>3, <1>4

-----------------------------------------------------------------------------
(* A signal that is due has a handler or ends the IMP as the job ended.    *)

LEMMA DueSignal ==
  ASSUME IInv, NEW s \in Sigs, Due(s), kst # "none"
  PROVE  mpc \in Guarding /\ s \in Forwarded /\ (Handled(s) \/ (Raising(s) /\ kst = "reaped"))
<1>1. s \in Blockable /\ s \notin mask /\ mpc # "ended"
  BY DEF IInv, TypeOK, Due
<1>2. mpc \in Guarding
  BY <1>1 DEF IInv, TypeOK, FlowInv, MaskInv, Guarding, AfterReap
<1>3. s \in Forwarded
  BY <1>1, <1>2 DEF IInv, MaskInv
<1> QED
  BY <1>2, <1>3 DEF IInv, FlowInv, Handled, Raising, Guarding, AfterReap

LEMMA ForwardSignalStep ==
  ASSUME IInv, NEW s \in Sigs, ForwardSignal(s)
  PROVE  IInv'
<1> USE DEF IInv
<1>1. mpc \in Guarding /\ kst # "none" /\ s \in Blockable
  BY DEF TypeOK, FlowInv, ForwardSignal, Due, Handled, Guarding, AfterReap
<1>2. /\ kpend' \in SUBSET Blockable
      /\ dst' \in [Desc -> {"unborn", "alive", "dead"}]
      /\ \A d \in Desc : dst'[d] = dst[d] \/ (dst[d] = "alive" /\ dst'[d] = "dead")
      /\ \/ kst' = kst /\ status' = status
         \/ KidLive /\ kst' = "zombie" /\ status' = DiedOf(s)
  BY StrikeEffect DEF ForwardSignal
<1>3. mpc' \in Guarding /\ mpc # "ended" /\ (mpc' = mpc \/ (mpc = "pause" /\ mpc' = "woken"))
  BY <1>1 DEF ForwardSignal, AfterHandler, Guarding, AfterReap
<1>4. TypeOK'
  BY <1>1, <1>2, <1>3 DEF TypeOK, ForwardSignal, hnd, Guarding, AfterReap, Status
<1>5. FlowInv'
  BY <1>1, <1>2, <1>3 DEF TypeOK, FlowInv, ForwardSignal, hnd, Guarding, AfterReap,
     Status,
     KidLive
<1>6. MaskInv'
  BY <1>1, <1>3 DEF MaskInv, ForwardSignal, Guarding, AfterReap
<1>7. KillInv'
  BY <1>1, <1>2, MonitorAssumption DEF TypeOK, KillInv, ForwardSignal, hnd, Began, Live,
     Alive, KidLive, Procs
<1>8. DrainInv'
  BY <1>2, <1>3 DEF TypeOK, DrainInv, FlowInv, ForwardSignal, Alive, Leaving, KidLive
<1>9. MirrorsJob'
  BY <1>3 DEF MirrorsJob, Guarding, AfterReap
<1>10. ExecLosesNoSignal'
  <2> SUFFICES ASSUME mode = "exec", KidLive PROVE Kid \in Reached
    BY DEF ExecLosesNoSignal, ForwardSignal
  <2>1. target = "kid"
    BY <1>1 DEF MaskInv
  <2> QED
    BY <2>1 DEF Reached, Live
<1> QED
  BY <1>4, <1>5, <1>6, <1>7, <1>8, <1>9, <1>10

\* The SIGUSR1 handler reads what it is going to kill.
LEMMA BeginKillStep == IInv /\ BeginKill => IInv'
<1> SUFFICES ASSUME IInv, BeginKill PROVE IInv'
  OBVIOUS
<1> USE DEF IInv
<1>1. mpc \in Guarding /\ kst # "none" /\ mpc # "ended"
  BY DEF TypeOK, FlowInv, BeginKill, CgroupProcs, Due, Handled, Guarding, AfterReap
<1>2. TypeOK'
  BY DEF TypeOK, BeginKill, CgroupProcs, imp, job, Live, Alive, Procs
<1>3. FlowInv' /\ MaskInv'
  BY <1>1 DEF FlowInv, MaskInv, BeginKill, CgroupProcs, imp, job
<1>4. KillInv'
  BY <1>1 DEF KillInv, BeginKill, CgroupProcs, imp, job, Began, Live, Alive, KidLive
<1>5. DrainInv' /\ MirrorsJob' /\ ExecLosesNoSignal'
  BY DEF DrainInv, MirrorsJob, ExecLosesNoSignal, BeginKill, CgroupProcs, imp, job,
     Alive, Leaving
<1> QED
  BY <1>2, <1>3, <1>4, <1>5

\* It kills one of them, or finds it gone.
LEMMA KillOneStep == IInv /\ KillOne => IInv'
<1> SUFFICES ASSUME IInv, KillOne PROVE IInv'
  OBVIOUS
<1> USE DEF IInv
<1>1. PICK p \in kill : /\ kill' = kill \ {p}
                        /\ Strike({p}, "KILL")
                        /\ \E zombie \in BOOLEAN : killed' = Tally(killed, p \in Live \/ zombie)
  BY DEF KillOne
<1>2. /\ kpend' \in SUBSET Blockable
      /\ dst' \in [Desc -> {"unborn", "alive", "dead"}]
      /\ \A d \in Desc : dst'[d] = dst[d] \/ (dst[d] = "alive" /\ dst'[d] = "dead")
      /\ \/ kst' = kst /\ status' = status
         \/ KidLive /\ kst' = "zombie" /\ status' = DiedOf("KILL")
      /\ {p} \cap Live' = {}
  BY <1>1, StrikeEffect, MonitorAssumption
<1>3. UNCHANGED <<imp, pend, hpc, sends, hist>> /\ hpc = "cgroup" /\ mpc \in Guarding
  BY DEF KillOne, Handling, FlowInv
<1>4. TypeOK'
  BY <1>1, <1>2, <1>3, MonitorAssumption DEF TypeOK, imp, hist, Tally, Status
<1>5. FlowInv' /\ MaskInv'
  BY <1>2, <1>3, MonitorAssumption DEF TypeOK, FlowInv, MaskInv, imp, hist,
     Guarding, AfterReap, Status, KidLive
<1>6. KillInv'
  BY <1>1, <1>2, <1>3, MonitorAssumption DEF TypeOK, KillInv, imp, hist, Began,
     Live, Alive, KidLive, Procs
<1>7. DrainInv' /\ MirrorsJob' /\ ExecLosesNoSignal'
  BY <1>2, <1>3 DEF TypeOK, DrainInv, MirrorsJob, ExecLosesNoSignal, imp, hist, Alive,
     Leaving, KidLive, Guarding, AfterReap
<1> QED
  BY <1>4, <1>5, <1>6, <1>7

\* It is done with the cgroup.
LEMMA KillDoneStep == IInv /\ KillDone => IInv'
<1> SUFFICES ASSUME IInv, KillDone PROVE IInv'
  OBVIOUS
<1> USE DEF IInv
<1>1. mpc \in Guarding /\ (mpc' = mpc \/ (mpc = "pause" /\ mpc' = "woken"))
  BY DEF FlowInv, KillDone, Handling, AfterHandler
<1>2. TypeOK'
  BY <1>1 DEF TypeOK, KillDone, Handling, job, hist
<1>3. FlowInv' /\ MaskInv'
  BY <1>1 DEF FlowInv, MaskInv, KillDone, Handling, job, hist, Guarding, AfterReap
<1>4. KillInv'
  BY DEF KillInv, KillDone, Handling, job, hist, Began, Live, Alive, KidLive
<1>5. DrainInv' /\ MirrorsJob' /\ ExecLosesNoSignal'
  BY <1>1 DEF DrainInv, MirrorsJob, ExecLosesNoSignal, KillDone, Handling, job,
     hist, Alive,
     Leaving, Guarding, AfterReap
<1> QED
  BY <1>2, <1>3, <1>4, <1>5

\* It kills the IMP's children instead.
LEMMA KillChildrenStep == IInv /\ KillChildren => IInv'
<1> SUFFICES ASSUME IInv, KillChildren PROVE IInv'
  OBVIOUS
<1> USE DEF IInv
<1>1. /\ kpend' \in SUBSET Blockable
      /\ dst' \in [Desc -> {"unborn", "alive", "dead"}]
      /\ \A d \in Desc : dst'[d] = dst[d] \/ (dst[d] = "alive" /\ dst'[d] = "dead")
      /\ \/ kst' = kst /\ status' = status
         \/ KidLive /\ kst' = "zombie" /\ status' = DiedOf("KILL")
      /\ {Kid} \cap Live' = {}
  BY StrikeEffect, MonitorAssumption DEF KillChildren
<1>2. mpc \in Guarding /\ (mpc' = mpc \/ (mpc = "pause" /\ mpc' = "woken"))
  BY DEF FlowInv, KillChildren, Handling, AfterHandler
<1>3. TypeOK'
  BY <1>1, <1>2, MonitorAssumption DEF TypeOK, KillChildren, hist, Status
<1>4. FlowInv' /\ MaskInv'
  BY <1>1, <1>2, MonitorAssumption DEF TypeOK, FlowInv, MaskInv, KillChildren,
     hist, Guarding, AfterReap, Status, KidLive
<1>5. KillInv'
  BY <1>1, MonitorAssumption DEF TypeOK, KillInv, KillChildren, Handling,
     hist, Began, Live, Alive, KidLive, Procs
<1>6. DrainInv' /\ MirrorsJob' /\ ExecLosesNoSignal'
  BY <1>1, <1>2 DEF TypeOK, DrainInv, MirrorsJob, ExecLosesNoSignal, KillChildren, hist,
     Alive, Leaving, KidLive, Guarding, AfterReap
<1> QED
  BY <1>3, <1>4, <1>5, <1>6

\* A signal without a handler: before the fork it may end the IMP, after it only
\* if it is the signal that ended the job.
LEMMA DefaultActionStep ==
  ASSUME IInv, NEW s \in Sigs, DefaultAction(s)
  PROVE  IInv'
<1> USE DEF IInv
<1>1. mpc # "ended"
  BY DEF DefaultAction, Due
<1>2. kst # "none" => status = DiedOf(s) /\ kst = "reaped" /\ mpc \in {"raise", "raised", "pause", "woken"}
  BY DueSignal DEF DefaultAction, Raising
<1>3. TypeOK'
  BY DEF TypeOK, DefaultAction, Ended, hnd, job, hist, Status
<1>4. FlowInv'
  BY <1>1 DEF FlowInv, DefaultAction, Ended, hnd, job, hist, Guarding, AfterReap
<1>5. MaskInv' /\ ExecLosesNoSignal'
  BY <1>1 DEF MaskInv, ExecLosesNoSignal, DefaultAction, Ended, job, hist,
     Guarding, AfterReap
<1>6. KillInv'
  BY DEF KillInv, DefaultAction, hnd, job, hist, Began, Live, Alive, KidLive
<1>7. DrainInv'
  BY <1>1, <1>2 DEF DrainInv, DefaultAction, Ended, job, hist, Alive, Leaving
<1>8. MirrorsJob'
  BY <1>1, <1>2 DEF FlowInv, MirrorsJob, DefaultAction, Due, Ended, job, hist, DiedOf
<1> QED
  BY <1>3, <1>4, <1>5, <1>6, <1>7, <1>8

-----------------------------------------------------------------------------
(* The job's own steps: processes end, and those that begin are new.       *)

LEMMA JobStep == IInv /\ Job => IInv'
<1> SUFFICES ASSUME IInv, Job PROVE IInv'
  OBVIOUS
<1> USE DEF IInv
<1>1. CASE KidUnblocks \/ KidStarts \/ KidEnds
  <2>1. /\ UNCHANGED <<imp, pend, hnd, dst, sends, hist>>
        /\ kpend' \in SUBSET Blockable
        /\ KidLive
        /\ \/ kst' \in {"open", "job"} /\ status' = status
           \/ kst' = "zombie" /\ status' \in Status
    BY <1>1, MonitorAssumption
    DEF TypeOK, KidUnblocks, KidStarts, KidEnds, KidLive, Status, Blockable
  <2>2. TypeOK'
    BY <2>1 DEF TypeOK, imp, hnd, hist
  <2>3. FlowInv' /\ MaskInv'
    BY <2>1 DEF FlowInv, MaskInv, imp, hnd, hist, KidLive, Guarding, AfterReap
  <2>4. KillInv'
    BY <2>1 DEF KillInv, imp, hnd, hist, Began, Live, Alive, KidLive
  <2>5. DrainInv' /\ MirrorsJob' /\ ExecLosesNoSignal'
    BY <2>1 DEF DrainInv, MirrorsJob, ExecLosesNoSignal, imp, hist, Alive, Leaving,
       KidLive
  <2> QED
    BY <2>2, <2>3, <2>4, <2>5
<1>2. CASE JobForks \/ DescEnds
  <2>1. /\ UNCHANGED <<imp, pend, hnd, kst, kpend, status, sends, hist>>
        /\ dst' \in [Desc -> {"unborn", "alive", "dead"}]
        /\ \A d \in Desc : \/ dst'[d] = dst[d]
                           \/ dst[d] = "alive" /\ dst'[d] = "dead"
                           \/ dst[d] = "unborn" /\ dst'[d] = "alive"
    BY <1>2 DEF TypeOK, JobForks, DescEnds, Alive
  <2>2. TypeOK'
    BY <2>1 DEF TypeOK, imp, hnd, hist
  <2>3. FlowInv' /\ MaskInv' /\ MirrorsJob' /\ ExecLosesNoSignal'
    BY <2>1 DEF FlowInv, MaskInv, MirrorsJob, ExecLosesNoSignal, imp, hnd, hist
  <2>4. KillInv'
    BY <2>1, MonitorAssumption
    DEF TypeOK, KillInv, imp, hnd, hist, Began, Live, Alive, KidLive, Procs
  <2>5. DrainInv'
    BY <2>1 DEF TypeOK, DrainInv, imp, hist, Alive, Leaving
  <2> QED
    BY <2>2, <2>3, <2>4, <2>5
<1> QED
  BY <1>1, <1>2 DEF Job

LEMMA NextIInv == IInv /\ [Next]_vars => IInv'
<1> SUFFICES ASSUME IInv, [Next]_vars PROVE IInv'
  OBVIOUS
<1>1. CASE Main
  BY <1>1, QuietMainStep, ForkStep, WaitPidStep DEF Main
<1>2. CASE Handler
  BY <1>2, BeginKillStep, KillOneStep, KillDoneStep, KillChildrenStep,
     ForwardSignalStep, DefaultActionStep DEF Handler
<1>3. CASE Job
  BY <1>3, JobStep
<1>4. CASE SendSignal
  <2> USE <1>4 DEF IInv, SendSignal, imp, hnd, job, hist
  <2>1. TypeOK'
    BY MonitorAssumption DEF TypeOK
  <2>2. FlowInv' /\ MaskInv' /\ MirrorsJob' /\ ExecLosesNoSignal'
    BY DEF FlowInv, MaskInv, MirrorsJob, ExecLosesNoSignal
  <2>3. KillInv' /\ DrainInv'
    BY DEF KillInv, DrainInv, Began, Live, Alive, KidLive, Leaving
  <2> QED
    BY <2>1, <2>2, <2>3
<1>5. CASE Finished \/ UNCHANGED vars
  <2> USE <1>5 DEF IInv, Finished, vars, imp, hnd, job, hist
  <2>1. TypeOK'
    BY DEF TypeOK
  <2>2. FlowInv' /\ MaskInv' /\ MirrorsJob' /\ ExecLosesNoSignal'
    BY DEF FlowInv, MaskInv, MirrorsJob, ExecLosesNoSignal
  <2>3. KillInv' /\ DrainInv'
    BY DEF KillInv, DrainInv, Began, Live, Alive, KidLive, Leaving
  <2> QED
    BY <2>1, <2>2, <2>3
<1> QED
  BY <1>1, <1>2, <1>3, <1>4, <1>5 DEF Next

LEMMA Invariance == Spec => []IInv
  BY InitIInv, NextIInv, PTL DEF Spec

-----------------------------------------------------------------------------
(* What is seen of a step from outside, for the composition in ImpProofs.  *)

\* imp_raise has begun.
Tail == {"raise", "raised", "pause", "woken"}

\* The job moves on by at most one step of its first process.
JobMoves ==
  /\ mpc' = "ended" <=> mpc = "ended"
  /\ outcome' = outcome
  /\ "waitpid" \in failed' <=> "waitpid" \in failed
  /\ \/ kst' = kst /\ status' = status
     \/ kst = "none" /\ mpc = "fork" /\ kst' = "born" /\ status' = status
     \/ KidLive /\ kst' \in {"open", "job"} /\ status' = status
     \/ KidLive /\ kst' = "zombie" /\ status' \in Status
     \/ kst = "zombie" /\ kst' = "reaped" /\ status' = status

\* The IMP ends: without a job, or as the job it has reaped did.
ImpEnds ==
  /\ mpc # "ended" /\ mpc' = "ended"
  /\ UNCHANGED <<kst, status>>
  /\ "waitpid" \in failed' <=> "waitpid" \in failed
  /\ \/ kst = "none" /\ outcome' \in {Exited("1")} \cup {DiedOf(s) : s \in Sigs}
     \/ /\ kst = "reaped" /\ mpc \in Tail \cup {"finish"}
        /\ \/ outcome' = status
           \/ status[1] = "sig" /\ outcome' = <<"128+", status[2]>>

\* The IMP ends because it cannot collect the job.
JobLost ==
  /\ mpc = "wait" /\ mpc' = "ended"
  /\ kst = "zombie" /\ kst' = "reaped" /\ status' = status
  /\ "waitpid" \in failed' /\ outcome' = Exited("1")

\* How the IMP gets from reaping the job to its end.
TailMoves ==
  /\ mpc' \in Tail => mpc \in Tail \cup {"finish"}
  /\ mpc \in Tail => mpc' \in Tail \cup {"ended"}
  /\ mpc = "finish" => mpc' \in Tail \cup {"finish", "ended"}
  /\ mpc = "ended" => mpc' = "ended"

LEMMA StepsSeen ==
  ASSUME IInv, Next
  PROVE  (JobMoves \/ ImpEnds \/ JobLost) /\ TailMoves
<1> USE DEF JobMoves, ImpEnds, JobLost, TailMoves, Tail, Ended, hist
<1>1. CASE Fork
  BY <1>1 DEF Fork, IInv, FlowInv
<1>2. CASE SigblockAll \/ SetSignalChild \/ SetupSignalForwarding \/ WaitPid
  BY <1>2 DEF SigblockAll, SetSignalChild, SetupSignalForwarding, WaitPid, job
<1>3. CASE ReadProcs \/ Probe \/ PassDone
  BY <1>3 DEF ReadProcs, Probe, PassDone, job
<1>4. CASE Finish \/ Pause
  BY <1>4 DEF Finish, Pause, job, IInv, FlowInv, AfterReap
<1>5. CASE Raise
  BY <1>5 DEF Raise, job, IInv, FlowInv, AfterReap
<1>6. CASE Woken
  <2>1. status[1] = "sig" /\ kst = "reaped"
    BY <1>6 DEF Woken, IInv, FlowInv, AfterReap, DiedOf
  <2> QED
    BY <1>6, <2>1 DEF Woken, job
<1>7. ASSUME NEW s \in Sigs, ForwardSignal(s)
      PROVE  (JobMoves \/ ImpEnds \/ JobLost) /\ TailMoves
  <2>1. \/ kst' = kst /\ status' = status
        \/ KidLive /\ kst' = "zombie" /\ status' \in Status
    BY <1>7, StrikeEffect DEF ForwardSignal, IInv, Status
  <2> QED
    BY <1>7, <2>1 DEF ForwardSignal, AfterHandler, Due
<1>8. CASE BeginKill \/ KillDone
  BY <1>8 DEF BeginKill, KillDone, AfterHandler, Handling, imp, job
<1>9. CASE KillOne
  <2>1. PICK p \in kill : Strike({p}, "KILL")
    BY <1>9 DEF KillOne
  <2>2. \/ kst' = kst /\ status' = status
        \/ KidLive /\ kst' = "zombie" /\ status' \in Status
    BY <2>1, StrikeEffect, MonitorAssumption DEF IInv, Status
  <2> QED
    BY <1>9, <2>2 DEF KillOne, imp
<1>10. CASE KillChildren
  <2>1. \/ kst' = kst /\ status' = status
        \/ KidLive /\ kst' = "zombie" /\ status' \in Status
    BY <1>10, StrikeEffect, MonitorAssumption DEF KillChildren, IInv, Status
  <2> QED
    BY <1>10, <2>1 DEF KillChildren, AfterHandler, Handling
<1>11. ASSUME NEW s \in Sigs, DefaultAction(s)
       PROVE  (JobMoves \/ ImpEnds \/ JobLost) /\ TailMoves
  <2>1. CASE s \in Harmless /\ UNCHANGED <<mpc, outcome>>
    BY <1>11, <2>1 DEF DefaultAction, job
  <2>2. CASE kst = "none" /\ Ended(DiedOf(s))
    BY <1>11, <2>2 DEF DefaultAction, Due, job
  <2>3. CASE kst # "none" /\ Ended(DiedOf(s))
    <3>1. Raising(s) /\ kst = "reaped"
      BY <1>11, <2>3, DueSignal DEF DefaultAction
    <3> QED
      BY <1>11, <2>3, <3>1 DEF DefaultAction, Due, Raising, job
  <2> QED
    BY <1>11, <2>1, <2>2, <2>3 DEF DefaultAction
<1>12. CASE KidUnblocks
  <2>1. kpend \subseteq Sigs
    BY DEF IInv, TypeOK, Blockable
  <2> QED
    BY <1>12, <2>1 DEF KidUnblocks, KidLive, imp, Status
<1>13. CASE KidStarts \/ KidEnds
  BY <1>13, MonitorAssumption DEF KidStarts, KidEnds, KidLive, imp, Status
<1>14. CASE JobForks \/ DescEnds \/ SendSignal \/ Finished
  BY <1>14 DEF JobForks, DescEnds, SendSignal, Finished, imp, job, vars
<1> QED
  BY <1>1, <1>2, <1>3, <1>4, <1>5, <1>6, <1>7, <1>8, <1>9, <1>10, <1>11, <1>12, <1>13,
     <1>14 DEF Next, Main, Handler, Job

\* Until its first process ends the job has no status.
StatusInv == kst \notin {"zombie", "reaped"} => status = NoStatus

LEMMA StatusStep == IInv /\ StatusInv /\ [Next]_vars => StatusInv'
<1> SUFFICES ASSUME IInv, StatusInv, [Next]_vars PROVE StatusInv'
  OBVIOUS
<1>1. CASE Next
  BY <1>1, StepsSeen DEF StatusInv, JobMoves, ImpEnds, JobLost, KidLive
<1>2. CASE UNCHANGED vars
  BY <1>2 DEF StatusInv, vars, job
<1> QED
  BY <1>1, <1>2

-----------------------------------------------------------------------------
(* The properties that the model checker checks on a small instance.       *)

\* Every variable keeps its type.
THEOREM TypeCorrect == Spec => []TypeOK
<1>1. IInv => TypeOK
  BY DEF IInv
<1> QED
  BY <1>1, Invariance, PTL

\* After it has forked a job the IMP ends only once the job is reaped, and then
\* with the job's status or 128 + the signal that killed it (exec.c:320-363).
THEOREM ImpMirrorsJob == Spec => []MirrorsJob
<1>1. IInv => MirrorsJob
  BY DEF IInv
<1> QED
  BY <1>1, Invariance, PTL

\* In exec every forwarded signal reaches a live child (exec.c:296, 315-318).
THEOREM ExecForwardsAll == Spec => []ExecLosesNoSignal
<1>1. IInv => ExecLosesNoSignal
  BY DEF IInv
<1> QED
  BY <1>1, Invariance, PTL

\* SIGUSR1 kills all it finds, whatever dies or forks meanwhile (cgroup.c:220-233).
THEOREM KillIsThorough == Spec => []KillReachesAllFound
<1>1. IInv => KillReachesAllFound
  BY DEF IInv, KillInv, KillReachesAllFound
<1> QED
  BY <1>1, Invariance, PTL

\* The IMP outlives what ran when it reaped the job (cgroup.c:242-263).
THEOREM ImpOutlivesJob == Spec => []OutlivesJob
<1>1. IInv => OutlivesJob
  BY DEF IInv, DrainInv, OutlivesJob
<1> QED
  BY <1>1, Invariance, PTL
=============================================================================
