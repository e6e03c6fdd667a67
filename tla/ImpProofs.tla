----------------------------- MODULE ImpProofs -----------------------------
(* Proofs about the whole IMP, from the invariants of its two parts: the   *)
(* safety properties, and that it implements ImpContract.                  *)
EXTENDS Imp, TLAPS

\* The monitor has not begun before the privilege separation hands over to it,
\* which it does for exec only under a device policy.
HandOver ==
  /\ ppc # "monitor" => mpc = "block" /\ kst = "none"
  /\ cmd = "exec" /\ ppc = "monitor" => devices

\* The session is open from before the device policy until the cgroup is empty.
SessionInv ==
  /\ pam \in {"closed", "open"} /\ devices \in BOOLEAN
  /\ devices /\ pamSupport /\ ppc # "monitor" => pam = "open"
  /\ cmd = "exec" /\ pamSupport /\ ppc = "monitor" =>
       /\ mpc \notin JM!Tail \cup {"ended"} => pam = "open"
       /\ mpc \in JM!Tail => pam = "closed"
       /\ mpc = "ended" /\ kst # "none" =>
            pam = IF "waitpid" \in failed THEN "open" ELSE "closed"

IInv == /\ PS!IInv /\ PS!ServedInv
        /\ JM!IInv /\ JM!StatusInv
        /\ HandOver /\ SessionInv

-----------------------------------------------------------------------------
(* Each step of Imp is a step of at most one of its two parts.             *)

LEMMA PrivsepPart ==
  ASSUME IInv, [PS!Next]_(PS!vars)
  PROVE  PS!IInv' /\ PS!ServedInv'
  BY ImpAssumption, PS!NextIInv, PS!NextServed DEF IInv

LEMMA MonitorPart ==
  ASSUME IInv, [JM!Next]_(JM!vars)
  PROVE  JM!IInv' /\ JM!StatusInv'
  BY ImpAssumption, JM!NextIInv, JM!StatusStep DEF IInv

LEMMA PrivsepRests == UNCHANGED privsep => UNCHANGED PS!vars
  BY DEF privsep, PS!vars

LEMMA MonitorRests == UNCHANGED monitor => UNCHANGED JM!vars
  BY DEF monitor, JM!vars, JM!imp, JM!hnd, JM!job, JM!hist

\* Setting up a job is, to the privilege separation, a step of its work that
\* may fail.
LEMMA SetupIsWork ==
  ASSUME IInv, PamSetup \/ CgroupDeviceApply
  PROVE  [PS!Next]_(PS!vars) /\ UNCHANGED JM!vars
<1>1. UNCHANGED JM!vars
  BY MonitorRests DEF PamSetup, CgroupDeviceApply
<1>2. CASE UNCHANGED <<ppc, pstatus, fds>>
  BY <1>1, <1>2 DEF PamSetup, CgroupDeviceApply, PS!vars
<1>3. CASE Die
  BY <1>1, <1>3 DEF PamSetup, CgroupDeviceApply, Die, SettingUp, PS!Work, PS!Next, PS!Parent
<1> QED
  BY <1>1, <1>2, <1>3 DEF PamSetup, CgroupDeviceApply

-----------------------------------------------------------------------------
(* The invariant.                                                          *)

LEMMA InitIInv == Init => IInv
<1> SUFFICES ASSUME Init PROVE IInv
  OBVIOUS
<1>1. PS!IInv /\ PS!ServedInv
  BY ImpAssumption, PS!InitIInv, PS!InitServed DEF Init
<1>2. JM!IInv /\ JM!StatusInv
  BY ImpAssumption, JM!InitIInv DEF Init, JM!Init, JM!StatusInv
<1>3. HandOver /\ SessionInv
  BY DEF Init, PS!Init, JM!Init, HandOver, SessionInv
<1> QED
  BY <1>1, <1>2, <1>3 DEF IInv

LEMMA SetupStep == IInv /\ (PamSetup \/ CgroupDeviceApply) => IInv'
<1> SUFFICES ASSUME IInv, PamSetup \/ CgroupDeviceApply PROVE IInv'
  OBVIOUS
<1>1. PS!IInv' /\ PS!ServedInv' /\ JM!IInv' /\ JM!StatusInv'
  BY SetupIsWork, PrivsepPart, MonitorPart
<1>2. /\ ppc = "work" /\ ppc' \in {"work", "exited"}
      /\ UNCHANGED <<cmd, mpc, kst, pamSupport>>
  BY DEF PamSetup, CgroupDeviceApply, SettingUp, Die, PS!ParentEnds, monitor
<1>3. HandOver'
  BY <1>2 DEF IInv, HandOver
<1>4. /\ pam' \in {"closed", "open"} /\ devices' \in BOOLEAN
      /\ devices' /\ pamSupport => pam' = "open"
  <2>1. CASE PamSetup
    BY <1>2, <2>1 DEF IInv, SessionInv, PamSetup
  <2>2. CASE CgroupDeviceApply
    BY <1>2, <2>2 DEF IInv, SessionInv, CgroupDeviceApply
  <2> QED
    BY <2>1, <2>2
<1>5. SessionInv'
  BY <1>2, <1>4 DEF SessionInv
<1> QED
  BY <1>1, <1>3, <1>5 DEF IInv

LEMMA DecideStep == IInv /\ Decide => IInv'
<1> SUFFICES ASSUME IInv, Decide PROVE IInv'
  OBVIOUS
<1>1. PS!Next /\ UNCHANGED JM!vars
  BY MonitorRests DEF Decide
<1>2. PS!IInv' /\ PS!ServedInv' /\ JM!IInv' /\ JM!StatusInv'
  BY <1>1, PrivsepPart, MonitorPart
<1>3. /\ cmd' = cmd
      /\ ppc = "monitor" => ppc' = "monitor"
  BY <1>1, ImpAssumption, PS!StepsSeen DEF IInv
<1>4. HandOver' /\ SessionInv'
  BY <1>3 DEF IInv, HandOver, SessionInv, Decide, monitor, session, JM!Tail
<1> QED
  BY <1>2, <1>4 DEF IInv

LEMMA WatchStep == IInv /\ Watch => IInv'
<1> SUFFICES ASSUME IInv, Watch PROVE IInv'
  OBVIOUS
<1>1. JM!Next /\ UNCHANGED PS!vars /\ UNCHANGED <<cmd, ppc, pamSupport, devices>>
  BY PrivsepRests DEF Watch, privsep
<1>2. PS!IInv' /\ PS!ServedInv' /\ JM!IInv' /\ JM!StatusInv'
  BY <1>1, PrivsepPart, MonitorPart
<1>3. (JM!JobMoves \/ JM!ImpEnds \/ JM!JobLost) /\ JM!TailMoves
  BY <1>1, ImpAssumption, JM!StepsSeen DEF IInv
<1>4. mpc = "ended" => /\ kst' = "none" <=> kst = "none"
                       /\ "waitpid" \in failed' <=> "waitpid" \in failed
  BY <1>3 DEF JM!JobMoves, JM!ImpEnds, JM!JobLost, JM!KidLive
<1>5. mpc # "ended" /\ mpc' = "ended" /\ kst' # "none" =>
         IF "waitpid" \in failed' THEN mpc = "wait" ELSE mpc \in JM!Tail \cup {"finish"}
  BY <1>3 DEF IInv, JM!IInv, JM!FlowInv, JM!JobMoves, JM!ImpEnds, JM!JobLost
<1>6. HandOver' /\ SessionInv'
  BY <1>1, <1>3, <1>4, <1>5
  DEF IInv, HandOver, SessionInv, Watch, PamFinish, JM!TailMoves, JM!Tail
<1> QED
  BY <1>2, <1>6 DEF IInv

LEMMA NextIInv == IInv /\ [Next]_vars => IInv'
<1> SUFFICES ASSUME IInv, [Next]_vars PROVE IInv'
  OBVIOUS
<1>1. CASE UNCHANGED vars
  <2>1. UNCHANGED PS!vars /\ UNCHANGED JM!vars
    BY <1>1, PrivsepRests, MonitorRests DEF vars
  <2>2. PS!IInv' /\ PS!ServedInv' /\ JM!IInv' /\ JM!StatusInv'
    BY <2>1, PrivsepPart, MonitorPart
  <2>3. HandOver' /\ SessionInv'
    BY <1>1 DEF IInv, HandOver, SessionInv, vars, privsep, monitor, session, JM!Tail
  <2> QED
    BY <2>2, <2>3 DEF IInv
<1> QED
  BY <1>1, SetupStep, DecideStep, WatchStep DEF Next

LEMMA Invariance == Spec => []IInv
  BY InitIInv, NextIInv, PTL DEF Spec

-----------------------------------------------------------------------------
(* The properties that the model checker checks on a small instance.       *)

\* Every variable of the IMP keeps its type.
THEOREM TypeCorrect == Spec => []TypeOK
<1>1. IInv => TypeOK
  BY DEF IInv, TypeOK, SessionInv, PS!IInv, JM!IInv
<1> QED
  BY <1>1, Invariance, PTL

\* A job's processes exist only for a request that root has checked itself, whose
\* child exited 0 and, for exec, under the device policy; while its first process
\* runs the PAM session is open (exec.c:254-293).
THEOREM JobsAreContained == Spec => []JobIsContained
<1>1. IInv => JobIsContained
  <2> SUFFICES ASSUME IInv, kst # "none"
               PROVE  /\ PS!Required(cmd) \subseteq seen
                      /\ cstatus = "ok"
                      /\ cmd = "exec" => devices
                      /\ cmd = "exec" /\ pamSupport /\ JM!KidLive => pam = "open"
    BY DEF JobIsContained
  <2>1. ppc = "monitor"
    BY DEF IInv, HandOver
  <2>2. cmd \in PS!Commands /\ PS!ParentChecks(cmd) \subseteq seen /\ cstatus = "ok"
    BY <2>1 DEF IInv, PS!IInv, PS!TypeOK, PS!ChecksDone, PS!HalvesOrdered
  <2>3. PS!Required(cmd) \subseteq PS!ParentChecks(cmd)
    BY <2>2, ImpAssumption, PS!RequiredAreChecked
  <2>4. JM!KidLive => mpc \notin JM!Tail \cup {"ended"}
    BY DEF IInv, JM!IInv, JM!FlowInv, JM!MirrorsJob, JM!AfterReap, JM!KidLive, JM!Tail
  <2>5. cmd = "exec" /\ pamSupport /\ JM!KidLive => pam = "open"
    BY <2>1, <2>4 DEF IInv, SessionInv
  <2> QED
    BY <2>1, <2>2, <2>3, <2>5 DEF IInv, HandOver
<1> QED
  BY <1>1, Invariance, PTL

\* The PAM session is open while what the job's first process left behind runs, as
\* far as cgroup.procs can be read, and closed at the IMP's end
\* (exec.c:273-277, 346-355).
THEOREM PamSpansJobs == Spec => []PamSpansJob
<1>1. IInv => PamSpansJob
  <2> SUFFICES ASSUME IInv, cmd = "exec", pamSupport, kst # "none"
               PROVE  /\ useCgroupKill /\ "procs" \notin failed /\ atReap \cap JM!Alive # {}
                           => pam = "open"
                      /\ mpc = "ended" /\ "waitpid" \notin failed => pam = "closed"
    BY DEF PamSpansJob
  <2>1. ppc = "monitor"
    BY DEF IInv, HandOver
  <2>2. ASSUME useCgroupKill, "procs" \notin failed, atReap \cap JM!Alive # {}
        PROVE  pam = "open"
    <3>1. mpc \notin JM!Tail \cup {"ended"} \/ (mpc = "ended" /\ "waitpid" \in failed)
      BY <2>2 DEF IInv, JM!IInv, JM!TypeOK, JM!FlowInv, JM!Calls, JM!DrainInv, JM!Leaving,
         JM!Tail
    <3> QED
      BY <2>1, <2>2, <3>1 DEF IInv, SessionInv
  <2> QED
    BY <2>1, <2>2 DEF IInv, SessionInv
<1> QED
  BY <1>1, Invariance, PTL

-----------------------------------------------------------------------------
(* Every step of the IMP is a step of the contract, or one it does not see. *)

\* What the contract sees of the privilege separation, and of the monitor.
Allowed == PS!Required(cmd) \subseteq facts

LEMMA KindOfRequest ==
  ASSUME cmd \in PS!Commands
  PROVE  /\ Kind \in {"info", "cert", "job"}
         /\ Kind = "info" <=> cmd \in {"version", "whoami"}
         /\ Kind = "info" <=> PS!Required(cmd) = {}
         /\ Kind = "cert" <=> cmd = "casign"
         /\ Kind = "job" <=> cmd \in PS!Monitored
  BY DEF Kind, PS!Commands, PS!Monitored, PS!Required

LEMMA InitContract == Init => Contract!Init
<1> SUFFICES ASSUME Init PROVE Contract!Init
  OBVIOUS
<1>1. cmd \in PS!Commands /\ seen = {} /\ ppc = "fork" /\ pstatus = "none"
  BY DEF Init, PS!Init
<1>2. mpc = "block" /\ kst = "none" /\ status = JM!NoStatus /\ outcome = JM!NoStatus
  BY DEF Init, JM!Init
<1>3. Phase = "deciding"
  BY <1>1, <1>2 DEF Phase, ImpOver, PS!ParentGone, Approved
<1>4. Result = JM!NoStatus /\ "waitpid" \notin failed
  BY <1>1, <1>2 DEF Result, Init, JM!Init
<1> QED
  BY <1>1, <1>2, <1>3, <1>4, KindOfRequest DEF Contract!Init, Contract!NotYet, JM!NoStatus

\* Before the monitor begins, the phase is what the privilege separation has come
\* to.
LEMMA PhaseBefore ==
  ASSUME IInv, ppc # "monitor"
  PROVE  /\ PS!ParentGone => Phase = "over"
         /\ ~PS!ParentGone /\ Approved => Phase = "approved"
         /\ ~PS!ParentGone /\ ~Approved => Phase = "deciding"
<1>1. mpc = "block" /\ kst = "none"
  BY DEF IInv, HandOver
<1>2. CASE PS!ParentGone
  BY <1>2 DEF Phase, ImpOver, PS!ParentGone
<1>3. CASE ~PS!ParentGone
  BY <1>1, <1>3 DEF Phase, ImpOver, PS!ParentGone, Approved
<1> QED
  BY <1>2, <1>3

\* While it runs, the phase is what the job has come to.
MonitorView ==
  ppc = "monitor" =>
    /\ Kind = "job" /\ Result = outcome
    /\ mpc = "ended" => Phase = "over"
    /\ mpc # "ended" /\ kst = "none" => Phase = "approved"
    /\ mpc # "ended" /\ kst \in {"zombie", "reaped"} => Phase = "reporting"
    /\ mpc # "ended" /\ kst \notin {"none", "zombie", "reaped"} => Phase = "running"

LEMMA PhaseDuring == IInv => MonitorView
<1> SUFFICES ASSUME IInv, ppc = "monitor" PROVE MonitorView
  BY DEF MonitorView
<1>1. cmd \in PS!Commands /\ cmd \in PS!Monitored /\ PS!ParentChecks(cmd) \subseteq seen
  BY DEF IInv, PS!IInv, PS!TypeOK, PS!HalvesOrdered, PS!ChecksDone
<1>2. Kind = "job" /\ PS!Required(cmd) # {}
  BY <1>1, KindOfRequest DEF PS!Monitored
<1>3. Approved
  BY <1>1, <1>2, ImpAssumption, PS!RequiredAreChecked DEF Approved
<1>4. ~PS!ParentGone
  BY DEF PS!ParentGone
<1>5. Result = outcome
  BY <1>4 DEF IInv, PS!ServedInv, Result
<1>6. CASE mpc = "ended"
  BY <1>2, <1>5, <1>6 DEF MonitorView, Phase, ImpOver, PS!ParentGone
<1>7. CASE mpc # "ended"
  BY <1>2, <1>3, <1>5, <1>7 DEF MonitorView, Phase, ImpOver, Approved, PS!ParentGone
<1> QED
  BY <1>6, <1>7

LEMMA PhaseDuringNext == IInv' => MonitorView'
  BY PhaseDuring, PTL

\* The privilege separation moves and the monitor does not.
LEMMA PrivsepImplements ==
  ASSUME IInv, IInv', PS!Next, UNCHANGED JM!vars
  PROVE  [Contract!Next]_(Contract!vars)
<1>1. /\ cmd' = cmd
      /\ ppc = "monitor" => ppc' = "monitor"
      /\ ppc' = "monitor" => ppc \in {"work", "monitor"}
      /\ PS!Unseen \/ PS!Checked \/ PS!Failed \/ PS!Served
  BY ImpAssumption, PS!StepsSeen DEF IInv
<1>2. UNCHANGED <<mpc, kst, status, outcome, failed>>
  BY DEF JM!vars, JM!imp, JM!job, JM!hist
<1>3. cmd \in PS!Commands /\ PS!Required(cmd)' = PS!Required(cmd) /\ Kind' = Kind
  BY <1>1 DEF IInv, PS!IInv, PS!TypeOK, PS!Required, Kind
<1>4. CASE PS!Unseen
  <2>1. Phase' = Phase /\ Result' = Result /\ status' = status
    BY <1>2, <1>3, <1>4 DEF PS!Unseen, Phase, ImpOver, Approved, Result
  <2>2. CASE Allowed' <=> Allowed
    BY <1>2, <1>3, <2>1, <2>2 DEF Contract!vars, Allowed
  <2>3. CASE Allowed /\ ~Allowed'
    BY <1>2, <1>3, <2>1, <2>3 DEF Contract!Next, Contract!Lapse, Allowed
  <2>4. Allowed' => Allowed
    BY <1>3, <1>4 DEF PS!Unseen, Allowed
  <2> QED
    BY <2>2, <2>3, <2>4
<1>5. CASE PS!Checked
  <2>1. ppc # "monitor" /\ ~PS!ParentGone /\ ~PS!ParentGone'
    BY <1>5 DEF PS!Checked
  <2>2. ~Approved /\ Phase = "deciding"
    BY <1>5, <2>1, PhaseBefore DEF PS!Checked, Approved
  <2>3. Allowed /\ PS!Required(cmd) \subseteq seen'
    BY <1>3, <1>5, ImpAssumption, PS!RequiredAreChecked DEF PS!Checked, Allowed
  <2>4. Result' = Result /\ status' = status /\ (Allowed' <=> Allowed)
    BY <1>2, <1>3, <1>5 DEF PS!Checked, Result, Allowed
  <2>5. ~ImpOver' /\ kst' = "none"
    BY <1>2, <2>1 DEF IInv, HandOver, ImpOver
  <2>6. CASE PS!Required(cmd) = {}
    <3>1. Phase' = "deciding"
      BY <1>3, <2>5, <2>6 DEF Phase, Approved
    <3> QED
      BY <1>2, <1>3, <2>2, <2>4, <3>1 DEF Contract!vars, Allowed
  <2>7. CASE PS!Required(cmd) # {}
    <3>1. Phase' = "approved"
      BY <1>3, <2>3, <2>5, <2>7 DEF Phase, Approved
    <3>2. Kind # "info"
      BY <1>3, <2>7, KindOfRequest
    <3> QED
      BY <1>2, <1>3, <2>2, <2>3, <2>4, <3>1, <3>2
      DEF Contract!Next, Contract!Approve, Allowed
  <2> QED
    BY <2>6, <2>7
<1>6. CASE PS!Failed
  <2>1. Phase \in {"deciding", "approved"}
    BY <1>6, PhaseBefore DEF PS!Failed
  <2>2. Phase' = "over"
    BY <1>6 DEF PS!Failed, Phase, ImpOver, PS!ParentGone
  <2>3. Result' = JM!Exited("1") /\ (Allowed' <=> Allowed)
    BY <1>3, <1>6 DEF PS!Failed, Result, Allowed
  <2> QED
    BY <1>2, <1>3, <2>1, <2>2, <2>3 DEF Contract!Next, Contract!Refuse, Allowed
<1>7. CASE PS!Served
  <2>1. Phase' = "over"
    BY <1>7 DEF PS!Served, Phase, ImpOver, PS!ParentGone
  <2>4. Result' = JM!Exited("0") /\ (Allowed' <=> Allowed)
    BY <1>3, <1>7 DEF PS!Served, Result, Allowed
  <2>2. CASE cmd \in {"version", "whoami"}
    <3>1. Kind = "info" /\ Phase = "deciding"
      BY <1>3, <1>7, <2>2, KindOfRequest, PhaseBefore DEF PS!Served, Approved
    <3> QED
      BY <1>2, <1>3, <2>1, <2>4, <3>1 DEF Contract!Next, Contract!Serve, Allowed
  <2>3. CASE cmd = "casign" /\ PS!ParentChecks(cmd) \subseteq seen
    <3>1. Kind = "cert" /\ PS!Required(cmd) # {}
      BY <1>3, <2>3, KindOfRequest
    <3>2. Phase = "approved"
      BY <1>3, <1>7, <2>3, <3>1, PhaseBefore, ImpAssumption, PS!RequiredAreChecked
      DEF PS!Served, Approved
    <3> QED
      BY <1>2, <1>3, <2>1, <2>4, <3>1, <3>2 DEF Contract!Next, Contract!Serve, Allowed
  <2> QED
    BY <1>7, <2>2, <2>3 DEF PS!Served
<1> QED
  BY <1>1, <1>4, <1>5, <1>6, <1>7

\* The monitor moves and the privilege separation does not.
LEMMA MonitorImplements ==
  ASSUME IInv, IInv', JM!Next, ppc = "monitor", UNCHANGED PS!vars
  PROVE  [Contract!Next]_(Contract!vars)
<1>1. JM!JobMoves \/ JM!ImpEnds \/ JM!JobLost
  BY ImpAssumption, JM!StepsSeen DEF IInv
<1>2. ppc' = "monitor" /\ UNCHANGED <<cmd, facts>>
  BY DEF PS!vars
<1>3. /\ Kind = "job" /\ Kind' = "job" /\ Result = outcome /\ Result' = outcome'
      /\ Allowed' <=> Allowed
  <2>1. Allowed' <=> Allowed
    BY <1>2 DEF Allowed, PS!Required
  <2> QED
    BY <1>2, <2>1, PhaseDuring, PhaseDuringNext DEF MonitorView
<1>4. /\ mpc = "ended" => Phase = "over"
      /\ mpc # "ended" /\ kst = "none" => Phase = "approved"
      /\ mpc # "ended" /\ kst \in {"zombie", "reaped"} => Phase = "reporting"
      /\ mpc # "ended" /\ kst \notin {"none", "zombie", "reaped"} => Phase = "running"
  BY PhaseDuring DEF MonitorView
<1>5. /\ mpc' = "ended" => Phase' = "over"
      /\ mpc' # "ended" /\ kst' = "none" => Phase' = "approved"
      /\ mpc' # "ended" /\ kst' \in {"zombie", "reaped"} => Phase' = "reporting"
      /\ mpc' # "ended" /\ kst' \notin {"none", "zombie", "reaped"} => Phase' = "running"
  BY <1>2, PhaseDuringNext DEF MonitorView
<1>6. CASE JM!JobMoves
  <2>1. Result' = Result /\ ("waitpid" \in failed' <=> "waitpid" \in failed)
    BY <1>3, <1>6 DEF JM!JobMoves
  <2>2. CASE status' = status /\ Phase' = Phase
    BY <1>3, <2>1, <2>2 DEF Contract!vars, Allowed
  <2>3. CASE kst = "none" /\ mpc = "fork" /\ kst' = "born" /\ status' = status
    <3>1. Phase = "approved" /\ Phase' = "running"
      BY <1>4, <1>5, <1>6, <2>3 DEF JM!JobMoves
    <3> QED
      BY <1>3, <2>1, <2>3, <3>1 DEF Contract!Next, Contract!Start, Allowed
  <2>4. CASE JM!KidLive /\ kst' = "zombie" /\ status' \in JM!Status
    <3>1. mpc # "ended"
      BY <2>4 DEF IInv, JM!IInv, JM!MirrorsJob, JM!KidLive
    <3>2. Phase = "running" /\ Phase' = "reporting"
      BY <1>4, <1>5, <1>6, <2>4, <3>1 DEF JM!JobMoves, JM!KidLive
    <3> QED
      BY <1>3, <2>1, <2>4, <3>2 DEF Contract!Next, Contract!JobEnds, Allowed
  <2>5. CASE kst' = kst /\ status' = status
    BY <1>4, <1>5, <1>6, <2>2, <2>5 DEF JM!JobMoves
  <2>6. CASE JM!KidLive /\ kst' \in {"open", "job"} /\ status' = status
    BY <1>4, <1>5, <1>6, <2>2, <2>6 DEF JM!JobMoves, JM!KidLive
  <2>7. CASE kst = "zombie" /\ kst' = "reaped" /\ status' = status
    BY <1>4, <1>5, <1>6, <2>2, <2>7 DEF JM!JobMoves
  <2> QED
    BY <1>6, <2>3, <2>4, <2>5, <2>6, <2>7 DEF JM!JobMoves
<1>7. CASE JM!ImpEnds
  <2>1. Phase' = "over" /\ status' = status /\ ("waitpid" \in failed' <=> "waitpid" \in failed)
    BY <1>5, <1>7 DEF JM!ImpEnds
  <2>2. CASE kst = "none"
    <3>1. Phase = "approved"
      BY <1>4, <1>7, <2>2 DEF JM!ImpEnds
    <3>2. Result' \in {JM!Exited("1")} \cup {JM!DiedOf(s) : s \in Sigs}
      BY <1>3, <1>7, <2>2 DEF JM!ImpEnds
    <3> QED
      BY <1>3, <2>1, <3>1, <3>2 DEF Contract!Next, Contract!Refuse, Allowed
  <2>3. CASE kst = "reaped"
    <3>1. Phase = "reporting"
      BY <1>4, <1>7, <2>3 DEF JM!ImpEnds
    <3>2. Result' = status \/ (status[1] = "sig" /\ Result' = <<"128+", status[2]>>)
      BY <1>3, <1>7, <2>3 DEF JM!ImpEnds
    <3> QED
      BY <1>3, <2>1, <3>1, <3>2 DEF Contract!Next, Contract!Report, Allowed
  <2> QED
    BY <1>7, <2>2, <2>3 DEF JM!ImpEnds
<1>8. CASE JM!JobLost
  <2>1. Phase = "reporting" /\ Phase' = "over"
    BY <1>4, <1>5, <1>8 DEF JM!JobLost
  <2>2. Result' = JM!Exited("1") /\ status' = status /\ "waitpid" \in failed'
    BY <1>3, <1>8 DEF JM!JobLost
  <2> QED
    BY <1>3, <2>1, <2>2 DEF Contract!Next, Contract!Lose, Allowed
<1> QED
  BY <1>1, <1>6, <1>7, <1>8

LEMMA StepImplements ==
  IInv /\ IInv' /\ [Next]_vars => [Contract!Next]_(Contract!vars)
<1> SUFFICES ASSUME IInv, IInv', [Next]_vars PROVE [Contract!Next]_(Contract!vars)
  OBVIOUS
<1>1. ASSUME UNCHANGED PS!vars, UNCHANGED JM!vars PROVE UNCHANGED Contract!vars
  BY <1>1 DEF PS!vars, JM!vars, JM!imp, JM!job, JM!hist, Contract!vars, Kind, Phase, Result,
              ImpOver, Approved, PS!ParentGone
<1>2. CASE PamSetup \/ CgroupDeviceApply
  BY <1>1, <1>2, SetupIsWork, PrivsepImplements
<1>3. CASE Decide
  BY <1>3, MonitorRests, PrivsepImplements DEF Decide
<1>4. CASE Watch
  BY <1>4, PrivsepRests, MonitorImplements DEF Watch
<1>5. CASE UNCHANGED vars
  BY <1>1, <1>5, PrivsepRests, MonitorRests DEF vars
<1> QED
  BY <1>2, <1>3, <1>4, <1>5 DEF Next

\* The IMP with its processes, pipes, signals and handlers does only what the
\* contract allows: whatever is killed and whatever lapses, a request is approved
\* before anything is done for it, and the IMP ends as the one job it ran did.
THEOREM Implementation == Spec => ImplementsContract
<1>1. Spec => Contract!Spec
  BY InitContract, StepImplements, Invariance, PTL DEF Spec, Contract!Spec
<1> QED
  BY <1>1 DEF ImplementsContract
=============================================================================
