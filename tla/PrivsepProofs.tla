--------------------------- MODULE PrivsepProofs ---------------------------
(* Proofs of the safety properties of Privsep for every kv size and pipe. *)
EXTENDS Privsep, TLAPS

\* Where the child is and what the parent knows of it agree.
ChildTracked ==
  /\ cstatus # "none" <=> cpc = "exited"
  /\ cpc # "none" <=> cpid # "none"
  /\ cpid = "reaped" => cpc = "exited"
  /\ ppc = "fork" => cpid = "none"
  /\ ppc \in {"pfds", "wakeup", "read", "wait", "mainwait"} => cpid = "child"
  /\ ppc \in {"check", "work"} => cpid # "none"

\* What is in the pipes: a byte only after the wakeup, the pieces in order.
PipesTracked ==
  /\ ppc \in {"fork", "pfds", "wakeup"} => wakeups = 0 /\ rcvd = 0
  /\ rcvd <= sent /\ sent <= len + 1
  /\ sent > 0 \/ cpc = "write" => len <= MaxLen
  /\ ppc = "read" => rcvd <= len
  /\ ppc \in {"check", "wait", "work", "monitor"} => rcvd = len + 1

\* The order of check, wait and work in the privileged half of each command.
HalvesOrdered ==
  /\ ppc \in {"wait", "monitor"} => cmd \in Monitored
  /\ cmd = "exec" /\ ppc = "check" => cpid = "child"
  /\ cmd \notin Monitored /\ ppc \in {"check", "work"} => cpid = "child"
  /\ cmd = "run" /\ ppc = "check" => cpid = "reaped" /\ cstatus = "ok"
  /\ cmd \in Monitored /\ ppc \in {"work", "monitor"} => cpid = "reaped" /\ cstatus = "ok"

\* What the parent has checked by the time it gets there.
ChecksDone ==
  /\ cmd = "exec" /\ ppc = "wait" => ParentChecks(cmd) \subseteq seen
  /\ ppc \in {"work", "monitor"} => ParentChecks(cmd) \subseteq seen

IInv == /\ TypeOK /\ ChildTracked /\ PipesTracked /\ HalvesOrdered /\ ChecksDone
        /\ ExitTellsOfChild
-----------------------------------------------------------------------------
(* The two facts about the tables of checks that the invariant rests on.   *)

\* What the privileged half must have established is among what it checks.
LEMMA RequiredAreChecked ==
  ASSUME NEW c \in Commands
  PROVE  Required(c) \subseteq ParentChecks(c)
  BY DEF Commands, Required, ParentChecks, ExecParentChecks, RunParentChecks,
         CasignParentChecks

\* A request is described by facts that some command checks.
LEMMA ChecksAreFacts ==
  ASSUME NEW c \in Commands
  PROVE  Checks(c) \subseteq Facts
  BY DEF Facts

-----------------------------------------------------------------------------
(* The invariant holds initially and every step preserves it.              *)

LEMMA InitIInv == Init => IInv
<1> SUFFICES ASSUME Init PROVE IInv
  OBVIOUS
<1>1. facts \in SUBSET Facts
  BY ChecksAreFacts DEF Init
<1>2. TypeOK
  BY <1>1, PrivsepAssumption DEF Init, TypeOK, ParentPC, ChildPC, Proc, Ends
<1>3. ChildTracked /\ PipesTracked /\ HalvesOrdered /\ ChecksDone /\ ExitTellsOfChild
  BY PrivsepAssumption
  DEF Init, ChildTracked, PipesTracked, HalvesOrdered, ChecksDone, ExitTellsOfChild
<1> QED
  BY <1>2, <1>3 DEF IInv

LEMMA NextIInv == IInv /\ [Next]_vars => IInv'
<1> SUFFICES ASSUME IInv, [Next]_vars PROVE IInv'
  OBVIOUS
<1> USE PrivsepAssumption
        DEF IInv, TypeOK, ChildTracked, PipesTracked, HalvesOrdered, ChecksDone,
            ExitTellsOfChild, ParentPC, ChildPC, Proc, Ends, ChildEnds, ParentEnds
<1>1. CASE DropPrivileges
  BY <1>1 DEF DropPrivileges
<1>2. CASE ChildPfdsSetup
  BY <1>2 DEF ChildPfdsSetup, ChildPfds
<1>3. CASE WaitForParent
  BY <1>3 DEF WaitForParent
<1>4. CASE ChildCommand
  BY <1>4 DEF ChildCommand, Fits
<1>5. CASE PrivsepWriteKv
  BY <1>5 DEF PrivsepWriteKv
<1>6. CASE Fork
  BY <1>6 DEF Fork
<1>7. CASE ParentPfdsSetup
  BY <1>7 DEF ParentPfdsSetup, ParentPfds
<1>8. CASE WakeupChild
  BY <1>8 DEF WakeupChild
<1>9. CASE PrivsepReadKv
  BY <1>9 DEF PrivsepReadKv, Fits, FirstStep, Monitored, Commands, ParentChecks,
                  ExecParentChecks, RunParentChecks, CasignParentChecks
<1>10. CASE ParentCheck
  BY <1>10 DEF ParentCheck, AfterCheck, Monitored
<1>11. CASE PrivsepWait
  BY <1>11 DEF PrivsepWait, AfterWait, Reapable, WaitOk, Monitored
<1>12. CASE Work
  BY <1>12 DEF Work, Monitored
<1>13. CASE MainWait
  BY <1>13 DEF MainWait, Reapable, WaitOk
<1>14. CASE ChildKilled
  BY <1>14 DEF ChildKilled, ChildLive
<1>15. CASE ParentKilled
  BY <1>15 DEF ParentKilled, ParentGone
<1>16. CASE Expire
  BY <1>16 DEF Expire
<1>17. CASE Finished \/ UNCHANGED vars
  BY <1>17 DEF Finished, vars
<1> QED
  BY <1>1, <1>2, <1>3, <1>4, <1>5, <1>6, <1>7, <1>8, <1>9, <1>10, <1>11, <1>12,
     <1>13, <1>14, <1>15, <1>16, <1>17
  DEF Next, Child, Parent

LEMMA Invariance == Spec => []IInv
  BY InitIInv, NextIInv, PTL DEF Spec

-----------------------------------------------------------------------------
(* What a requester sees of a step, for the composition in ImpProofs.      *)

\* The facts are checked once, and a parent that finds no whole kv finds a child
\* that has failed.
ServedInv ==
  /\ ppc \in {"fork", "pfds", "wakeup", "read", "check"} => seen = {}
  /\ cmd = "run" /\ ppc = "wait" => seen = {}
  /\ pstatus = "none" <=> ~ParentGone
  /\ ppc = "fork" => fds["parent"] = Ends
  /\ ChildLive => "ppW" \in fds["child"]
  /\ cstatus = "ok" /\ cmd # "version" => sent = len + 1
  /\ ppc = "mainwait" =>
       \/ cmd \in {"version", "whoami"}
       \/ cstatus = "failed"
       \/ cmd = "casign" /\ ParentChecks(cmd) \subseteq seen

LEMMA InitServed == Init => ServedInv
  BY DEF Init, ServedInv, ParentGone, ChildLive, Proc

LEMMA NextServed == IInv /\ ServedInv /\ [Next]_vars => ServedInv'
<1> SUFFICES ASSUME IInv, ServedInv, [Next]_vars PROVE ServedInv'
  OBVIOUS
<1> USE PrivsepAssumption
        DEF IInv, TypeOK, ChildTracked, PipesTracked, HalvesOrdered, ChecksDone,
            ServedInv, ParentPC, ChildPC, Proc, Ends, ChildEnds, ParentEnds,
            ParentGone, ChildLive
<1>1. CASE DropPrivileges
  BY <1>1 DEF DropPrivileges
<1>2. CASE ChildPfdsSetup
  BY <1>2 DEF ChildPfdsSetup, ChildPfds
<1>3. CASE WaitForParent
  BY <1>3 DEF WaitForParent
<1>4. CASE ChildCommand
  BY <1>4 DEF ChildCommand, SendsKv
<1>5. CASE PrivsepWriteKv
  BY <1>5 DEF PrivsepWriteKv
<1>6. CASE Fork
  BY <1>6 DEF Fork
<1>7. CASE ParentPfdsSetup
  BY <1>7 DEF ParentPfdsSetup
<1>8. CASE WakeupChild
  BY <1>8 DEF WakeupChild
<1>9. CASE PrivsepReadKv
  BY <1>9 DEF PrivsepReadKv, Fits, FirstStep, Open, Monitored
<1>10. CASE ParentCheck
  BY <1>10 DEF ParentCheck, AfterCheck
<1>11. CASE PrivsepWait
  BY <1>11 DEF PrivsepWait, AfterWait, Monitored
<1>12. CASE Work
  BY <1>12 DEF Work, Monitored, Commands
<1>13. CASE MainWait
  BY <1>13 DEF MainWait
<1>14. CASE ChildKilled
  BY <1>14 DEF ChildKilled
<1>15. CASE ParentKilled
  BY <1>15 DEF ParentKilled
<1>16. CASE Expire
  BY <1>16 DEF Expire
<1>17. CASE Finished \/ UNCHANGED vars
  BY <1>17 DEF Finished, vars
<1> QED
  BY <1>1, <1>2, <1>3, <1>4, <1>5, <1>6, <1>7, <1>8, <1>9, <1>10, <1>11, <1>12,
     <1>13, <1>14, <1>15, <1>16, <1>17
  DEF Next, Child, Parent

\* Nothing that is visible outside has happened, but facts may have lapsed.
Unseen == /\ seen' = seen /\ pstatus' = pstatus
          /\ ParentGone' <=> ParentGone
          /\ \E F : facts' = facts \ F

\* The privileged half has found the request to be in order.
Checked == /\ ~ParentGone /\ ~ParentGone'
           /\ ppc # "monitor"
           /\ seen = {} /\ seen' = facts /\ ParentChecks(cmd) \subseteq facts
           /\ UNCHANGED <<facts, pstatus>>

Failed == /\ ~ParentGone /\ ParentGone'
          /\ ppc # "monitor"
          /\ pstatus' = "failed"
          /\ UNCHANGED facts

Served == /\ ~ParentGone /\ ParentGone'
          /\ ppc # "monitor"
          /\ pstatus' = "ok"
          /\ \/ cmd \in {"version", "whoami"}
             \/ cmd = "casign" /\ ParentChecks(cmd) \subseteq seen
          /\ UNCHANGED <<facts, seen>>

LEMMA StepsSeen ==
  ASSUME IInv, ServedInv, Next
  PROVE  /\ cmd' = cmd
         /\ ppc = "monitor" => ppc' = "monitor"
         /\ ppc' = "monitor" => ppc \in {"work", "monitor"}
         /\ Unseen \/ Checked \/ Failed \/ Served
<1> USE DEF IInv, TypeOK, ChildTracked, ServedInv, Unseen, Checked, Failed, Served,
            ParentPC, ChildEnds, ParentEnds, ParentGone
<1>1. facts = facts \ {}
  OBVIOUS
<1>2. CASE Child \/ ChildKilled
  BY <1>1, <1>2 DEF Child, DropPrivileges, ChildPfdsSetup, WaitForParent, ChildCommand,
                    PrivsepWriteKv, ChildKilled
<1>3. CASE Fork \/ ParentPfdsSetup \/ WakeupChild
  BY <1>1, <1>3 DEF Fork, ParentPfdsSetup, WakeupChild
<1>4. CASE PrivsepReadKv
  BY <1>1, <1>4 DEF PrivsepReadKv, FirstStep
<1>5. CASE ParentCheck
  BY <1>5 DEF ParentCheck, AfterCheck
<1>6. CASE PrivsepWait
  BY <1>1, <1>6 DEF PrivsepWait, AfterWait
<1>7. CASE Work
  BY <1>1, <1>7 DEF Work
<1>8. CASE MainWait
  BY <1>8, <1>1 DEF MainWait, WaitOk, Reapable
<1>9. CASE ParentKilled
  BY <1>9 DEF ParentKilled
<1>10. CASE Expire
  BY <1>10 DEF Expire
<1>11. CASE Finished
  BY <1>1, <1>11 DEF Finished, vars
<1> QED
  BY <1>2, <1>3, <1>4, <1>5, <1>6, <1>7, <1>8, <1>9, <1>10, <1>11 DEF Next, Parent

-----------------------------------------------------------------------------
(* The properties that the model checker checks on a small instance.       *)

\* Every variable keeps its type; in particular the child never writes more than
\* a length and MaxLen pieces, and a wakeup is never repeated.
THEOREM TypeCorrect == Spec => []TypeOK
<1>1. IInv => TypeOK
  BY DEF IInv
<1> QED
  BY <1>1, Invariance, PTL

\* Privileged work is only done for a request that the privileged half has itself
\* found authorised (exec.c:254-266, run.c:303-320, casign.c:85-94).
THEOREM WorkIsAuthorised == Spec => []WorkAuthorised
<1>1. IInv => WorkAuthorised
  <2> SUFFICES ASSUME IInv, ppc \in {"work", "monitor"} PROVE Required(cmd) \subseteq seen
    BY DEF WorkAuthorised
  <2>1. cmd \in Commands
    BY DEF IInv, TypeOK
  <2>2. ParentChecks(cmd) \subseteq seen
    BY DEF IInv, ChecksDone
  <2> QED
    BY <2>1, <2>2, RequiredAreChecked
<1> QED
  BY <1>1, Invariance, PTL

\* A job starts from a whole kv, after its sender has been collected with exit
\* status 0 (exec.c:269, run.c:303).
THEOREM JobsFollowGoodChildren == Spec => []JobAfterGoodChild
<1>1. IInv => JobAfterGoodChild
  BY DEF IInv, HalvesOrdered, PipesTracked, JobAfterGoodChild
<1> QED
  BY <1>1, Invariance, PTL

\* The IMP's exit status 0 vouches for the unprivileged half (imp.c:93-94).
THEOREM ExitStatusIsHonest == Spec => []ExitTellsOfChild
<1>1. IInv => ExitTellsOfChild
  BY DEF IInv
<1> QED
  BY <1>1, Invariance, PTL
=============================================================================
