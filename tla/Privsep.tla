------------------------------- MODULE Privsep -------------------------------
(***************************************************************************)
(* Privilege separation in flux-imp: src/imp/privsep.c and the two halves  *)
(* that main() starts with it (src/imp/imp.c, the command table of         *)
(* src/imp/impcmd-list.c).  The privileged parent forks an unprivileged    *)
(* child.  The child drops its privileges, waits for one byte from the     *)
(* parent, runs its half of the command and sends the parent one struct kv *)
(* over a pipe.  The parent reads the kv, runs the privileged half of the  *)
(* command and collects the child with privsep_wait().                     *)
(*                                                                         *)
(* The data is abstract: a struct kv is a number of pieces, the first of   *)
(* which is its length; a request is the set of facts about it that the    *)
(* halves check.  The descriptors, the two pipes and the order of steps in *)
(* both processes are kept, and either process may be killed at any point. *)
(*                                                                         *)
(* Definitions whose name begins with Bug are not part of the model: each  *)
(* is a definition that follows it with one mistake in it, which TLC has   *)
(* to find when it takes its place.                                        *)
(***************************************************************************)
EXTENDS Naturals

CONSTANTS MaxLen,    \* PRIVSEP_MAX_KVLEN, in pieces
          PipeCap    \* pieces that fit in a pipe before write(2) blocks

ASSUME PrivsepAssumption == MaxLen \in Nat \ {0} /\ PipeCap \in Nat \ {0}

VARIABLES cmd,       \* the command named by argv[1]
          facts,     \* what is true of the request at this moment
          len,       \* the length of the encoded kv, in pieces
          ppc,       \* where the privileged parent is
          cpc,       \* where the unprivileged child is
          fds,       \* the pipe ends each process holds open
          wakeups,   \* bytes in the parent-to-child pipe
          sent,      \* pieces the child has written to the other pipe
          rcvd,      \* pieces the parent has read from it
          cpid,      \* the parent's ps->cpid
          cstatus,   \* the child's exit status
          seen,      \* the facts that held when the parent checked them
          pstatus    \* the exit status of the IMP

vars == <<cmd, facts, len, ppc, cpc, fds, wakeups, sent, rcvd, cpid, cstatus,
          seen, pstatus>>

-----------------------------------------------------------------------------
(* The command table and what each half of a command checks.               *)

Commands == {"version", "whoami", "casign", "exec", "run"}

\* Commands whose privileged half starts a job and never returns to main().
Monitored == {"exec", "run"}

\* What the unprivileged halves check: "argv" stands for a known command with
\* enough arguments, "input" for readable input and options.
ExecChildChecks   == {"argv", "user", "input", "signature", "account", "shell"}
RunChildChecks    == {"argv", "configured", "path"}
CasignChildChecks == {"argv", "input"}

ChildChecks(c) ==
  CASE c = "exec"   -> ExecChildChecks
    [] c = "run"    -> RunChildChecks
    [] c = "casign" -> CasignChildChecks
    [] OTHER        -> {"argv"}

\* A bug: the parent trusts the unwrap of J that the child has done.
BugTrustedJ == {"user", "devices", "account", "notroot", "shell"}

\* imp_exec_privileged unwraps J again and checks the whole request.
ExecParentChecks == {"user", "devices", "signature", "account", "notroot", "shell"}

RunParentChecks    == {"configured", "path", "user"}
CasignParentChecks == {"input", "ca"}

\* The privileged half checks these itself before it does any work.
ParentChecks(c) ==
  CASE c = "exec"   -> ExecParentChecks
    [] c = "run"    -> RunParentChecks
    [] c = "casign" -> CasignParentChecks
    [] OTHER        -> {}

Checks(c) == ChildChecks(c) \cup ParentChecks(c)

Facts == UNION {Checks(c) : c \in Commands}

\* Facts that can stop holding while the IMP runs: a signature expires, the
\* permissions of a path change.  The configuration is read once, before fork.
Volatile == {"signature", "path"}

\* imp_cmd_find_child finds "version", but imp_cmd_find_parent does not: its
\* unprivileged half sends nothing.
SendsKv(c) == c # "version"

\* Where the privileged half of a command begins, and where it goes after its
\* checks: "run" waits for the child first, "exec" checks first, "casign" and
\* "whoami" leave the waiting to main().
FirstStep(c) == CASE c = "run"    -> "wait"
                  [] c = "whoami" -> "work"
                  [] OTHER        -> "check"

\* A bug: exec sets up the job without waiting for its child.
BugNoWait(c) == "work"

AfterCheck(c) == IF c = "exec" THEN "wait" ELSE "work"

\* A bug: run starts the job for what the child has sent it.
BugNoCheck(c) == "work"

AfterWait(c) == IF c = "run"  THEN "check" ELSE "work"

-----------------------------------------------------------------------------
(* Processes and pipes.  upR/upW are upfds[0..1], ppR/ppW are ppfds[0..1]. *)

Proc == {"parent", "child"}
Ends == {"upR", "upW", "ppR", "ppW"}

ParentPC == {"fork", "pfds", "wakeup", "read", "check", "wait", "work",
             "mainwait", "monitor", "exited", "killed"}
ChildPC  == {"none", "drop", "pfds", "await", "command", "write", "exited"}

ParentGone == ppc \in {"exited", "killed"}
ChildLive  == cpc \notin {"none", "exited"}

\* Some process still holds the end open.
Open(end) == \E p \in Proc : end \in fds[p]

\* The child ends with this status and the kernel closes its descriptors.
ChildEnds(st) ==
  /\ cpc' = "exited"
  /\ cstatus' = st
  /\ fds' = [fds EXCEPT !["child"] = {}]

\* The IMP ends with this status.
ParentEnds(st) ==
  /\ ppc' = "exited"
  /\ pstatus' = st
  /\ fds' = [fds EXCEPT !["parent"] = {}]

Init ==
  /\ cmd \in Commands
  /\ facts \in SUBSET Checks(cmd)
  /\ len \in 1..(MaxLen + 1)
  /\ ppc = "fork"
  /\ cpc = "none"
  /\ fds = [p \in Proc |-> IF p = "parent" THEN Ends ELSE {}]
  /\ wakeups = 0
  /\ sent = 0
  /\ rcvd = 0
  /\ cpid = "none"
  /\ cstatus = "none"
  /\ seen = {}
  /\ pstatus = "none"

-----------------------------------------------------------------------------
(* The unprivileged child.                                                 *)

\* drop_privileges: any failure is fatal.
DropPrivileges ==
  /\ cpc = "drop"
  /\ \/ cpc' = "pfds" /\ UNCHANGED <<cstatus, fds>>
     \/ ChildEnds("failed")
  /\ UNCHANGED <<cmd, facts, len, ppc, wakeups, sent, rcvd, cpid, seen, pstatus>>

\* A bug: the child keeps the write end of the pipe it reads.
BugChildPfds == {"upR", "upW", "ppW"}

ChildPfds == {"upR", "ppW"}

ChildPfdsSetup ==
  /\ cpc = "pfds"
  /\ cpc' = "await"
  /\ fds' = [fds EXCEPT !["child"] = ChildPfds]
  /\ UNCHANGED <<cmd, facts, len, ppc, wakeups, sent, rcvd, cpid, cstatus, seen,
                 pstatus>>

\* wait_for_parent: read(2) returns the byte, or 0 once no write end is open.
WaitForParent ==
  /\ cpc = "await"
  /\ \/ /\ wakeups > 0
        /\ wakeups' = wakeups - 1
        /\ cpc' = "command"
        /\ UNCHANGED <<cstatus, fds>>
     \/ /\ wakeups = 0
        /\ ~Open("upW")
        /\ ChildEnds("failed")
        /\ UNCHANGED wakeups
  /\ UNCHANGED <<cmd, facts, len, ppc, sent, rcvd, cpid, seen, pstatus>>

\* A bug: a kv of any length is sent and accepted.
BugFits == TRUE

\* Where writer and reader of a kv agree that it is not too long.
Fits == len <= MaxLen

\* imp_child up to privsep_write_kv, which refuses a kv that is too long.
ChildCommand ==
  /\ cpc = "command"
  /\ \/ /\ ChildChecks(cmd) \subseteq facts
        /\ SendsKv(cmd)
        /\ Fits
        /\ cpc' = "write"
        /\ UNCHANGED <<cstatus, fds>>
     \/ /\ ChildChecks(cmd) \subseteq facts
        /\ ~SendsKv(cmd)
        /\ ChildEnds("ok")
     \/ /\ ~(ChildChecks(cmd) \subseteq facts) \/ (SendsKv(cmd) /\ ~Fits)
        /\ ChildEnds("failed")
  /\ UNCHANGED <<cmd, facts, len, ppc, wakeups, sent, rcvd, cpid, seen, pstatus>>

\* privsep_write_kv: the length, then the body; write(2) blocks on a full pipe
\* and fails (or raises SIGPIPE) when no process can read.  After the last
\* piece the command's half returns and the child exits 0.
PrivsepWriteKv ==
  /\ cpc = "write"
  /\ \/ /\ sent <= len
        /\ Open("ppR")
        /\ sent - rcvd < PipeCap
        /\ sent' = sent + 1
        /\ UNCHANGED <<cpc, cstatus, fds>>
     \/ /\ sent <= len
        /\ ~Open("ppR")
        /\ ChildEnds("failed")
        /\ UNCHANGED sent
     \/ /\ sent = len + 1
        /\ ChildEnds("ok")
        /\ UNCHANGED sent
  /\ UNCHANGED <<cmd, facts, len, ppc, wakeups, rcvd, cpid, seen, pstatus>>

-----------------------------------------------------------------------------
(* The privileged parent.                                                  *)

\* run_unprivileged_child: the child starts with a copy of every descriptor.
Fork ==
  /\ ppc = "fork"
  /\ \/ /\ ppc' = "pfds"
        /\ cpc' = "drop"
        /\ cpid' = "child"
        /\ fds' = [fds EXCEPT !["child"] = fds["parent"]]
        /\ UNCHANGED pstatus
     \/ ParentEnds("failed") /\ UNCHANGED <<cpc, cpid>>
  /\ UNCHANGED <<cmd, facts, len, wakeups, sent, rcvd, cstatus, seen>>

\* A bug: the parent keeps the write end of the pipe it reads.
BugParentPfds == {"ppR", "ppW", "upW"}

ParentPfds == {"ppR", "upW"}

ParentPfdsSetup ==
  /\ ppc = "pfds"
  /\ ppc' = "wakeup"
  /\ fds' = [fds EXCEPT !["parent"] = ParentPfds]
  /\ UNCHANGED <<cmd, facts, len, cpc, wakeups, sent, rcvd, cpid, cstatus, seen,
                 pstatus>>

\* wakeup_child: writing to a pipe without readers ends the IMP.
WakeupChild ==
  /\ ppc = "wakeup"
  /\ \/ /\ Open("upR")
        /\ wakeups' = wakeups + 1
        /\ ppc' = "read"
        /\ UNCHANGED <<fds, pstatus>>
     \/ ~Open("upR") /\ ParentEnds("failed") /\ UNCHANGED wakeups
  /\ UNCHANGED <<cmd, facts, len, cpc, sent, rcvd, cpid, cstatus, seen>>

\* privsep_read_kv, called by imp_parent: it returns NULL when the pipe ends
\* before the whole kv has arrived or the length it begins with is too large,
\* and imp_parent then returns to main().
PrivsepReadKv ==
  /\ ppc = "read"
  /\ \/ /\ sent > rcvd
        /\ rcvd' = rcvd + 1
        /\ ppc' = CASE rcvd = 0 /\ ~Fits -> "mainwait"
                    [] rcvd = len         -> FirstStep(cmd)
                    [] OTHER              -> "read"
     \/ /\ sent = rcvd
        /\ ~Open("ppW")
        /\ ppc' = "mainwait"
        /\ UNCHANGED rcvd
  /\ UNCHANGED <<cmd, facts, len, cpc, fds, wakeups, sent, cpid, cstatus, seen,
                 pstatus>>

\* The checks of the privileged half: each one that fails is fatal.
ParentCheck ==
  /\ ppc = "check"
  /\ seen' = facts
  /\ \/ /\ ParentChecks(cmd) \subseteq facts
        /\ ppc' = AfterCheck(cmd)
        /\ UNCHANGED <<fds, pstatus>>
     \/ ~(ParentChecks(cmd) \subseteq facts) /\ ParentEnds("failed")
  /\ UNCHANGED <<cmd, facts, len, cpc, wakeups, sent, rcvd, cpid, cstatus>>

\* waitpid collects the child once it has exited.  A second privsep_wait finds
\* cpid < 0 and succeeds.
Reapable == cpid = "child" => cpc = "exited"

\* A bug: the exit status of the child is not looked at.
BugWaitOk == TRUE

WaitOk == cpid = "child" => cstatus = "ok"

\* privsep_wait as the privileged half calls it: a failed child is fatal.
PrivsepWait ==
  /\ ppc = "wait"
  /\ Reapable
  /\ cpid' = "reaped"
  /\ \/ WaitOk /\ ppc' = AfterWait(cmd) /\ UNCHANGED <<fds, pstatus>>
     \/ ~WaitOk /\ ParentEnds("failed")
  /\ UNCHANGED <<cmd, facts, len, cpc, wakeups, sent, rcvd, cstatus, seen>>

\* The privileged work.  Starting a job is handed to the job monitor; a
\* returning handler goes back to main(); its own errors are fatal.
Work ==
  /\ ppc = "work"
  /\ \/ cmd \in Monitored /\ ppc' = "monitor" /\ UNCHANGED <<fds, pstatus>>
     \/ cmd \notin Monitored /\ ppc' = "mainwait" /\ UNCHANGED <<fds, pstatus>>
     \/ ParentEnds("failed")
  /\ UNCHANGED <<cmd, facts, len, cpc, wakeups, sent, rcvd, cpid, cstatus, seen>>

\* main(): privsep_wait, then exit with failure if the child failed.
MainWait ==
  /\ ppc = "mainwait"
  /\ Reapable
  /\ cpid' = "reaped"
  /\ ParentEnds(IF WaitOk THEN "ok" ELSE "failed")
  /\ UNCHANGED <<cmd, facts, len, cpc, wakeups, sent, rcvd, cstatus, seen>>

-----------------------------------------------------------------------------
(* The environment.                                                        *)

\* A signal kills the child, which runs as the requesting user.
ChildKilled ==
  /\ ChildLive
  /\ ChildEnds("failed")
  /\ UNCHANGED <<cmd, facts, len, ppc, wakeups, sent, rcvd, cpid, seen, pstatus>>

\* Until imp_sigblock_all a signal kills the parent as well.
ParentKilled ==
  /\ ~ParentGone /\ ppc # "monitor"
  /\ ppc' = "killed"
  /\ pstatus' = "failed"
  /\ fds' = [fds EXCEPT !["parent"] = {}]
  /\ UNCHANGED <<cmd, facts, len, cpc, wakeups, sent, rcvd, cpid, cstatus, seen>>

Expire ==
  /\ ~ParentGone /\ ppc # "monitor"
  /\ \E f \in facts \cap Volatile : facts' = facts \ {f}
  /\ UNCHANGED <<cmd, len, ppc, cpc, fds, wakeups, sent, rcvd, cpid, cstatus,
                 seen, pstatus>>

\* The IMP has ended, or watches a job, and the child is gone.
Finished ==
  /\ ParentGone \/ ppc = "monitor"
  /\ ~ChildLive
  /\ UNCHANGED vars

-----------------------------------------------------------------------------
Child == \/ DropPrivileges \/ ChildPfdsSetup \/ WaitForParent
         \/ ChildCommand \/ PrivsepWriteKv

Parent == \/ Fork \/ ParentPfdsSetup \/ WakeupChild \/ PrivsepReadKv
          \/ ParentCheck \/ PrivsepWait \/ Work \/ MainWait

Next == Child \/ Parent \/ ChildKilled \/ ParentKilled \/ Expire \/ Finished

\* The kernel schedules both processes; nothing makes a signal arrive.
Fairness == WF_vars(Child) /\ WF_vars(Parent)

Spec == Init /\ [][Next]_vars /\ Fairness

-----------------------------------------------------------------------------
TypeOK ==
  /\ cmd \in Commands
  /\ facts \in SUBSET Facts
  /\ len \in 1..(MaxLen + 1)
  /\ ppc \in ParentPC
  /\ cpc \in ChildPC
  /\ fds \in [Proc -> SUBSET Ends]
  /\ wakeups \in 0..1
  /\ sent \in 0..(MaxLen + 1)
  /\ rcvd \in 0..(MaxLen + 1)
  /\ cpid \in {"none", "child", "reaped"}
  /\ cstatus \in {"none", "ok", "failed"}
  /\ seen \in SUBSET Facts
  /\ pstatus \in {"none", "ok", "failed"}

\* What must be established before root does anything for the requester.
Required(c) ==
  CASE c = "exec"   -> {"user", "signature", "account", "notroot", "shell"}
    [] c = "run"    -> {"configured", "path", "user"}
    [] c = "casign" -> {"input", "ca"}
    [] OTHER        -> {}

\* The privileged half acts only on facts it found true itself, whatever the
\* child had found earlier (exec.c:254-266, run.c:303-320, casign.c:85-94): a
\* signature that expires between the child's check and the parent's is refused.
WorkAuthorised ==
  (ppc \in {"work", "monitor"}) => Required(cmd) \subseteq seen

\* No job is started for a child that has not exited with status 0, and what
\* started it is the whole of the kv that child sent (exec.c:269, run.c:303,
\* privsep.c:298 and 315): a truncated kv, or one followed by the child's
\* death, starts nothing.
JobAfterGoodChild ==
  (ppc = "monitor" \/ (ppc = "work" /\ cmd \in Monitored))
    => cstatus = "ok" /\ cpid = "reaped" /\ rcvd = len + 1

\* The IMP exits 0 only when its unprivileged half succeeded, also when no kv
\* came or the privileged half had already done its work (imp.c:93-94).
ExitTellsOfChild ==
  pstatus = "ok" => cstatus = "ok"

\* The IMP always comes to an end or to a job, however and whenever the child
\* dies: it never reads from a pipe whose write end it holds itself, and never
\* waits for a child that waits for it (privsep.c:112, exec.c:269).
ParentTerminates == <>(ParentGone \/ ppc = "monitor")

\* The child never outlives a dead parent by waiting for a wakeup that cannot
\* come (privsep.c:96, 136): it holds no write end of the pipe it reads.
ChildTerminates == (cpc # "none") ~> (cpc = "exited")
=============================================================================
