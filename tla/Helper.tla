------------------------------- MODULE Helper -------------------------------
(***************************************************************************)
(* A process that tells exec its input (src/imp/exec/safe_popen.c), the    *)
(* pipe between the two, and what exec's unprivileged half does with them  *)
(* (src/imp/exec/exec.c:186-221, 385-405).                                          *)
(*                                                                         *)
(* The helper is given by the caller's environment: what it writes and how *)
(* it ends are its own affair.  It never closes the read end of the pipe,  *)
(* which it has from fork, so that no write of it fails, even when exec is *)
(* gone; nothing here depends on who reads.                                *)
(***************************************************************************)
EXTENDS Naturals, Sequences

CONSTANTS PipeSize,     \* how much the pipe holds
          Outputs       \* what a helper may be about to write

ASSUME HelperAssumption == PipeSize \in Nat \ {0}

VARIABLES helper,   \* the process: "none", "forked", "runs", "exited", "reaped"
          unsaid,   \* what it has still to write
          pipe,     \* what is in the pipe
          writers,  \* who has the write end open
          status,   \* how the helper ended
          heard     \* what exec has read

helperVars == <<helper, unsaid, pipe, writers, status, heard>>

\* An object of JSON in two parts; anything else is not, or not yet, an object.
Whole == <<"{", "}">>

NoHelper ==
  /\ helper = "none" /\ unsaid = <<>> /\ pipe = <<>>
  /\ writers = {} /\ status = 0 /\ heard = <<>>

HelperToCome ==
  /\ helper = "none" /\ unsaid \in Outputs /\ pipe = <<>>
  /\ writers = {} /\ status = 0 /\ heard = <<>>

-----------------------------------------------------------------------------
\* The helper's process.

Ends(code) ==
  /\ helper' = "exited"
  /\ status' = code
  /\ writers' = writers \ {"helper"}

\* After fork: dup2 and execvp; the write end is the standard output then.
HelperExec ==
  /\ helper = "forked"
  /\ helper' = "runs"
  /\ UNCHANGED <<unsaid, pipe, writers, status, heard>>

HelperExecFails ==
  /\ helper = "forked"
  /\ \E code \in {126, 127} : Ends(code)
  /\ UNCHANGED <<unsaid, pipe, heard>>

HelperWrites ==
  /\ helper = "runs" /\ unsaid # <<>> /\ Len(pipe) < PipeSize
  /\ pipe' = Append(pipe, Head(unsaid))
  /\ unsaid' = Tail(unsaid)
  /\ UNCHANGED <<helper, writers, status, heard>>

\* Its output may end before it does.
HelperCloses ==
  /\ helper = "runs" /\ unsaid = <<>> /\ "helper" \in writers
  /\ writers' = writers \ {"helper"}
  /\ UNCHANGED <<helper, unsaid, pipe, status, heard>>

HelperExits ==
  /\ helper = "runs" /\ unsaid = <<>>
  /\ \E code \in {0, 1} : Ends(code)
  /\ UNCHANGED <<unsaid, pipe, heard>>

\* A signal's number is in the low bits of the status.
HelperIsKilled ==
  /\ helper \in {"forked", "runs"}
  /\ Ends(9)
  /\ UNCHANGED <<unsaid, pipe, heard>>

HelperGoesOn == HelperExec \/ HelperExecFails \/ HelperWrites \/ HelperExits

-----------------------------------------------------------------------------
\* What exec does.

\* pipe and fork in safe_popen.
Fork ==
  /\ helper' = "forked"
  /\ writers' = {"exec", "helper"}
  /\ UNCHANGED <<unsaid, pipe, status, heard>>

\* A bug: exec keeps what it does not write to.
BugCloseWriteEnd == UNCHANGED helperVars

\* The end of safe_popen.
CloseWriteEnd ==
  /\ writers' = writers \ {"exec"}
  /\ UNCHANGED <<helper, unsaid, pipe, status, heard>>

\* A part of what json_loadf reads.
Hear ==
  /\ pipe # <<>>
  /\ heard' = Append(heard, Head(pipe))
  /\ pipe' = Tail(pipe)
  /\ UNCHANGED <<helper, unsaid, writers, status>>

\* read(2) finds the pipe empty, and nobody left to fill it.
EndOfFile == pipe = <<>> /\ writers = {}

\* waitpid in safe_popen_wait
Reap ==
  /\ helper = "exited"
  /\ helper' = "reaped"
  /\ UNCHANGED <<unsaid, pipe, writers, status, heard>>

\* A bug: that waitpid succeeds is enough.
BugSucceeded == TRUE

\* imp_exec_init_helper looks at the status as a whole.
Succeeded == status = 0
=============================================================================
