------------------------------ MODULE Transfer ------------------------------
(***************************************************************************)
(* What of a request reaches the command or the job: the unprivileged half *)
(* of run and exec puts it in a kv (src/imp/run.c, src/imp/exec/exec.c),   *)
(* the kv crosses the pipe as a flat buffer, and the privileged half, who  *)
(* takes nothing in it for granted, makes of it the environment of the     *)
(* command, or the arguments and the device policy of the job.             *)
(*                                                                         *)
(* How the two processes and their pipes work is in Privsep; here the      *)
(* buffer is there at once.  It may also be something else than what the   *)
(* code of the child writes.  Whether the signature on J is good is Sign's *)
(* subject; here it may fail at any time.                                  *)
(*                                                                         *)
(* A Bug definition is the one that follows it with a mistake in it.       *)
(***************************************************************************)
EXTENDS Device, KvBuffer, Helper

CONSTANTS Allowed,    \* values of allowed-environment: the names it matches, or Unset
          Unset,      \* allowed-environment is not in the configuration
          LongNames,  \* names of more than 128 characters
          Environs,   \* environments of the caller
          Options,    \* options of exec
          Argvs,      \* arguments of the job shell
          HelperOptions,  \* options of exec that a helper may bring
          Garbage,    \* buffers no kv was encoded to
          Forged      \* kvs the child's code does not put together

\* Strings of C: no name, value or argument has a NUL in it, and the name of a variable
\* ends where the first = of its string is.  There are as many arguments, and devices
\* that an item names, as there are numerals to number them.
ASSUME StringsAssumption ==
  /\ NUL \notin Range(Numerals)
  /\ \A a \in Argvs : /\ Sequence(a) /\ a # <<>> /\ NUL \notin Range(a)
                      /\ 0..Len(a) \subseteq DOMAIN Numerals
  /\ \A e \in Environs : /\ Sequence(e)
                         /\ \A v \in Range(e) : v.name \notin {NUL, "="} /\ v.val # NUL
  /\ \A b \in Garbage : Sequence(b)
  /\ \A f \in Forged : /\ Sequence(f)
                       /\ \A e \in Range(f) : Sequence(e.key) /\ Sequence(e.val)

\* A special file is a block or a character device and has the numbers that major and
\* minor make of an st_rdev; a class has the prefix of one of the two kinds.  NULL is no
\* list of devices.
ASSUME DevicesAssumption ==
  /\ \A p \in DOMAIN Nodes :
       LET n == Nodes[p]
       IN /\ n = [type |-> n.type, major |-> n.major, minor |-> n.minor]
          /\ n.type \in {"b", "c"} /\ NUL \notin {n.type, n.major, n.minor}
          /\ n.minor # AnyMinor
  /\ Sequence(ProcDevices) /\ Sequence(Standard)
  /\ \A l \in Range(ProcDevices) : l.major # NUL
  /\ \A o \in Options \cup HelperOptions :
       OptionsAreValid(o) =>
         /\ Sequence(o.allow)
         /\ \A item \in Range(Items(o)) :
              /\ Sequence(item.access)
              /\ item.spec.kind = "class" => item.spec.type \in {"b", "c"}
         /\ ~Uncontained(o) =>
              /\ DeviceAllow(o) # AllowAll
              /\ 0..Len(DeviceAllow(o)) \subseteq DOMAIN Numerals

VARIABLES pc,       \* where the two halves are
          sender,   \* "child": the code in src/ wrote the buffer, "other": not
          allowed, environ,         \* input of run
          options, argv,            \* input of exec
          kv,       \* the kv put together, later the one received
          wire,     \* what crosses the pipe
          i,        \* the variable of the loop that runs
          env,      \* kv_env
          split,    \* history: kv_env before it is filtered
          da,       \* the device list received
          result    \* what is handed to execve or execvp

request == <<sender, allowed, environ, options, argv>>
input   == <<request, helperVars>>
data    == <<kv, wire, i, env, split, da, result>>
vars    == <<pc, input, kv, wire, i, env, split, da, result>>

EnvPrefix == <<"IMP_RUN_ENV_">>

CmdKv(cmd) == KvPut(<<>>, <<"cmd">>, "s", <<cmd>>)

Init ==
  /\ i = 0 /\ env = <<>> /\ split = <<>> /\ da = AllowAll /\ result = <<>>
  /\ \/ /\ pc = "put_run" /\ sender = "child" /\ NoHelper
        /\ allowed \in Allowed /\ environ \in Environs
        /\ options = AllowAll /\ argv = <<>>
        /\ kv = CmdKv("run") /\ wire = <<>>
     \/ /\ sender = "child"
        /\ \/ pc = "check" /\ options \in Options /\ NoHelper
           \/ pc = "popen" /\ options \in HelperOptions /\ HelperToCome
        /\ argv \in Argvs
        /\ allowed = Unset /\ environ = <<>>
        /\ kv = CmdKv("exec") /\ wire = <<>>
     \/ /\ pc = "read" /\ sender = "other" /\ NoHelper
        /\ environ = <<>> /\ options = AllowAll /\ argv = <<>>
        /\ kv = <<>>
        /\ \/ allowed = Unset /\ wire \in Garbage
           \/ allowed \in Allowed /\ wire \in {KvEncode(f) : f \in Forged}

Refuse == pc' = "refused" /\ UNCHANGED <<input, data>>

-----------------------------------------------------------------------------
\* The unprivileged half of run.

JobVars == {"FLUX_JOB_ID", "FLUX_JOB_USERID"}

\* A bug: only the configuration counts.
BugVarAllowed(key) == allowed # Unset /\ key \in {<<n>> : n \in allowed}

\* run_env_var_allowed
VarAllowed(key) ==
  \/ key \in {<<n>> : n \in JobVars}
  \/ allowed # Unset /\ key \in {<<n>> : n \in allowed}

\* imp_run_put_kv; without allowed-environment no variable is sent.
PutCommand ==
  /\ pc = "put_run"
  /\ kv' = KvPut(kv, <<"command">>, "s", <<"prolog">>)
  /\ pc' = IF allowed = Unset THEN "write" ELSE "put_env"
  /\ i' = 1
  /\ UNCHANGED <<input, wire, env, split, da, result>>

\* imp_run_kv_putenv for one variable of the environment.
PutEnv ==
  /\ pc = "put_env" /\ i <= Len(environ)
  /\ LET var == environ[i]
     IN kv' = IF var.name \notin LongNames /\ VarAllowed(<<var.name>>)
              THEN KvPut(kv, EnvPrefix \o <<var.name>>, "s", <<var.val>>)
              ELSE kv
  /\ i' = i + 1
  /\ UNCHANGED <<pc, input, wire, env, split, da, result>>

PutEnvEnds ==
  /\ pc = "put_env" /\ i > Len(environ)
  /\ pc' = "write"
  /\ UNCHANGED <<input, kv, wire, i, env, split, da, result>>

-----------------------------------------------------------------------------
\* The unprivileged half of exec.

\* kv_encode_argv
EncodeArgv(args) ==
  PutAll(<<>>, [n \in DOMAIN args |-> Entry(<<Num(n - 1)>>, "s", <<args[n]>>)])

\* imp_exec_put_kv
ExecKv ==
  LET named == KvPut(KvPut(kv, <<"J">>, "s", <<"J">>), <<"shell_path">>, "s", <<argv[1]>>)
  IN DeviceEncode(KvJoin(named, EncodeArgv(argv), <<"args">>), DeviceAllow(options))

\* imp_exec_init_helper
Popen ==
  /\ pc = "popen" /\ Fork
  /\ pc' = "close"
  /\ UNCHANGED <<request, data>>

PopenFails == pc = "popen" /\ Refuse

PopenEnds ==
  /\ pc = "close" /\ CloseWriteEnd
  /\ pc' = "hear"
  /\ UNCHANGED <<request, data>>

\* json_loadf gives up on what cannot become an object, and has an object only
\* when nothing follows it.
HearInput ==
  /\ pc = "hear" /\ Hear
  /\ pc' = IF IsPrefix(heard', Whole) THEN "hear" ELSE "refused"
  /\ UNCHANGED <<request, data>>

HearEnd ==
  /\ pc = "hear" /\ EndOfFile
  /\ pc' = IF heard = Whole THEN "check" ELSE "refused"
  /\ UNCHANGED <<input, data>>

\* The rest of imp_exec_init_stream, for input from a helper or from stdin.
CheckInput ==
  /\ pc = "check" /\ OptionsAreValid(options)
  /\ pc' = IF helper = "none" THEN "put_exec" ELSE "wait"
  /\ UNCHANGED <<input, data>>

CheckInputFails == pc = "check" /\ Refuse

WaitForHelper ==
  /\ pc = "wait" /\ Reap
  /\ pc' = IF Succeeded THEN "put_exec" ELSE "refused"
  /\ UNCHANGED <<request, data>>

\* imp_exec_put_kv
PutExec ==
  /\ pc = "put_exec"
  /\ kv' = ExecKv
  /\ pc' = "write"
  /\ UNCHANGED <<input, wire, i, env, split, da, result>>

Write ==
  /\ pc = "write"
  /\ wire' = KvEncode(kv)
  /\ pc' = "read"
  /\ kv' = <<>>
  /\ UNCHANGED <<input, i, env, split, da, result>>

-----------------------------------------------------------------------------
\* The privileged half.

\* kv_decode of what privsep_read_kv read; no kv is empty.
Decodes == wire # <<>> /\ KvCheckIntegrity(wire)

Read ==
  /\ pc = "read" /\ Decodes
  /\ kv' = Entries(wire)
  /\ pc' = "received"
  /\ UNCHANGED <<input, wire, i, env, split, da, result>>

ReadFails == pc = "read" /\ ~Decodes /\ Refuse

Names(cmd) == KvHas(kv, <<"cmd">>, "s") /\ KvGet(kv, <<"cmd">>) = <<cmd>>

\* imp_run_privileged: the command is one that is configured.
RunAsked == Names("run") /\ KvHas(kv, <<"command">>, "s")
            /\ KvGet(kv, <<"command">>) = <<"prolog">>

GetRunEnv ==
  /\ pc = "received" /\ RunAsked
  /\ pc' = "split"
  /\ i' = KvNext(kv, 0)
  /\ UNCHANGED <<input, kv, wire, env, split, da, result>>

\* kv_split, one entry at a time.
SplitEnv ==
  /\ pc = "split" /\ i # 0
  /\ env' = IF IsStrictPrefix(EnvPrefix, kv[i].key)
            THEN KvPut(env, Stripped(kv[i].key, EnvPrefix), kv[i].type, kv[i].val)
            ELSE env
  /\ i' = KvNext(kv, i)
  /\ UNCHANGED <<pc, input, kv, wire, split, da, result>>

SplitEnvEnds ==
  /\ pc = "split" /\ i = 0
  /\ split' = env
  /\ pc' = "filter"
  /\ i' = KvNext(env, 0)
  /\ UNCHANGED <<input, kv, wire, env, da, result>>

\* A bug: what is behind a deleted entry is not moved up.
BugFiltered == IF VarAllowed(env[i].key) THEN env ELSE SubSeq(env, 1, i - 1)

\* What is not allowed is deleted, and then the entry that followed it is at i.
Filtered == IF VarAllowed(env[i].key) THEN env ELSE KvDelete(env, env[i].key)

FilterEnv ==
  /\ pc = "filter" /\ i # 0
  /\ env' = Filtered
  /\ i' = KvNext(env', i)
  /\ UNCHANGED <<pc, input, kv, wire, split, da, result>>

FilterEnvEnds ==
  /\ pc = "filter" /\ i = 0
  /\ pc' = "own"
  /\ i' = 1
  /\ UNCHANGED <<input, kv, wire, env, split, da, result>>

\* The variables of the IMP itself: get_run_env puts the first, imp_run the others.
Own == <<Entry(<<"FLUX_OWNER_USERID">>, "i", <<"caller">>),
         Entry(<<"HOME">>, "s", <<"home">>),
         Entry(<<"USER">>, "s", <<"name">>),
         Entry(<<"PATH">>, "s", <<"path">>)>>

PutOwn ==
  /\ pc = "own" /\ i <= Len(Own)
  /\ env' = KvPut(env, Own[i].key, Own[i].type, Own[i].val)
  /\ i' = i + 1
  /\ UNCHANGED <<pc, input, kv, wire, split, da, result>>

\* What a command takes the string of an entry for: the name ends at the first =, which
\* may be one that the key already has.
AsVariable(e) ==
  IF "=" \notin Range(e.key) THEN [name |-> e.key, val |-> e.val]
  ELSE LET n == SelectInSeq(e.key, LAMBDA symbol : symbol = "=")
       IN [name |-> SubSeq(e.key, 1, n - 1),
           val  |-> SubSeq(e.key, n + 1, Len(e.key)) \o <<"=">> \o e.val]

\* kv_expand_environ, and execve.
RunStarts ==
  /\ pc = "own" /\ i > Len(Own)
  /\ result' = [n \in DOMAIN env |-> AsVariable(env[n])]
  /\ pc' = "run"
  /\ UNCHANGED <<input, kv, wire, i, env, split, da>>

\* imp_exec_init_kv, as far as it is about the kv; cgroup_device_apply and, in
\* the job, kv_expand_argv and execvp.
ExecAsked == Names("exec") /\ KvHas(kv, <<"J">>, "s") /\ KvHas(kv, <<"shell_path">>, "s")
             /\ ~DecodeFails(kv)

ExecStarts ==
  /\ pc = "received" /\ ExecAsked
  /\ da' = DeviceDecode(kv)
  /\ LET args == KvSplit(kv, <<"args">>)
     IN result' = [n \in DOMAIN args |-> args[n].val]
  /\ pc' = "exec"
  /\ UNCHANGED <<input, kv, wire, i, env, split>>

ReceivedFails == pc = "received" /\ ~RunAsked /\ ~ExecAsked /\ Refuse

Listen ==
  \/ Popen \/ PopenFails \/ PopenEnds \/ HearInput \/ HearEnd
  \/ CheckInput \/ CheckInputFails \/ WaitForHelper

HelperStep == HelperGoesOn /\ UNCHANGED <<pc, request, data>>

HelperStops == (HelperCloses \/ HelperIsKilled) /\ UNCHANGED <<pc, request, data>>

Over == pc \in {"run", "exec", "refused"} /\ UNCHANGED vars

\* read and waitpid block for as long as there is no helper's step to wake them.
Blocked == pc \in {"hear", "wait"} /\ UNCHANGED vars

Next ==
  \/ PutCommand \/ PutEnv \/ PutEnvEnds \/ Listen \/ HelperStep \/ HelperStops \/ PutExec
  \/ Write \/ Read \/ ReadFails
  \/ GetRunEnv \/ SplitEnv \/ SplitEnvEnds \/ FilterEnv \/ FilterEnvEnds
  \/ PutOwn \/ RunStarts \/ ExecStarts \/ ReceivedFails \/ Blocked \/ Over

\* exec goes on when it can, and so does its helper: that is all another program has
\* to promise.
Fairness == WF_vars(Listen) /\ WF_vars(HelperStep)

Spec == Init /\ [][Next]_vars /\ Fairness

-----------------------------------------------------------------------------
TypeOK ==
  /\ pc \in {"put_run", "put_env", "popen", "close", "hear", "check", "wait", "put_exec",
             "write", "read", "received", "split", "filter", "own", "run", "exec", "refused"}
  /\ \A k \in {kv, env, split} :
       \A n \in DOMAIN k : k[n].key # <<>> /\ k[n].type \in KvTypes
  /\ helper \in {"none", "forked", "runs", "exited", "reaped"}
  /\ Len(pipe) <= PipeSize /\ writers \subseteq {"exec", "helper"}
  /\ pc = "split" => i \in 0..Len(kv)
  /\ pc = "filter" => i \in 0..Len(env)

\* kv_decode accepts what some kv is encoded to and nothing else, though it finds
\* the entries only by walking over them (kv.c:420-478).
Nuls(n) == Cardinality({m \in 1..n : wire[m] = NUL})

IsEncoding ==
  /\ wire # <<>> /\ Last(wire) = NUL
  /\ Nuls(Len(wire)) % 2 = 0
  /\ \A n \in DOMAIN wire :
       wire[n] = NUL /\ Nuls(n) % 2 = 1 =>
         /\ n > 1 /\ wire[n - 1] # NUL
         /\ wire[n + 1] \in KvTypes

DecodeIsExact ==
  pc = "read" => (Decodes <=> IsEncoding) /\ (sender = "child" => Decodes)

\* The operations on the flat buffer are those on the sequence of entries: find,
\* delete, put, encode, and kv_next from a place where an entry has been deleted
\* (kv.c:122-207, 264-280).
Agrees(key) ==
  /\ Entries(BufDelete(wire, key)) = KvDelete(kv, key)
  /\ Entries(BufPut(wire, key, "s", <<"x">>)) = KvPut(kv, key, "s", <<"x">>)
  /\ BufFind(wire, key) =
       IF key \in Keys(kv) THEN Visits(wire)[KvFind(kv, key)] ELSE NULL

AgreesAfterDelete(n) ==
  LET rest == KvDelete(kv, kv[n].key)
      buf  == BufDelete(wire, kv[n].key)
      o    == BufNext(buf, Visits(wire)[n])
  IN IF KvNext(rest, n) = 0 THEN o = NULL ELSE EntryAt(buf, o) = rest[KvNext(rest, n)]

\* kv_split takes out of a kv what kv_join put into it, in the same order; keys that
\* came twice over the pipe are there once (kv.c:503-533).
SplitUndoesJoin(prefix) ==
  LET back == KvSplit(KvJoin(<<>>, kv, prefix), prefix)
  IN /\ UniqueKeys(back)
     /\ Range(back) \subseteq Range(kv)
     /\ UniqueKeys(kv) => back = kv

BufferMeansEntries ==
  pc = "received" =>
    /\ KvEncode(kv) = wire
    /\ \A prefix \in {<<"x">>, <<"args">>} : SplitUndoesJoin(prefix)
    /\ \A key \in Keys(kv) \cup {<<"new">>} : Agrees(key)
    /\ UniqueKeys(kv) => \A n \in DOMAIN kv : AgreesAfterDelete(n)

\* Whatever is in the kv, the command finds the variables that the IMP sets with the
\* values of the IMP, and finds no variable twice.  A key that has a = in it is another
\* matter: its string is one of the variable before the =, and may give that a second
\* time (run.c:137-142, 173-185, kv.c:566).
OwnVarsPrevail ==
  pc = "run" =>
    /\ \A e \in Range(Own) : [name |-> e.key, val |-> e.val] \in Range(result)
    /\ \A m, n \in DOMAIN result :
         /\ "=" \notin Range(env[m].key) \cup Range(env[n].key)
         /\ result[m].name = result[n].name
         => m = n

\* From the code's own child, the command gets exactly the variables of its caller
\* that are allowed, with the last value of each (run.c:113-145, 336-375).
Passed == ({environ[n].name : n \in DOMAIN environ} \ LongNames)
            \cap (IF allowed = Unset THEN {} ELSE allowed \cup JobVars)

LastValue(name) == environ[SelectLastInSeq(environ, LAMBDA v : v.name = name)].val

EnvIsCallers ==
  pc = "run" /\ sender = "child" =>
    {v \in Range(result) : \A e \in Range(Own) : v.name # e.key} =
      {[name |-> <<n>>, val |-> <<LastValue(n)>>] :
         n \in {m \in Passed : \A e \in Range(Own) : <<m>> # e.key}}

\* The filter of get_run_env deletes from the kv it iterates over: even so no entry
\* that is allowed is lost, and none comes up that was not there (run.c:132-135).
AllowedSurvive ==
  pc = "own" /\ i = 1 =>
    /\ Range(env) \subseteq Range(split)
    /\ \A e \in Range(split) : VarAllowed(e.key) => e \in Range(env)

\* The access a policy grants, read off the options themselves.
Matches(spec, req) ==
  \/ /\ spec.kind = "class" /\ spec.type = req.type
     /\ \E l \in Range(ProcDevices) :
          l.type = req.type /\ l.name = spec.name /\ l.major = req.major
  \/ /\ spec.kind = "path" /\ spec.path \in DOMAIN Nodes
     /\ Nodes[spec.path] = [type |-> req.type, major |-> req.major, minor |-> req.minor]

Grants(item, req) ==
  /\ Len(item.access) \in 1..3
  /\ Range(item.access) \subseteq Range(<<"r", "w", "m">>)
  /\ req.access \subseteq Range(item.access)
  /\ Matches(item.spec, req)

Permitted(req) ==
  \/ options.policy = "auto" /\ options.allow = <<>>
  \/ \E item \in Range(options.allow) : Grants(item, req)
  \/ options.policy # "strict" /\ \E item \in Range(Standard) : Grants(item, req)

Majors == {"0"} \cup {Nodes[p].major : p \in DOMAIN Nodes} \cup {l.major : l \in Range(ProcDevices)}

Minors == {"0"} \cup {Nodes[p].minor : p \in DOMAIN Nodes}

Requests == [type : {"b", "c"}, major : Majors, minor : Minors,
             access : SUBSET {"r", "w", "m"} \ {{}}]

\* The program attached to the job's cgroup allows an access if and only if the
\* options of the request grant it: after the list was resolved, encoded, decoded
\* and compiled with its jumps (device.c, cgroup_device.c:123-178).
VerdictIsPolicy ==
  pc = "exec" /\ sender = "child" =>
    LET prog == Program(da)
    IN \A req \in Requests : (da = AllowAll \/ Allows(prog, req)) <=> Permitted(req)

\* A job starts from the whole of a request: the shell gets the arguments that the
\* child was given, in their order, and the helper that brought the rest had said
\* all of it, nothing else, and then succeeded (exec.c:186-244, 368-405).
HelperWasHeard ==
  pc = "exec" /\ helper # "none" =>
    helper = "reaped" /\ status = 0 /\ heard = Whole /\ unsaid = <<>> /\ pipe = <<>>

RequestIsWhole ==
  /\ pc = "exec" /\ sender = "child" => result = [n \in DOMAIN argv |-> <<argv[n]>>]
  /\ HelperWasHeard

\* Whatever the helper says and however it ends, exec takes its input or refuses it:
\* it does not wait for an end of file that it keeps from itself, nor for the exit of
\* a helper that waits for a reader (safe_popen.c:104-112, exec.c:396-398).
InputIsDecided == pc = "popen" ~> pc \in {"put_exec", "refused"}

\* What the filter is for: the variables of the caller that go on to the command are
\* those that allowed-environment allows (run.c:26, kv.h:118).
OnlyAllowedRemain == pc = "own" /\ i = 1 => \A e \in Range(env) : VarAllowed(e.key)
=============================================================================
