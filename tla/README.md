# flux-security in TLA+

A verification development of flux-security: the setuid program `flux-imp`, with
which a Flux instance starts work as another user, and the library that signs and
verifies the requests it acts on. It holds TLA+ models translated from the C code,
TLC runs on small instances, and TLAPS proofs for every instance.

## Inventory

| Part | State it keeps | Operations | Interacts with |
|---|---|---|---|
| **Privilege separation** `imp/privsep.c`, `imp/imp.c`, `imp/impcmd*.c` | two pipes, `cpid`, the copies of descriptors in two processes, the command table | `privsep_init`, `drop_privileges`, wakeup, `privsep_write_kv`, `privsep_read_kv`, `privsep_wait`, `imp_child`, `imp_parent`, `main` | both halves of every command |
| **Job monitor** `imp/signals.c`, `imp/cgroup.c`, `imp/pidinfo.c`, tails of `exec.c`, `run.c` | signal mask and handlers, `imp_child`, the cgroup | `imp_sigblock_all`, `imp_setup_signal_forwarding`, `fwd_signal`, `cgroup_kill`, `pid_kill_children`, `cgroup_wait_for_empty`, `imp_raise` | kernel signals, the job's processes, whoever signals the IMP |
| **exec** `imp/exec/exec.c`, `user.c`, `pam.c` | the request J, shell, arguments, PAM session | unprivileged and privileged half | signing library, privsep, device policy, job monitor |
| **run** `imp/run.c` | the `[run.*]` table, filtered environment | unprivileged and privileged half | privsep, configuration, job monitor |
| **casign**, **whoami**, **version** | a certificate on its way to the CA | both halves | privsep, CA |
| **Device containment** `imp/exec/device.c`, `imp/cgroup_device.c` | the allow list, the BPF program of a cgroup | parse, encode, decode, `bpf_prog_build`, `cgroup_device_apply` | exec, kernel |
| **Signing library** `lib/sign*.c`, `lib/context.c` | security context, cached mechanism state and certificates | configure, wrap, unwrap with mechanisms none, munge, curve | CA, configuration, exec |
| **Certificates and CA** `libca/` | key pairs, signatures, certificate and revocation files | keygen, sign, revoke, verify, store, load | signing library, casign |
| **kv** `libutil/kv.c` | one buffer of typed entries | put, get, delete, iterate, encode, decode, join, split | everything that crosses the pipe |
| **Configuration and paths** `libutil/cf.c`, `path.c` | merged tables | load, glob, check permissions | every command |
| **aux**, **hash** `libutil/aux.c` | lists of owned items | set, get, destroy | security context |
| **Helper process** `safe_popen.c` | a process, a pipe and who has its write end, a status | start, read, wait | exec's unprivileged half |
| **Start-up and lookups** `passwd.c`, `sudosim.c`, `testconfig.c` | none that lasts | look up a user | every command |
| Logging, notification, formats, digests | none the program depends on | | |

What makes them hard: the IMP is two processes joined by two pipes, either of which
can die at any step; a third party can signal it at any instruction; the job's
processes fork and die while the IMP enumerates them; requests and permissions lapse
between the check an unprivileged process makes and the one root makes; and what root
does is spread over several files whose order matters. `PROJECT.json` lists each
hazard at its line.

What makes each part correct:

- privilege separation: root acts only on what it has checked itself, no job starts
  for a child that failed, no process is left waiting, the exit status is honest;
- job monitor: the IMP ends after the job and as the job did, passes on signals,
  kills all it found, and ends;
- exec and run: no process of a job exists outside its containment;
- device policy: the BPF program permits exactly what the allow list permits;
- signing: what unwraps was wrapped by its user under an allowed mechanism, with a
  certificate the CA signed, in its time, and not revoked;
- kv, configuration: decoding inverts encoding; iteration visits each entry once;
  permissions are checked on every file that is read.

## Modules

| Module | What it is |
|---|---|
| `Privsep` | privilege separation: both processes, step by step |
| `PrivsepProofs` | its invariants proved |
| `JobMonitor` | the IMP from `imp_sigblock_all` to its end, with the job and the kernel's signals |
| `JobMonitorProofs` | its invariants proved |
| `ImpContract` | what the IMP promises, with no processes, pipes or signals |
| `Imp` | `Privsep` and `JobMonitor` composed with PAM and device policy; implements `ImpContract` |
| `ImpProofs` | containment, the PAM session and the refinement proved |
| `Ca` | the certificate authority: its certificate, those it signs and revokes, users' homes |
| `Sign` | users who wrap messages and a verifier that unwraps them, on top of `Ca` |
| `SignProofs` | its invariant and properties proved |
| `Kv` | a kv as a sequence of entries, with the operations on it |
| `KvBuffer` | a kv as the buffer it is, walked symbol by symbol |
| `DataProofs` | what the operations of `Kv`, `KvBuffer` and the codec do for every input, and that `KvBuffer` implements `Kv` |
| `Device` | device options, allow list, its encoding, and the BPF program with a machine to run it |
| `Helper` | a process that tells exec its input, and their pipe |
| `Transfer` | a request on its way from the helper and the unprivileged half to the command or job; composes `Kv`, `KvBuffer`, `Device`, `Helper` |
| `TransferProofs` | what command, job and device policy get, proved to be what was sent, found allowed, or refused |
| `Cf` | configuration tables: update, glob, checks of options and of paths |
| `SecContext` | the life of a security context, its memory and what calls to wrap and unwrap keep in it; uses `Cf` |
| `SecContextProofs` | types, memory, results and configuration proved |
| `Sigcert` | certificates in memory, in a header and in their two files; uses `Kv` |
| `SigcertProofs` | types, the ownership of cached encodings, headers and loads proved |
| `MC...` | instances for TLC |

A definition whose name begins with `Bug` is not part of a model: it is a definition
of the model with one plausible mistake, kept to show that a property would notice.

### Privsep

`ppc` and `cpc` are the places of the privileged parent and the unprivileged child;
each action is a function of `privsep.c`, or a stretch of `imp_parent`, `imp_child`
or a privileged half between two waits. `fds` holds the pipe ends that each process
has open, because end of file and SIGPIPE depend on who else holds the other end.
A `struct kv` is a number of pieces: piece 0 is the length, which both sides compare
with `PRIVSEP_MAX_KVLEN`, and the rest is the body. `write(2)` blocks when `PipeCap`
pieces are unread.

A request is the set `facts` of what is true of it: `"signature"` stands for a J
that unwraps, `"user"` for an allowed requester, `"account"` for a J whose user has
an account, `"devices"` for a well-formed allow list, `"notroot"`, `"shell"`, `"path"`,
`"configured"`, `"input"`, `"argv"` and `"ca"` for the other checks. Each half of a
command compares `facts` with what it checks, when it gets there, and `Expire`
takes away a signature or a path's permissions meanwhile. `seen` is history: what
held when root checked.

The order differs between commands, as in the code: exec checks and then waits
for its child, run waits first, casign and whoami act before the child is collected
and leave that to `main`. For casign and whoami a child that dies after its kv is
complete is noticed only in the exit status (`ExitTellsOfChild`).

### JobMonitor

`mpc` is the place of the IMP's main flow, which is that of `imp_exec_privileged` or
`imp_run` from `imp_sigblock_all` on. Main steps happen only when no handler runs and
no signal is due. `pend` and `mask` are the IMP's; `ForwardSignal` and `BeginKill`
are `fwd_signal`; the SIGUSR1 handler's loop over pids is several steps, between
which processes fork and die and other handlers run. `kst` follows the child that
the IMP forks: born with everything blocked, open once it has called
`imp_sigunblock_all`, then the job, a zombie, reaped. `Desc` are its descendants.
`target` is `imp_child`: a pid in exec, a process group in run that is empty
until the child has called `setpgrp`. `useCgroupKill` is
`cgroup->use_cgroup_kill`, fixed when the IMP starts.

`failed` is history: which calls of the kernel the IMP has seen fail. `cgroup_kill`
returns -1 when it cannot open `cgroup.procs`; then SIGUSR1 falls back on
`pid_kill_children`, and `cgroup_wait_for_empty` takes the -1 for an empty cgroup and
ends at once, with processes of the job still running. A `waitpid` that fails other than
by EINTR makes the IMP exit with 1 while the job may live. `OutlivesJob` and `PamSpansJob`
say what holds as long as that has not happened, `MirrorsJob` says what the exit code is
if it has.

### Imp

`Decide` takes a step of `Privsep`, `PamSetup` and `CgroupDeviceApply` are what
`imp_exec_privileged` does between its last check and the monitor, and `Watch`
takes a step of `JobMonitor`. A failure in between is fatal and leaves what was
set up as it is. The refinement mapping to `ImpContract` reads the phase of a
request off both halves: approved when everything required has been seen by root,
running from fork to the death of the job's first process. `known` is the contract's
word for an IMP that has not lost track of the job: its action `Lose` is a `waitpid` that
fails. `JobIsContained` asks exec for the device policy and, where PAM is built in, for
an open session as long as the job's first process lives; `PamSpansJob` adds the processes
that one leaves behind.

### Ca and Sign

`Ca` holds files that outlive every process: the CA's certificate (`caFile`), the
revocation directory and users' homes; `issued` records every certificate the CA has
signed. Signing gives a certificate a new uuid each time (`sign_with`), so revoking
one leaves others of the same key good. `now` is a clock that any step may find
advanced.

`Sign` adds messages and one verifier. `Unwrap` is `sign_unwrap` up to the mechanism's
`verify`; the `op_verify` of each mechanism is a `Verify` action, that of curve two,
because it reads files between its checks and the clock moves meanwhile. `began` is
the `now` that `op_verify` reads first; `ca_verify` and `VerifyMunge` read the clock
for themselves. `caCached` is `sc->ca`, which lives as long as the context. A signer
keeps the certificate it loads first as well, so `Wrap` uses any certificate the user
has had. An accepting step is `VerifyNone`, `VerifyMunge` or `VerifyTimes`, and the
properties say what such a step may do; those about CAs hold under `require-ca`.

What cryptography gives is what `signer` and `fits` show of a signature or credential:
whose key or process made it, and whether for this header and payload. `Compose` puts a
message together without the library: any certificate ever signed, or one of the user's
own making, any userid, and either the user's own signature or one that somebody else made
for something else (a header altered afterwards, or a signature cut out of another
message). `SignatureFits` is `sigcert_verify_detached`, `msg.fits` in `VerifyMunge` the
comparison of hashes, and `AuthorIsClaimed` says that with what the other checks compare
they tell who put the message together. A message that is presented again as it is counts
as its author's. `maxSignTtl` is a certificate's own limit. Users are assumed to have only
their own keys certified and to put only their own certificates in their homes; the code
cannot tell if a user vouches for another's key.

`check_revocation` takes every failure of `access(2)`, not only ENOENT, for "not revoked".
`CaVerify` has that as its parameter `unreadable`, and `blind` notes it, since
`RevokedIsRefused` holds only of a verifier that can look into `revoke-dir`.

`ca_verify` does not look at the lifetime of the CA's own certificate, so `Ca` gives
it none. `NOVERIFY` unwraps promise nothing and are left out.

### Kv, KvBuffer and Transfer

`Kv` says what the operations of `kv.c` do to a sequence of entries: a put replaces
(deletes, then appends), a split keeps what has the prefix and strips it. `KvBuffer`
says what they do to the buffer: an entry is a key, NUL, a type, a value, NUL, and
`kv_find`, `kv_delete`, `kv_put_raw`, `kv_next` and `kv_check_integrity` find their
way by `entry_length` alone. `BufferMeansEntries` relates the two for what `Transfer`
receives, `DecodeIsExact` says which buffers pass as a kv.

`Transfer` follows one request: the variables of the caller's environment, or the
arguments and device list of exec, are put in a kv (`PutEnv`, `PutExec`), written as a
buffer, read and checked, and become the environment of the command (`SplitEnv`,
`FilterEnv`, `PutOwn`, `RunStarts`) or the arguments and device policy of the job
(`ExecStarts`). Loops are one action per turn, with the loop's variable in `i`, since
the filter deletes entries from what it iterates over. `sender = "other"` stands for
a buffer that the code of the child did not write. Names and values are symbols; a
key is a sequence of them, so that prefixes can be put on and taken off. The environment of
a command is strings: `AsVariable` is what `"%s=%s"` makes of an entry, whose name ends at
the first `=`. A key with an `=` in it passes as a kv, so that a kv which the child's code
did not write can give the command a second `PATH`; `OwnVarsPrevail` says that the IMP's own
are there whatever comes, and that no name is there twice if no key has an `=`.

`get_run_env` deletes the entry its iteration stands on, which `kv.h` forbids, and so passes
over the one behind. `AllowedSurvive` says that this loses nothing that is allowed and adds
nothing; that all which is not allowed goes is false, and the run `filter_leaks` shows it.
`EnvIsCallers` is not touched: the child's own code filters before it sends, so that the
privileged half has nothing to delete.

Without `allowed-environment` the child sends no variable at all (`run.c:389`), while the
man page (`flux-config-security-imp.rst:93`) has `FLUX_JOB_ID` and `FLUX_JOB_USERID` passed
by default. That follows from one condition and needs no run.

### Helper

With `FLUX_IMP_EXEC_HELPER` the input of exec comes from a process that the
unprivileged half starts with `safe_popen`. `writers` is who holds the write end of the
pipe: reading ends when it is empty. An input is an object in two parts; a helper may
write any other sequence of parts, close its output, fail to start, exit with 0 or not,
or be killed. exec reads to the end of the file, checks what it has read and only then
waits (`HearInput`, `HearEnd`, `CheckInput`, `WaitForHelper` in `Transfer`).
`InputIsDecided` says that exec does not hang on any helper that goes on by itself,
`RequestIsWhole` that nothing of a helper that failed reaches a job. The read end, which
the helper has too, is not in the state: exec can refuse and leave while the
helper is writing, and then the helper, its own reader, is not told but blocks once the
pipe is full. No comment promises otherwise. `safe_popen.h` speaks of exit code 125
for errors before exec; the code has 126 for those too, and exec treats both alike.

### Device

`DeviceAllow` is what `device_allow_from_options` makes of policy and list, with
`/proc/devices` and special files as constants. `Program` is `bpf_prog_build`, one
instruction for one, and `Execute` runs it: loads, moves, shifts, masks, and jumps
that are relative as in the code. A word of the machine is the set of its bits, so
that masks are intersections and a shift subtracts; majors and minors, which are only
compared, are symbols. `VerdictIsPolicy` goes from the options to the
verdict through encoding, decoding and program, for every request that differs in
type, major, minor or access.

### Cf and SecContext

`Cf` has the tables of `cf.c`, `UpdateGlob` for what `cf_update_glob` makes of the
files that glob finds, and the policy of `path.c`, which the tables read so far can turn
off.

In `SecContext` a call to wrap or unwrap is a sequence of steps; `pc` names the next
one. `heap` and `configs` are what is allocated, `aux` is the list, `signCf` and
`curveCf` are pointers into a configuration. `ConfigsRead` and `StateUsed` say what
the next step dereferences. If that is not allocated (`~Sound`), the behaviour is undefined:
the step may find any value there (`Read`) and go on with it, or the program ends
(`TouchFreed`). So no property here says that what is unwrapped is allowed by the
configuration in force: after a replacement it need not be.
`buf` are the two buffers that grow and move, `given` is what callers were told.
Two things can go wrong in this code, and `MemoryIsSound` names both: configuring a
context again after it has signed leaves `sign->config` pointing into a table that
was freed (`Reconfigured`), and a failing `op_init` of munge leaves freed state in the
list (`MungeDangles`). The property says that nothing else does.

### Sigcert

`mem` are certificates in memory, each with its metadata and a cached encoding
(`enc`); a copy takes the pointer along, so a certificate that was encoded and then
copied frees its encoding twice, which `shared` notes (in this
repository only `ca_set_cert` copies one, and only tests call that). `header` is a message header; `storer` is a `sigcert_store`
in progress, whose public and secret files are each cut off where `Crash` or
`StoreFails` finds them; `loader` is another process that reads the two files at
different times. What a value looks like after it has been written and parsed is
modelled by what it does to quotes and backslashes (`ReadBack`). A double is rounded to
six decimals where it is put into the metadata (`kv.c:225`), and `%f`, which the file is
written with, has the same six, so that it is read back as it was.
`EncodingsAreOwned` says what holds until a certificate that was encoded is copied, and
`LoadedIsStored` what holds of a signed certificate, and of two keys if no store was cut
short; a public and a secret key from different stores can be loaded after a crash.

## Runs

| Run | States | Shows |
|---|---|---|
| `privsep` | 3,912 | six properties of `Privsep`, two of them liveness |
| `job_monitor` | 213,606 | seven properties of `JobMonitor`, two of them liveness |
| `imp` | 31,624 | containment, PAM session and the refinement of `ImpContract` |
| `sign` | 3,060,198 | five properties of `Sign`, with the CA required or certificates in homes, and messages composed with others' |
| `transfer` | 60,312 | nine properties of what helper and pipe bring, one of them liveness |
| `context` | 2,123,814 | four properties of a security context |
| `sigcert` | 2,263,487 | four properties of certificates |
| `raise_hangs` | | violation: the IMP can stay in `pause` for ever |
| `run_loses_signal` | | violation: run forwards to a group that does not exist yet |
| `cgroup_not_empty` | | violation: the IMP can leave while its cgroup is not empty |
| `filter_leaks` | | violation: a variable right behind one that the filter deletes stays |
| `munge_init_dangles` | | violation: a failed `op_init` of munge leaves freed state in the context |

Bounds, and why they are enough:

- `MaxLen = 2`, `PipeCap = 1` (`privsep`): a length piece and two of the body, or
  one too many; the child can die before, between and after pieces, and every write
  but the first can block. In `imp` the body is one piece, since the transfer
  matters there only as a whole.
- `MaxMissing = 1`: a request lacks at most one of the facts checked at first (the
  checks are conjunctions, so one missing fact shows each refusal); `Expire` may take
  away two more.
- `Sigs`: one forwarded signal (TERM), SIGUSR1, one that stays blocked (SEGV) and
  KILL, which cannot be blocked; each other signal behaves as one of these, except
  the harmless ones, which only do less.
- `Desc`: two descendants, so that one can fork another while pids are enumerated
  and the last probe can differ from the first. Each runs once.
- `MaxSends = 2`: a signal can arrive while another is handled.
- `sign`: a clock of three ticks, with every limit shorter; two users, one of whom
  runs the verifier and has no certificate at home; two CA certificates, so that a CA can be replaced; one uuid, so
  that a certificate can be signed, revoked and not signed again. The verifier may be
  configured anew, with or without `require-ca`. One message is wrapped and presented
  any number of times: the verifier keeps nothing of a message it is done with but the
  CA it has loaded. A certificate's own limit on age is 0, shorter than the verifier's (1),
  or 2, longer; signers ask for 2, and signers' clocks may be one tick ahead.
- `transfer`: every environment of up to three variables over five names and two
  values, so that a name can come twice and an allowed one lie behind a forbidden one;
  every list of up to two device items, of each kind and with each error; every kv of
  up to three extra entries put together by other code, with a key that has an `=`; every buffer of up to eight
  symbols, which is two entries and two symbols; helpers that write up to four parts of
  input, twice a whole one, through a pipe that holds one, with options that are good or
  malformed. `MaxEntries` is 4, fewer than two
  classes of two majors and a standard device need.
- `context`: two configurations and two calls, so that state made by the first call
  under the first configuration meets the second; eight globs, among them files that
  fail to parse, are replaceable by others, or turn the check off before or after they
  are needed; two data and one name of the program's own.
- `sigcert`: two certificates and two key pairs; three edits are enough to set metadata,
  sign, and set it again; two stores or encodings, so that a second store can run into
  the files of a first; one load.

The five violations are disagreements of code with a comment or document, described
under `findings`. What does hold beside each: `EndsAfterJob` for statuses that can be
raised, `ExecLosesNoSignal` for exec, `OutlivesJob` for what ran when the job was
reaped, `AllowedSurvive` and `EnvIsCallers` for the environment, `MemoryIsSound` for
memory.

### Fairness and deadlock

Weak fairness of the child's and the parent's steps in `Privsep`; in `JobMonitor` of
the main flow, of signal delivery and handlers, and of the forked child up to its
exec. That is the kernel's scheduling of runnable processes and nothing else:
nothing makes a job end, a process fork, anyone send a signal, a check lapse or a
process be killed. Weak fairness of the disjunction is enough because each process
is at one place at a time. In `Transfer`, of exec while it listens to its helper, and
of the helper's own steps up to its exit: that one is a promise of another program,
without which exec waits for it. In the rest of `Transfer` and in the other modules
programs do one thing after another, nothing waits, and no fairness is assumed.

In `MCJobMonitor` and `MCImp` the system may really stop (the IMP waiting in `pause`);
in `MCSecContext` it stops when the context is gone or a fault has happened, and in
`MCSigcert` when the bounds are used up. Those runs do not check for deadlock; the
other passing runs do. In `Transfer` a `read` or `waitpid` that blocks is a step
without effect (`Blocked`), so that it is `InputIsDecided` that finds one that blocks for
ever.

## Proofs

Everything is proved for every value of the constants, under the named assumptions
of the modules only: every `MaxLen` and `PipeCap`, every set of signals,
self-inflicted signals and descendants and every number of signals sent; any users,
CAs, uuids, messages and limits; any configurations, sizes and number of calls; any
number of certificates; any environments, inputs, patterns, device policies and
buffers. Every invariant that a run checks is a theorem.

The assumptions about data are what the code's types and its callers give:

- `StringsAssumption` (`Transfer`): NUL is in no name, value or argument and is no
  numeral, since those are C strings; the names of `environ` have no `=`, at which they end; a list of arguments is not empty, as exec
  refuses one that is, and never so long that there is no numeral to count it.
- `DeviceAssumption`, `DevicesAssumption`: different numbers have different numerals,
  none of which is the word `count`; NUL is not part of what `/proc/devices` and special
  files say; a special file is a block or a character device with the numbers of its
  `st_rdev`, none of which is the wildcard -1; a class has one of the two prefixes;
  a policy that parses is a list of items, NULL is not a list of entries, and there are
  numerals for the entries.
- `HelperAssumption`: a pipe holds something. A whole input has two parts.
- `FilesAssumption` (`SecContext`): what a file that parses holds is a table.
- `MetadataAssumption` (`Sigcert`): metadata has a type that kv has and a key that is
  not empty, since `kv_put` refuses an empty key.

`PrivsepProofs`: the invariants are not inductive. `IInv` adds which descriptors
each process holds at each place and who exists (`ChildTracked`), that what was
read was written and nothing beyond `len + 1` is (`PipesTracked`), that the parent
does not pass the read before the kv is complete (`HalvesOrdered`), and that checks
precede work in the order of each command (`ChecksDone`). `RequiredAreChecked` is
where the claim about the code lies: what authorisation requires is among what the
privileged half checks itself.

`JobMonitorProofs`: `IInv` adds where the IMP can be for each state of its child
(`FlowInv`), what is blocked and what `imp_child` is at each place (`MaskInv`), that
processes SIGUSR1 found and that still run are in the list left to kill (`KillInv`),
and that processes alive at the reap are in the list left to probe unless a probe
has already succeeded (`DrainInv`). `StrikeEffect` says what one `kill(2)` can do
to the job. `NextIInv` has one lemma per group of actions.

`ImpProofs` proves the composition from the parts. Each step of `Imp` is a step of
at most one of them and leaves the other's variables alone, so the invariants of both
carry over by `PrivsepProofs` and `JobMonitorProofs`, used as `PS!` and `JM!`. What
the parts cannot say by themselves is in two more invariants: `HandOver`, that the
monitor has not begun before the parent has handed over, with its checks done and its
child collected, and `SessionInv`, that PAM session and device policy are there from
then on until the tail of the monitor. With them every step of `Privsep` is a step of
`ImpContract` or changes nothing it sees, and so is every step of `JobMonitor`;
`Implementation` puts these together.

`SignProofs`: `IInv` adds that what the CA signs names its holder and homes hold their
owners' certificates (`CertInv`), that a message carries a signature of its author if
it fits, no certificate of a CA's that was not issued, and is as old as it says but for the
skew (`MsgInv`), that the verifier's memory of
earlier is still true (`KeptInv`), and what the first half of `op_verify` has
established for the second to rely on while files change (`CertChecked`). All four
action properties follow from it.

`SecContextProofs` has two inductive invariants. `IInv` says that a call under way
writes to one buffer only, of which its caller holds nothing since the call began
(`BufInv`). `MemInv` is
`MemoryIsSound` without its condition: of every name one item, curve before sign
(`ListInv`); everything in the list but munge is allocated and nothing else is
(`HeapInv`); pointers are into a configuration that was in force (`ConfInv`); a
call uses what it has found in the list (`UseInv`); a fault implies one of
the two causes (`FaultInv`). The lemmas `InsertedList`, `DeletedList` and `TailOfList`
say what the operations of `aux.c` do to a list, so that `HeapStep` is about sets.

`FilesInv`, that what is in force was read from the files that the pattern found
and is what they say when read in order, gives `ConfigFollowsFiles` with the lemma
that nobody but root and the user can change a file that passed the check of paths.

`SigcertProofs`: `IInv` says that as long as no encoded certificate has been copied,
the encodings that certificates point to are exactly those allocated, and differ.
`FInv` is about what leaves memory: a header is made of the certificate that was sent
(`HeaderInv`); a file is a beginning of what one store was writing, and both are from
the same one if none was begun since (`StoreInv`); and a loader that reads while
nothing is stored gets the certificate that was (`LoadInv`). From these follow
`HeadersKeepCerts` and `LoadedAreStored`.

`DataProofs` is about operators, for inputs of any length. The provers cannot
instantiate the library's induction theorems, so induction is done by hand: a
set takes the place of the predicate, and the least number outside it is the
contradiction. The existence of each recursive function that a walk or a loop uses is
proved in the same way and from there its defining equation is a lemma. In order:

- what repeated puts leave in a kv: `kv_split` gives back what `kv_join` put in, and
  a list put under its numerals comes back in order (`SplitOfJoin`);
- decoding inverts encoding (`DecodedIsEncoded`);
- a walk by `entry_length` never leaves a buffer, whatever is in it
  (`VisitsStayInside`), and the check of a received buffer passes exactly those
  that a kv could be encoded to (`IntegrityIsExact`), so that encoding inverts decoding
  (`EncodedIsDecoded`);
- find, delete, put and next on a buffer that encodes a kv do to it what the
  operations of `Kv` do to the kv, `kv_next` from where an entry was deleted
  included (`BufferImplementsKv`). `Holds` says where in the buffer each entry
  lies; the lemma that carries the rest is that walking finds an entry at its own
  place and not inside another's value (`FoundIs`).

`TransferProofs`: the invariants, from the input to the job. `HelperInv` and `PcInv`:
a helper that can write no more has said all or did not end well, and exec has left
the pipe only when it was empty for good (`HelpersAreHeard`). `InputInv` and
`CarryInv`: what exec has of the input, and that what it sends is a whole one
(`RequestsAreWhole`). `RunInv`: where each loop of run is in what it goes through
(`SplitInv` for the prefixes, `OwnInv` for the program's own variables); the filter is
the delicate one, because it deletes the entry its iterator stands on
(`FilterKeepsAllowed`, `OwnVariablesPrevail`, `CallersVariablesArrive`). A key
without an `=` is the name of its variable (`PlainVariable`), which gives the last two. `TypeInv`: the
types (`TypeCorrect`). `ReceivedInv`: what the parent has read is the encoding of
entries or is refused (`DecodingIsExact`, `BuffersMeanEntries`).

From options to verdict (`VerdictsFollowPolicy`) takes three steps. `DeviceInv`: the list
of devices that arrives is the one that was resolved (`DevicesArrive`: it lies behind the
other entries, each device under its numeral). `ProgramAllows`: a program allows what one
of its entries fits. One lemma for each instruction says where the machine goes next (`Proceeds`,
`JumpTaken`, `JumpPassed`, `Exits`); `EntryRuns` follows the block of one entry, which
returns 1 if the entry fits and otherwise comes to the first instruction of the next,
whether it has a minor or not; then induction over the entries, with the number of
steps bounded by the length since jumps only go forward. `ListFits`: the entries made of
a list of items let through what the items grant.

Only model-checked: `ParentTerminates`, `ChildTerminates`, `EndsAfterJob`,
`ForwardedAreTaken` and `InputIsDecided`. They are liveness: they need fairness, hence
ENABLED, which the provers do not handle.

## Not modelled, and why

- SIGKILL sent to the IMP itself, which nothing can handle; stop and continue of
  processes; reuse of pids; async-signal-safety inside a handler.
- HUP and other signals set to ignore by whoever started the IMP: `imp_sigunblock_all`
  resets them in the child, and the parent installs handlers for those it forwards.
- The child of `Privsep` sends what the code of its half sends; the parent's own
  checks do not depend on it. What a kv holds is `Transfer`'s subject.
- A setuid IMP only: the unprivileged modes (`allow-unprivileged-exec`, sudo
  simulation in tests) are left out, and so is logging.
- Allocation failures: in every function they end in an error return, and a model of
  each would have as many steps as the code has calls.
- Error messages: `security_error` and `errno`. (`flux_security_aux_get` sets the
  context's error also where its caller takes a missing item for the normal case.)
- Users are assumed to have only their own keys certified, and signatures to be made
  by whoever holds the key: cryptography and base64 are what they promise to be.
- A helper that never ends, or leaves its output open in another process: exec waits
  for it, and nothing in the code limits that. `initgroups` and the databases behind
  `getpwuid`.
- How cgroup.c finds the cgroup of the process: only its result is (`useCgroupKill`).
- Reading TOML, timestamps, SHA-256 and hash tables: vendored code or pure
  conversions; a file is a table or does not parse.

## Done, and what could follow

The plan was: privilege separation, job monitor and their composition; the CA and
signed messages; the life of a security context; device policy; kv, configuration;
then proofs. All of it is done. What could follow:

1. `SignContract`, an abstract authentication service that `Sign` implements, as
   `ImpContract` is for `Imp`;
2. the helper of exec as a third process of `Privsep`, which would show the privileged
   half waiting for a child that waits for its helper.
