--------------------------- MODULE TransferProofs ---------------------------
(* What a job starts from is all that its helper had to say; what arrives   *)
(* of a request is what its caller asked for, and no variable of a command  *)
(* takes the place of one of the IMP: for every helper, every size of the   *)
(* pipe, and all arguments, devices and environments.                       *)
EXTENDS Transfer, DataProofs

\* Where a request is once its input has been taken.
Taken == {"put_exec", "write", "read", "received", "split", "filter", "own", "run", "exec"}

Listening == {"close", "hear", "check", "wait"}

\* A helper that can write no more has nothing left to say, or did not end well.
HelperInv ==
  /\ helper \in {"none", "forked", "runs", "exited", "reaped"}
  /\ helper = "forked" => "helper" \in writers
  /\ helper = "runs" /\ "helper" \notin writers => unsaid = <<>>
  /\ helper \in {"exited", "reaped"} /\ status = 0 => unsaid = <<>>

PcInv ==
  /\ pc \in {"put_run", "put_env", "popen", "refused"} \cup Listening \cup Taken
  /\ pc \in {"put_run", "put_env", "popen"} => helper = "none"
  /\ pc \in {"close", "hear", "wait"} => helper \in {"forked", "runs", "exited"}
  /\ helper # "none" /\ pc = "check" => helper \in {"forked", "runs", "exited"}
  /\ helper # "none" /\ pc \in {"check", "wait"} =>
       heard = Whole /\ pipe = <<>> /\ writers = {}
  /\ helper # "none" /\ pc \in Taken =>
       helper = "reaped" /\ status = 0 /\ heard = Whole /\ unsaid = <<>> /\ pipe = <<>>

IInv == HelperInv /\ PcInv

-----------------------------------------------------------------------------
LEMMA InitIInv == Init => IInv
  BY DEF Init, IInv, HelperInv, PcInv, NoHelper, HelperToCome, Listening, Taken

\* The helper goes on or ends.
LEMMA HelperStepIInv == IInv /\ (HelperStep \/ HelperStops) => IInv'
<1> SUFFICES ASSUME IInv, HelperStep \/ HelperStops PROVE IInv'
  OBVIOUS
<1> USE DEF IInv, HelperInv, PcInv, Ends, Listening, Taken
<1>1. UNCHANGED pc /\ (HelperGoesOn \/ HelperCloses \/ HelperIsKilled)
  BY DEF HelperStep, HelperStops
<1>2. CASE HelperExec
  BY <1>1, <1>2 DEF HelperExec
<1>3. CASE HelperExecFails
  BY <1>1, <1>3 DEF HelperExecFails
<1>4. CASE HelperWrites
  BY <1>1, <1>4 DEF HelperWrites
<1>5. CASE HelperExits
  BY <1>1, <1>5 DEF HelperExits
<1>6. CASE HelperCloses
  BY <1>1, <1>6 DEF HelperCloses
<1>7. CASE HelperIsKilled
  BY <1>1, <1>7 DEF HelperIsKilled
<1> QED
  BY <1>1, <1>2, <1>3, <1>4, <1>5, <1>6, <1>7 DEF HelperGoesOn

\* What exec does up to where it has taken its input.
LEMMA ListenIInv == IInv /\ Listen => IInv'
<1> SUFFICES ASSUME IInv, Listen PROVE IInv'
  OBVIOUS
<1> USE DEF IInv, HelperInv, PcInv, Listening, Taken
<1>1. CASE Popen
  BY <1>1 DEF Popen, Fork
<1>2. CASE PopenFails \/ CheckInputFails
  BY <1>2 DEF PopenFails, CheckInputFails, Refuse, input, helperVars
<1>3. CASE PopenEnds
  BY <1>3 DEF PopenEnds, CloseWriteEnd
<1>4. CASE HearInput
  BY <1>4 DEF HearInput, Hear
<1>5. CASE HearEnd
  BY <1>5 DEF HearEnd, EndOfFile, input, helperVars
<1>6. CASE CheckInput
  BY <1>6 DEF CheckInput, input, helperVars
<1>7. CASE WaitForHelper
  BY <1>7 DEF WaitForHelper, Reap, Succeeded
<1> QED
  BY <1>1, <1>2, <1>3, <1>4, <1>5, <1>6, <1>7 DEF Listen

\* Everything else leaves the helper alone.
LEMMA RestIInv ==
  ASSUME IInv, UNCHANGED input,
         \/ pc' = pc \/ pc' = "refused"
         \/ pc \in Taken /\ pc' \in Taken
         \/ pc \in {"put_run", "put_env"} /\ pc' \in {"put_env"} \cup Taken
  PROVE  IInv'
BY DEF IInv, HelperInv, PcInv, Listening, Taken, input, helperVars

LEMMA NextIInv == IInv /\ [Next]_vars => IInv'
<1> SUFFICES ASSUME IInv, [Next]_vars PROVE IInv'
  OBVIOUS
<1>1. CASE PutCommand \/ PutEnv \/ PutEnvEnds
  <2>1. UNCHANGED input /\ (pc' = pc \/ (pc \in {"put_run", "put_env"} /\ pc' \in {"put_env"} \cup Taken))
    BY <1>1 DEF PutCommand, PutEnv, PutEnvEnds, Taken
  <2> QED
    BY <2>1, RestIInv
<1>2. CASE PutExec \/ Write \/ Read \/ ReadFails
  <2>1. UNCHANGED input /\ (pc' = "refused" \/ (pc \in Taken /\ pc' \in Taken))
    BY <1>2 DEF PutExec, Write, Read, ReadFails, Refuse, Taken
  <2> QED
    BY <2>1, RestIInv
<1>3. CASE GetRunEnv \/ SplitEnv \/ SplitEnvEnds \/ FilterEnv \/ FilterEnvEnds
  <2>1. UNCHANGED input /\ (pc' = pc \/ (pc \in Taken /\ pc' \in Taken))
    BY <1>3 DEF GetRunEnv, SplitEnv, SplitEnvEnds, FilterEnv, FilterEnvEnds, Taken
  <2> QED
    BY <2>1, RestIInv
<1>4. CASE PutOwn \/ RunStarts \/ ExecStarts \/ ReceivedFails
  <2>1. CASE PutOwn
    <3>1. UNCHANGED input /\ pc' = pc
      BY <2>1 DEF PutOwn
    <3> QED
      BY <3>1, RestIInv
  <2>2. CASE RunStarts
    <3>1. UNCHANGED input /\ pc \in Taken /\ pc' \in Taken
      BY <2>2 DEF RunStarts, Taken
    <3> QED
      BY <3>1, RestIInv
  <2>3. CASE ExecStarts
    <3>1. UNCHANGED input /\ pc \in Taken /\ pc' \in Taken
      BY <2>3 DEF ExecStarts, Taken
    <3> QED
      BY <3>1, RestIInv
  <2>4. CASE ReceivedFails
    <3>1. UNCHANGED input /\ pc' = "refused"
      BY <2>4 DEF ReceivedFails, Refuse
    <3> QED
      BY <3>1, RestIInv
  <2> QED
    BY <1>4, <2>1, <2>2, <2>3, <2>4
<1>5. CASE Blocked \/ Over \/ UNCHANGED vars
  <2>1. UNCHANGED input /\ pc' = pc
    BY <1>5 DEF Blocked, Over, vars
  <2> QED
    BY <2>1, RestIInv
<1> QED
  BY <1>1, <1>2, <1>3, <1>4, <1>5, HelperStepIInv, ListenIInv DEF Next

\* Whatever a helper writes, in whatever pieces, and however it ends: a job starts only
\* if that was one whole input and the helper exited 0 (exec.c:387-405).
THEOREM HelpersAreHeard == Spec => []HelperWasHeard
<1>1. IInv => HelperWasHeard
  BY DEF IInv, PcInv, HelperWasHeard, Taken
<1> QED
  BY <1>1, InitIInv, NextIInv, PTL DEF Spec

-----------------------------------------------------------------------------
(* The environment of a command: split, filtered and completed in loops.   *)

\* The part of AllowedSurvive about one entry.
Fine(n, s, e) == VarAllowed(s[n].key) => s[n] \in Range(e)

\* All entries before place j of the unfiltered environment s are dealt with, and
\* what is from place p on in e is what is from place j on in s.
Behind(s, e, p, j) ==
  /\ j \in 1..(Len(s) + 1)
  /\ \A n \in 1..(j - 1) : Fine(n, s, e)
  /\ p = 0 => j = Len(s) + 1
  /\ p # 0 => /\ p \in 1..Len(e) /\ Len(e) - p = Len(s) - j
              /\ \A k \in 0..(Len(e) - p) : e[p + k] = s[j + k]

SplitInv ==
  /\ Sequence(env) /\ UniqueKeys(env) /\ Sequence(split) /\ UniqueKeys(split)
  /\ pc = "filter" => \E j \in 1..(Len(split) + 1) : Behind(split, env, i, j)
  /\ pc = "own" /\ i = 1 => \A n \in DOMAIN split : Fine(n, split, env)
  /\ pc = "filter" \/ (pc = "own" /\ i = 1) => Range(env) \subseteq Range(split)

OwnInv ==
  /\ pc = "own" => /\ i \in 1..(Len(Own) + 1)
                   /\ \A n \in 1..(i - 1) : Own[n] \in Range(env)
  /\ pc = "run" => /\ result = [n \in DOMAIN env |-> AsVariable(env[n])]
                   /\ \A n \in 1..Len(Own) : Own[n] \in Range(env)

RunInv == SplitInv /\ OwnInv

LEMMA SequencePut ==
  ASSUME NEW q, Sequence(q), NEW key, NEW type, NEW val
  PROVE  /\ Sequence(KvPut(q, key, type, val))
         /\ Range(KvPut(q, key, type, val)) \subseteq Range(q) \cup {Entry(key, type, val)}
         /\ Entry(key, type, val) \in Range(KvPut(q, key, type, val))
         /\ \A e \in Range(q) : e.key # key => e \in Range(KvPut(q, key, type, val))
         /\ UniqueKeys(q) => UniqueKeys(KvPut(q, key, type, val))
<1> DEFINE S == Range(q) \cup {Entry(key, type, val)}
           p == KvPut(q, key, type, val)
<1>1. q \in Seq(S) /\ Entry(key, type, val) \in S
  <2>1. q \in Seq(Range(q)) /\ Range(q) \subseteq S
    BY DEF Sequence
  <2> HIDE DEF S
  <2>2. q \in Seq(S)
    BY <2>1, SeqMonotonic
  <2> QED
    BY <2>2 DEF S
<1> HIDE DEF S
<1>2. /\ p \in Seq(S) /\ Entry(key, type, val) \in Range(p)
      /\ Range(p) \subseteq Range(q) \cup {Entry(key, type, val)}
      /\ \A e \in Range(q) : e.key # key => e \in Range(p)
  BY <1>1, PutRange
<1>3. UniqueKeys(q) => UniqueKeys(p)
  BY <1>1, PutUnique
<1> HIDE DEF p
<1>4. Sequence(p)
  BY <1>2, SeqOfRange DEF Sequence
<1> QED
  BY <1>2, <1>3, <1>4 DEF p

\* One step of the filter, in an environment e of which s is the unfiltered one.
LEMMA FilterOne ==
  ASSUME NEW s, Sequence(s), UniqueKeys(s), NEW e, Sequence(e), UniqueKeys(e),
         NEW p, NEW j, p # 0, Behind(s, e, p, j), NEW f,
         f = IF VarAllowed(e[p].key) THEN e ELSE KvDelete(e, e[p].key)
  PROVE  \E l \in 1..(Len(s) + 1) : Behind(s, f, KvNext(f, p), l)
<1>1. /\ j \in 1..Len(s) /\ Len(s) \in Nat /\ DOMAIN s = 1..Len(s)
      /\ p \in 1..Len(e) /\ Len(e) \in Nat /\ DOMAIN e = 1..Len(e)
      /\ Len(e) - p = Len(s) - j
      /\ \A n \in 1..(j - 1) : Fine(n, s, e)
      /\ \A k \in 0..(Len(e) - p) : e[p + k] = s[j + k]
  BY DEF Behind, Sequence
<1>2. e[p] = s[j]
  <2>1. 0 \in 0..(Len(e) - p) /\ p + 0 = p /\ j + 0 = j
    BY <1>1
  <2> QED
    BY <1>1, <2>1
<1>3. CASE VarAllowed(e[p].key)
  <2>1. f = e
    BY <1>3
  <2>2. Fine(j, s, e)
    <3>1. e[p] \in Range(e)
      BY <1>1 DEF Range
    <3> QED
      BY <1>2, <1>3, <3>1 DEF Fine
  <2>3. \A n \in 1..((j + 1) - 1) : Fine(n, s, e)
    BY <1>1, <2>2
  <2>4. CASE p < Len(e)
    <3>1. KvNext(e, p) = p + 1 /\ p + 1 # 0 /\ p + 1 \in 1..Len(e) /\ j + 1 \in 1..(Len(s) + 1)
          /\ Len(e) - (p + 1) = Len(s) - (j + 1)
      BY <1>1, <2>4 DEF KvNext
    <3>2. ASSUME NEW k \in 0..(Len(e) - (p + 1)) PROVE e[(p + 1) + k] = s[(j + 1) + k]
      <4>1. k + 1 \in 0..(Len(e) - p) /\ p + (k + 1) = (p + 1) + k /\ j + (k + 1) = (j + 1) + k
        BY <1>1
      <4>2. e[p + (k + 1)] = s[j + (k + 1)]
        BY <1>1, <4>1
      <4> QED
        BY <4>1, <4>2
    <3>3. Behind(s, e, p + 1, j + 1)
      BY <2>3, <3>1, <3>2 DEF Behind
    <3> QED
      BY <2>1, <3>1, <3>3
  <2>5. CASE ~(p < Len(e))
    <3>1. KvNext(e, p) = 0 /\ j + 1 = Len(s) + 1 /\ j + 1 \in 1..(Len(s) + 1)
      BY <1>1, <2>5 DEF KvNext
    <3>2. Behind(s, e, 0, j + 1)
      BY <2>3, <3>1 DEF Behind
    <3> QED
      BY <2>1, <3>1, <3>2
  <2> QED
    BY <2>4, <2>5
<1>4. CASE ~VarAllowed(e[p].key)
  <2> DEFINE key == e[p].key
  <2>1. f = KvDelete(e, key)
    BY <1>4
  <2>0. p \in Nat /\ j \in Nat /\ Len(e) \in Nat /\ Len(s) \in Nat /\ 1 <= p /\ p <= Len(e)
        /\ 1 <= j /\ j <= Len(s) /\ Len(s) = Len(e) + j - p
    BY <1>1
  <2>2. key \in Keys(e) /\ KvFind(e, key) = p
    <3>1. key \in Keys(e)
      BY <1>1 DEF Keys
    <3>2. KvFind(e, key) \in 1..Len(e) /\ e[KvFind(e, key)].key = key
      BY <3>1, KvFindFirst DEF Sequence
    <3> QED
      BY <1>1, <3>1, <3>2 DEF UniqueKeys
  <2>3. /\ f \in Seq(Range(e)) /\ Len(f) = Len(e) - 1
        /\ \A k \in 1..(Len(e) - 1) : f[k] = e[Before(p, k)]
    BY <2>1, <2>2, Deleted DEF Sequence
  <2>4. /\ Range(f) \subseteq Range(e)
        /\ \A x \in Range(e) : x.key # key => x \in Range(f)
        /\ key \notin Keys(f)
    BY <2>1, DeletedRange DEF Sequence
  <2>5. s[j].key = key /\ s[j] \notin Range(f)
    <3>1. \A x \in Range(f) : x.key # key
      BY <2>4 DEF Range, Keys
    <3> QED
      BY <1>2, <3>1
  <2>6. \A n \in 1..Len(s) : n # j => s[n].key # key
    BY <1>1, <2>5 DEF UniqueKeys
  <2> HIDE DEF key
  <2>7. ASSUME NEW n \in 1..j PROVE Fine(n, s, f)
    <3>1. CASE n = j
      BY <1>4, <2>5, <3>1 DEF Fine, key
    <3>2. CASE n # j
      <4>1. Fine(n, s, e) /\ s[n].key # key
        BY <1>1, <2>6, <3>2
      <4> QED
        BY <2>4, <4>1 DEF Fine
    <3> QED
      BY <3>1, <3>2
  <2>8. ASSUME NEW k \in p..(Len(e) - 1) PROVE f[k] = s[j + (k - p) + 1]
    <3>1. k \in 1..(Len(e) - 1) /\ Before(p, k) = k + 1
      BY <1>1 DEF Before
    <3>2. (k - p) + 1 \in 0..(Len(e) - p) /\ p + ((k - p) + 1) = k + 1
          /\ j + ((k - p) + 1) = j + (k - p) + 1
      BY <1>1
    <3>3. f[k] = e[k + 1]
      BY <2>3, <3>1
    <3>4. e[p + ((k - p) + 1)] = s[j + ((k - p) + 1)]
      BY <1>1, <3>2
    <3> QED
      BY <3>2, <3>3, <3>4
  <2>9. CASE p = Len(e)
    <3>0. Len(f) = Len(e) - 1
      BY <2>3
    <3>1. KvNext(f, p) = 0 /\ j + 1 = Len(s) + 1 /\ j + 1 \in 1..(Len(s) + 1)
      BY <2>0, <2>9, <3>0 DEF KvNext
    <3>2. \A n \in 1..((j + 1) - 1) : Fine(n, s, f)
      BY <1>1, <2>7
    <3>3. Behind(s, f, 0, j + 1)
      BY <3>1, <3>2 DEF Behind
    <3> QED
      BY <3>1, <3>3
  <2>10. CASE p # Len(e)
    <3>1. p < Len(e) /\ j + 1 \in 1..Len(s) /\ p \in 1..(Len(e) - 1)
      BY <2>0, <2>10
    <3>0. Len(f) = Len(e) - 1
      BY <2>3
    <3>2. f[p] = s[j + 1] /\ f[p] \in Range(f)
      <4>1. p \in p..(Len(e) - 1) /\ j + (p - p) + 1 = j + 1
        BY <1>1, <3>1
      <4>2. p \in DOMAIN f
        BY <2>3, <3>1
      <4> QED
        BY <2>8, <4>1, <4>2 DEF Range
    <3>3. Fine(j + 1, s, f)
      <4>1. j + 1 > 1 /\ (j + 1) - 1 = j
        BY <1>1
      <4> QED
        BY <1>2, <1>4, <2>5, <3>2, <4>1 DEF Fine
    <3>4. \A n \in 1..((j + 2) - 1) : Fine(n, s, f)
      <4>1. \A n \in 1..((j + 2) - 1) : n \in 1..j \/ n = j + 1
        BY <1>1
      <4> QED
        BY <2>7, <3>3, <4>1
    <3>5. CASE p = Len(e) - 1
      <4>1. KvNext(f, p) = 0 /\ j + 2 = Len(s) + 1 /\ j + 2 \in 1..(Len(s) + 1)
        BY <2>0, <3>0, <3>5 DEF KvNext
      <4>2. Behind(s, f, 0, j + 2)
        BY <3>4, <4>1 DEF Behind
      <4> QED
        BY <4>1, <4>2
    <3>6. CASE p # Len(e) - 1
      <4>1. /\ KvNext(f, p) = p + 1 /\ p + 1 # 0 /\ p + 1 \in 1..Len(f)
            /\ j + 2 \in 1..(Len(s) + 1) /\ Len(f) - (p + 1) = Len(s) - (j + 2)
        BY <2>0, <2>10, <3>0, <3>6 DEF KvNext
      <4>2. ASSUME NEW k \in 0..(Len(f) - (p + 1)) PROVE f[(p + 1) + k] = s[(j + 2) + k]
        <5>1. (p + 1) + k \in p..(Len(e) - 1) /\ j + (((p + 1) + k) - p) + 1 = (j + 2) + k
          BY <2>0, <3>0
        <5> QED
          BY <2>8, <5>1
      <4>3. Behind(s, f, p + 1, j + 2)
        BY <3>4, <4>1, <4>2 DEF Behind
      <4> QED
        BY <4>1, <4>3
    <3> QED
      BY <3>5, <3>6
  <2> QED
    BY <2>9, <2>10
<1> QED
  BY <1>3, <1>4

LEMMA InitRunInv == Init => RunInv
<1> SUFFICES ASSUME Init PROVE RunInv
  OBVIOUS
<1>1. env = <<>> /\ split = <<>> /\ pc \notin {"filter", "own", "run"}
  BY DEF Init
<1>2. Sequence(<<>>) /\ UniqueKeys(<<>>)
  BY DEF Sequence, UniqueKeys
<1> QED
  BY <1>1, <1>2 DEF RunInv, SplitInv, OwnInv

\* A step of the others.
LEMMA RunRests ==
  ASSUME RunInv, UNCHANGED <<env, split, allowed, result>>,
         UNCHANGED <<pc, i>> \/ pc' \notin {"filter", "own", "run"}
  PROVE  RunInv'
<1>1. \A n, s, e : Fine(n, s, e) <=> Fine(n, s, e)'
  BY DEF Fine, VarAllowed
<1>2. SplitInv'
  <2>1. (Sequence(env) /\ UniqueKeys(env) /\ Sequence(split) /\ UniqueKeys(split))'
    BY DEF RunInv, SplitInv
  <2>2. CASE UNCHANGED <<pc, i>>
    <3>1. \A j : Behind(split, env, i, j) <=> Behind(split, env, i, j)'
      BY <1>1, <2>2 DEF Behind
    <3> QED
      BY <1>1, <2>1, <2>2, <3>1 DEF RunInv, SplitInv
  <2>3. CASE pc' \notin {"filter", "own", "run"}
    BY <2>1, <2>3 DEF SplitInv
  <2> QED
    BY <2>2, <2>3
<1>3. OwnInv'
  BY DEF RunInv, OwnInv
<1> QED
  BY <1>2, <1>3 DEF RunInv

\* kv_split, and the filter.
LEMMA SplitSteps ==
  ASSUME RunInv, SplitEnv \/ SplitEnvEnds \/ FilterEnv \/ FilterEnvEnds
  PROVE  RunInv'
<1>1. UNCHANGED allowed
  BY DEF SplitEnv, SplitEnvEnds, FilterEnv, FilterEnvEnds, input, request
<1>2. \A n : Fine(n, split', env') <=> Fine(n, split, env)'
  BY <1>1 DEF Fine, VarAllowed
<1>8. \A j : Behind(split', env', i', j) <=> Behind(split, env, i, j)'
  BY <1>2 DEF Behind
<1>3. /\ Sequence(env) /\ UniqueKeys(env) /\ Sequence(split) /\ UniqueKeys(split)
  BY DEF RunInv, SplitInv
<1>4. CASE SplitEnv
  <2>1. UNCHANGED split /\ pc' = "split"
    BY <1>4 DEF SplitEnv
  <2>2. Sequence(env') /\ UniqueKeys(env')
    <3>1. \/ env' = env
          \/ env' = KvPut(env, Stripped(kv[i].key, EnvPrefix), kv[i].type, kv[i].val)
      BY <1>4 DEF SplitEnv
    <3> QED
      BY <1>3, <3>1, SequencePut
  <2> QED
    BY <1>3, <2>1, <2>2 DEF RunInv, SplitInv, OwnInv
<1>5. CASE SplitEnvEnds
  <2>1. split' = env /\ env' = env /\ pc' = "filter" /\ i' = KvNext(env, 0)
    BY <1>5 DEF SplitEnvEnds
  <2>2. Len(env) \in Nat
    BY <1>3 DEF Sequence
  <2>3. Behind(env, env, KvNext(env, 0), 1) /\ 1 \in 1..(Len(env) + 1)
    <3>1. CASE Len(env) = 0
      <4>1. KvNext(env, 0) = 0
        BY <3>1 DEF KvNext
      <4> QED
        BY <3>1, <4>1 DEF Behind
    <3>2. CASE Len(env) # 0
      <4>1. KvNext(env, 0) = 1 /\ 1 \in 1..Len(env)
        BY <2>2, <3>2 DEF KvNext
      <4> QED
        BY <2>2, <4>1 DEF Behind
    <3> QED
      BY <3>1, <3>2
  <2>4. Behind(split, env, i, 1)' /\ 1 \in 1..(Len(split') + 1)
    BY <1>8, <2>1, <2>3
  <2> QED
    BY <1>3, <2>1, <2>4 DEF RunInv, SplitInv, OwnInv
<1>6. CASE FilterEnv
  <2>1. /\ pc = "filter" /\ i # 0 /\ split' = split /\ pc' = "filter"
        /\ env' = IF VarAllowed(env[i].key) THEN env ELSE KvDelete(env, env[i].key)
        /\ i' = KvNext(env', i)
    BY <1>6 DEF FilterEnv, Filtered
  <2>2. PICK j \in 1..(Len(split) + 1) : Behind(split, env, i, j)
    BY <2>1 DEF RunInv, SplitInv
  <2>3. PICK l \in 1..(Len(split) + 1) : Behind(split, env', i', l)
    BY <1>3, <2>1, <2>2, FilterOne
  <2>4. Behind(split, env, i, l)'
    BY <1>8, <2>1, <2>3
  <2>5. Sequence(env') /\ UniqueKeys(env')
    <3>1. CASE env' = env
      BY <1>3, <3>1
    <3>2. CASE env' = KvDelete(env, env[i].key)
      <4>1. env' \in Seq(Range(env)) /\ UniqueKeys(env')
        BY <1>3, <3>2, Deleted, DeletedRange DEF Sequence
      <4> QED
        BY <4>1, SeqOfRange DEF Sequence
    <3> QED
      BY <2>1, <3>1, <3>2
  <2>6. Range(env') \subseteq Range(split')
    <3>1. Range(env) \subseteq Range(split) /\ env \in Seq(Range(env))
      BY <1>3, <2>1 DEF RunInv, SplitInv, Sequence
    <3>2. Range(KvDelete(env, env[i].key)) \subseteq Range(env)
      BY <3>1, DeletedRange
    <3> QED
      BY <2>1, <3>1, <3>2
  <2> QED
    BY <1>3, <2>1, <2>4, <2>5, <2>6 DEF RunInv, SplitInv, OwnInv
<1>7. CASE FilterEnvEnds
  <2>1. /\ pc = "filter" /\ i = 0 /\ split' = split /\ env' = env /\ pc' = "own" /\ i' = 1
    BY <1>7 DEF FilterEnvEnds
  <2>2. PICK j \in 1..(Len(split) + 1) : Behind(split, env, i, j)
    BY <2>1 DEF RunInv, SplitInv
  <2>3. \A n \in DOMAIN split : Fine(n, split, env)
    <3>1. Len(split) \in Nat /\ DOMAIN split = 1..Len(split)
      BY <1>3 DEF Sequence
    <3>2. j = Len(split) + 1 /\ \A n \in 1..(j - 1) : Fine(n, split, env)
      BY <2>1, <2>2 DEF Behind
    <3> QED
      BY <3>1, <3>2
  <2>4. 1 \in 1..(Len(Own) + 1)
    BY DEF Own
  <2> QED
    BY <1>2, <1>3, <2>1, <2>3, <2>4 DEF RunInv, SplitInv, OwnInv
<1> QED
  BY <1>4, <1>5, <1>6, <1>7

\* The variables of the IMP itself have different names.
LEMMA OwnKeys ==
  /\ Own \in Seq(Range(Own)) /\ Len(Own) = 4
  /\ \A m, n \in 1..4 : Own[m].key = Own[n].key => m = n
  /\ \A n \in 1..4 : Entry(Own[n].key, Own[n].type, Own[n].val) = Own[n]
<1> DEFINE a == Entry(<<"FLUX_OWNER_USERID">>, "i", <<"caller">>)
           b == Entry(<<"HOME">>, "s", <<"home">>)
           c == Entry(<<"USER">>, "s", <<"name">>)
           d == Entry(<<"PATH">>, "s", <<"path">>)
<1>1. /\ a.key = <<"FLUX_OWNER_USERID">> /\ b.key = <<"HOME">>
      /\ c.key = <<"USER">> /\ d.key = <<"PATH">>
      /\ \A e \in {a, b, c, d} : Entry(e.key, e.type, e.val) = e
  BY DEF Entry
<1>2. a.key # b.key /\ a.key # c.key /\ a.key # d.key /\ b.key # c.key /\ b.key # d.key
      /\ c.key # d.key
  BY <1>1
<1>3. Own = <<a, b, c, d>>
  BY DEF Own
<1> HIDE DEF a, b, c, d
<1>4. Own \in Seq({a, b, c, d}) /\ Len(Own) = 4
  BY <1>3
<1>5. Own[1] = a /\ Own[2] = b /\ Own[3] = c /\ Own[4] = d
  BY <1>3
<1>6. \A n \in 1..4 : n = 1 \/ n = 2 \/ n = 3 \/ n = 4
  OBVIOUS
<1>7. \A m, n \in 1..4 : Own[m].key = Own[n].key => m = n
  BY <1>2, <1>5, <1>6
<1>8. \A n \in 1..4 : Entry(Own[n].key, Own[n].type, Own[n].val) = Own[n]
  BY <1>1, <1>5, <1>6
<1> QED
  BY <1>4, <1>7, <1>8, SeqOfRange

\* A key without a = names its variable, as the keys of the IMP do.
LEMMA PlainVariable ==
  ASSUME NEW e, "=" \notin Range(e.key)
  PROVE  AsVariable(e) = [name |-> e.key, val |-> e.val]
  BY DEF AsVariable

LEMMA PlainName ==
  ASSUME NEW x, x # "="
  PROVE  "=" \notin Range(<<x>>)
<1>1. DOMAIN <<x>> = {1} /\ <<x>>[1] = x
  OBVIOUS
<1> QED
  BY <1>1 DEF Range

LEMMA OwnPlain == \A e \in Range(Own) : "=" \notin Range(e.key)
<1> DEFINE names == {"FLUX_OWNER_USERID", "HOME", "USER", "PATH"}
<1>1. \A n \in 1..4 : \E x \in names : Own[n].key = <<x>>
  <2>1. /\ Own[1].key = <<"FLUX_OWNER_USERID">> /\ Own[2].key = <<"HOME">>
        /\ Own[3].key = <<"USER">> /\ Own[4].key = <<"PATH">>
    BY DEF Own, Entry
  <2>2. \A n \in 1..4 : n = 1 \/ n = 2 \/ n = 3 \/ n = 4
    OBVIOUS
  <2> QED
    BY <2>1, <2>2
<1>2. \A x \in names : x # "="
  OBVIOUS
<1> HIDE DEF names
<1>3. DOMAIN Own = 1..4
  BY OwnKeys
<1>4. \A n \in 1..4 : "=" \notin Range(Own[n].key)
  BY <1>1, <1>2, PlainName
<1> QED
  BY <1>3, <1>4 DEF Range

LEMMA OwnSteps ==
  ASSUME RunInv, PutOwn \/ RunStarts
  PROVE  RunInv'
<1>1. /\ Sequence(env) /\ UniqueKeys(env) /\ Sequence(split) /\ UniqueKeys(split)
      /\ pc = "own" /\ i \in 1..5 /\ \A n \in 1..(i - 1) : Own[n] \in Range(env)
  BY OwnKeys DEF RunInv, SplitInv, OwnInv, PutOwn, RunStarts
<1>2. CASE PutOwn
  <2>1. /\ i \in 1..4 /\ i' = i + 1 /\ pc' = pc /\ split' = split
        /\ env' = KvPut(env, Own[i].key, Own[i].type, Own[i].val)
    BY <1>1, <1>2, OwnKeys DEF PutOwn
  <2>2. /\ Sequence(env') /\ UniqueKeys(env') /\ Own[i] \in Range(env')
        /\ \A e \in Range(env) : e.key # Own[i].key => e \in Range(env')
    BY <1>1, <2>1, OwnKeys, SequencePut
  <2>3. ASSUME NEW n \in 1..(i' - 1) PROVE Own[n] \in Range(env')
    <3>1. CASE n = i
      BY <2>2, <3>1
    <3>2. CASE n # i
      <4>1. n \in 1..(i - 1) /\ n \in 1..4
        BY <2>1, <3>2
      <4> QED
        BY <1>1, <2>1, <2>2, <3>2, <4>1, OwnKeys
    <3> QED
      BY <3>1, <3>2
  <2>4. i' \in 1..(Len(Own) + 1) /\ i' # 1
    BY <2>1, OwnKeys
  <2> QED
    BY <1>1, <2>1, <2>2, <2>3, <2>4 DEF RunInv, SplitInv, OwnInv
<1>3. CASE RunStarts
  <2>1. /\ i > 4 /\ pc' = "run" /\ UNCHANGED <<env, split>>
        /\ result' = [n \in DOMAIN env |-> AsVariable(env[n])]
    BY <1>3, OwnKeys DEF RunStarts
  <2>2. \A n \in 1..Len(Own) : Own[n] \in Range(env)
    BY <1>1, <2>1, OwnKeys
  <2> QED
    BY <1>1, <2>1, <2>2 DEF RunInv, SplitInv, OwnInv
<1> QED
  BY <1>2, <1>3

LEMMA NextRunInv == RunInv /\ [Next]_vars => RunInv'
<1> SUFFICES ASSUME RunInv, [Next]_vars PROVE RunInv'
  OBVIOUS
<1>1. CASE PutCommand \/ PutEnv \/ PutEnvEnds \/ PutExec \/ Write \/ Read \/ ReadFails
  <2>1. UNCHANGED <<env, split, allowed, result>> /\ pc' \notin {"filter", "own", "run"}
    BY <1>1 DEF PutCommand, PutEnv, PutEnvEnds, PutExec, Write, Read, ReadFails, Refuse,
                input, request, data
  <2> QED
    BY <2>1, RunRests
<1>2. CASE Listen
  <2>1. UNCHANGED <<env, split, allowed, result>> /\ pc' \notin {"filter", "own", "run"}
    BY <1>2 DEF Listen, Popen, PopenFails, PopenEnds, HearInput, HearEnd, CheckInput,
                CheckInputFails, WaitForHelper, Refuse, input, request, data
  <2> QED
    BY <2>1, RunRests
<1>3. CASE HelperStep \/ HelperStops \/ Blocked \/ Over \/ UNCHANGED vars
  <2>1. UNCHANGED <<env, split, allowed, result, pc, i>>
    BY <1>3 DEF HelperStep, HelperStops, Blocked, Over, vars, input, request, data
  <2> QED
    BY <2>1, RunRests
<1>4. CASE GetRunEnv \/ ReceivedFails
  <2>1. UNCHANGED <<env, split, allowed, result>> /\ pc' \notin {"filter", "own", "run"}
    BY <1>4 DEF GetRunEnv, ReceivedFails, Refuse, input, request, data
  <2> QED
    BY <2>1, RunRests
<1>5. CASE ExecStarts
  <2>1. UNCHANGED <<env, split, allowed>> /\ pc' = "exec"
    BY <1>5 DEF ExecStarts, input, request
  <2> QED
    BY <2>1 DEF RunInv, SplitInv, OwnInv
<1> QED
  BY <1>1, <1>2, <1>3, <1>4, <1>5, SplitSteps, OwnSteps DEF Next

LEMMA CommandRuns == Spec => []RunInv
  BY InitRunInv, NextRunInv, PTL DEF Spec

\* Whatever the kv holds, for any names and numbers of variables: the command finds
\* those of the IMP with its values, and none twice but where a key has a = in it
\* (run.c:137-142, 173-185, kv.c:566).
THEOREM OwnVariablesPrevail == Spec => []OwnVarsPrevail
<1>1. RunInv => OwnVarsPrevail
  <2> SUFFICES ASSUME RunInv, pc = "run"
               PROVE  /\ \A e \in Range(Own) : [name |-> e.key, val |-> e.val] \in Range(result)
                      /\ \A m, n \in DOMAIN result :
                           /\ "=" \notin Range(env[m].key) \cup Range(env[n].key)
                           /\ result[m].name = result[n].name
                           => m = n
    BY DEF OwnVarsPrevail
  <2>1. /\ result = [n \in DOMAIN env |-> AsVariable(env[n])]
        /\ \A n \in 1..Len(Own) : Own[n] \in Range(env)
        /\ UniqueKeys(env)
    BY DEF RunInv, SplitInv, OwnInv
  <2>2. ASSUME NEW m \in DOMAIN result, NEW n \in DOMAIN result,
               "=" \notin Range(env[m].key) \cup Range(env[n].key),
               result[m].name = result[n].name
        PROVE  m = n
    <3>1. result[m].name = env[m].key /\ result[n].name = env[n].key
      BY <2>1, <2>2, PlainVariable
    <3> QED
      BY <2>1, <2>2, <3>1 DEF UniqueKeys
  <2>3. ASSUME NEW e \in Range(Own) PROVE [name |-> e.key, val |-> e.val] \in Range(result)
    <3>1. e \in Range(env)
      <4>1. DOMAIN Own = 1..Len(Own)
        BY OwnKeys
      <4> QED
        BY <2>1, <4>1 DEF Range
    <3>2. PICK n \in DOMAIN env : e = env[n]
      BY <3>1 DEF Range
    <3>3. AsVariable(e) = [name |-> e.key, val |-> e.val]
      BY OwnPlain, PlainVariable
    <3> QED
      BY <2>1, <3>2, <3>3 DEF Range
  <2> QED
    BY <2>2, <2>3
<1> QED
  BY <1>1, CommandRuns, PTL

\* For any environment and configuration: the filter of get_run_env, deleting as it goes,
\* loses nothing that is allowed and adds nothing (run.c:132-135).
THEOREM FilterKeepsAllowed == Spec => []AllowedSurvive
<1>1. RunInv => AllowedSurvive
  <2> SUFFICES ASSUME RunInv, pc = "own", i = 1
               PROVE  /\ Range(env) \subseteq Range(split)
                      /\ \A e \in Range(split) : VarAllowed(e.key) => e \in Range(env)
    BY DEF AllowedSurvive
  <2>1. Range(env) \subseteq Range(split) /\ \A n \in DOMAIN split : Fine(n, split, env)
    BY DEF RunInv, SplitInv
  <2> QED
    BY <2>1 DEF Fine, Range
<1> QED
  BY <1>1, CommandRuns, PTL

-----------------------------------------------------------------------------
(* What the device options of a request become can be put in a kv.         *)

Letters == {"r", "w", "m"}

\* The symbols in the entries of a device list.
NodeWords == UNION {{Nodes[p].type, Nodes[p].major, Nodes[p].minor} : p \in DOMAIN Nodes}

LineWords == {l.major : l \in Range(ProcDevices)}

ItemWords(o) == {item.spec.type : item \in {x \in Range(Items(o)) : x.spec.kind = "class"}}

DeviceWords(o) == NodeWords \cup LineWords \cup {AnyMinor} \cup ItemWords(o)

DeviceEntries(o) ==
  [type : DeviceWords(o), major : DeviceWords(o), minor : DeviceWords(o), access : Seq(Letters)]

LEMMA DeviceWordsClean ==
  ASSUME NEW o \in Options \cup HelperOptions, OptionsAreValid(o)
  PROVE  NUL \notin DeviceWords(o)
<1>1. /\ \A p \in DOMAIN Nodes : NUL \notin {Nodes[p].type, Nodes[p].major, Nodes[p].minor}
      /\ \A l \in Range(ProcDevices) : l.major # NUL
      /\ \A item \in Range(Items(o)) : item.spec.kind = "class" => item.spec.type # NUL
  BY DevicesAssumption DEF NUL
<1>2. AnyMinor # NUL
  BY DEF AnyMinor, NUL
<1>3. NUL \notin NodeWords
  BY <1>1 DEF NodeWords
<1>4. NUL \notin LineWords
  BY <1>1 DEF LineWords
<1>5. NUL \notin ItemWords(o)
  BY <1>1 DEF ItemWords
<1> QED
  BY <1>2, <1>3, <1>4, <1>5 DEF DeviceWords

LEMMA ResolvedItem ==
  ASSUME NEW o \in Options \cup HelperOptions, OptionsAreValid(o), NEW item \in Range(Items(o))
  PROVE  Resolve(item) \in Seq(DeviceEntries(o))
<1> DEFINE E == DeviceEntries(o)
           W == DeviceWords(o)
<1>1. Sequence(ProcDevices) /\ Sequence(item.access)
  BY DevicesAssumption
<1>6. /\ \A p \in DOMAIN Nodes : Nodes[p].type \in W /\ Nodes[p].major \in W /\ Nodes[p].minor \in W
      /\ \A l \in Range(ProcDevices) : l.major \in W
      /\ AnyMinor \in W
      /\ item.spec.kind = "class" => item.spec.type \in W
  <2>1. \A p \in DOMAIN Nodes :
          Nodes[p].type \in NodeWords /\ Nodes[p].major \in NodeWords /\ Nodes[p].minor \in NodeWords
    BY DEF NodeWords
  <2>2. \A l \in Range(ProcDevices) : l.major \in LineWords
    BY DEF LineWords
  <2>3. item.spec.kind = "class" => item.spec.type \in ItemWords(o)
    BY DEF ItemWords
  <2> QED
    BY <2>1, <2>2, <2>3 DEF DeviceWords
<1>2. \A t \in W, m \in W, n \in W, a \in Seq(Letters) : DeviceEntry(t, m, n, a) \in E
  BY DEF DeviceEntry, DeviceEntries
<1>3. <<>> \in Seq(E)
  OBVIOUS
<1>4. CASE ~AccessIsValid(item.access)
  BY <1>3, <1>4 DEF Resolve
<1>5. CASE AccessIsValid(item.access)
  <2>1. item.access \in Seq(Letters)
    <3>1. item.access \in Seq(Range(item.access))
      BY <1>1 DEF Sequence
    <3>2. Range(item.access) \subseteq Letters
      BY <1>5 DEF AccessIsValid, Range, Letters
    <3> QED
      BY <3>1, <3>2, SeqMonotonic
  <2>2. CASE item.spec.kind = "class"
    <3> DEFINE line(n) == ProcDevices[n]
               part(n) == IF line(n).type = item.spec.type /\ line(n).name = item.spec.name
                          THEN <<DeviceEntry(item.spec.type, line(n).major, AnyMinor, item.access)>>
                          ELSE <<>>
               seqs == [n \in DOMAIN ProcDevices |-> part(n)]
    <3>1. ASSUME NEW n \in DOMAIN ProcDevices PROVE part(n) \in Seq(E)
      <4>1. item.spec.type \in W /\ line(n).major \in W /\ AnyMinor \in W
        <5>1. line(n) \in Range(ProcDevices)
          BY DEF Range
        <5> HIDE DEF W
        <5> QED
          BY <1>6, <2>2, <5>1
      <4>2. DeviceEntry(item.spec.type, line(n).major, AnyMinor, item.access) \in E
        BY <1>2, <2>1, <4>1
      <4> HIDE DEF E, W
      <4>3. <<DeviceEntry(item.spec.type, line(n).major, AnyMinor, item.access)>> \in Seq(E)
        BY <4>2, One
      <4> QED
        BY <4>3
    <3>2. DOMAIN ProcDevices = 1..Len(ProcDevices) /\ Len(ProcDevices) \in Nat
      BY <1>1 DEF Sequence
    <3> HIDE DEF E, part
    <3>3. seqs \in Seq(Seq(E))
      BY <3>1, <3>2
    <3>4. FlattenSeq(seqs) \in Seq(E)
      BY <3>3, Flattened
    <3>5. Resolve(item) = FlattenSeq(seqs)
      BY <1>5, <2>2 DEF Resolve, OfClass, part
    <3> QED
      BY <3>4, <3>5 DEF E
  <2>3. CASE item.spec.kind = "path"
    <3>1. Resolve(item) = OfPath(item.spec, item.access)
      BY <1>5, <2>3 DEF Resolve
    <3>2. CASE item.spec.path \in DOMAIN Nodes
      <4> DEFINE n == Nodes[item.spec.path]
                 e == DeviceEntry(n.type, n.major, n.minor, item.access)
      <4>1. n.type \in W /\ n.major \in W /\ n.minor \in W
        <5> HIDE DEF W
        <5> QED
          BY <1>6, <3>2
      <4>2. e \in E
        BY <1>2, <2>1, <4>1
      <4>3. Resolve(item) = <<e>>
        BY <3>1, <3>2 DEF OfPath
      <4> HIDE DEF E, e
      <4>4. <<e>> \in Seq(E)
        BY <4>2, One
      <4> QED
        BY <4>3, <4>4 DEF E
    <3>3. CASE item.spec.path \notin DOMAIN Nodes
      BY <1>3, <3>1, <3>3 DEF OfPath
    <3> QED
      BY <3>2, <3>3
  <2>4. CASE item.spec.kind \notin {"class", "path"}
    BY <1>3, <1>5, <2>4 DEF Resolve
  <2> QED
    BY <2>2, <2>3, <2>4
<1> QED
  BY <1>4, <1>5

\* The items of a policy, of both sources.
LEMMA ItemsOf ==
  ASSUME NEW o \in Options \cup HelperOptions, OptionsAreValid(o)
  PROVE  /\ Sequence(Items(o))
         /\ Range(Items(o)) = (IF o.policy = "strict" THEN {} ELSE Range(Standard)) \cup Range(o.allow)
<1> DEFINE pre == IF o.policy = "strict" THEN <<>> ELSE Standard
           S == Range(pre) \cup Range(o.allow)
<1>1. Sequence(Standard) /\ Sequence(o.allow)
  BY DevicesAssumption
<1>2. Sequence(pre)
  <2>1. Sequence(<<>>)
    BY DEF Sequence
  <2>2. pre = <<>> \/ pre = Standard
    OBVIOUS
  <2> HIDE DEF pre
  <2> QED
    BY <1>1, <2>1, <2>2
<1>3. Range(pre) = IF o.policy = "strict" THEN {} ELSE Range(Standard)
  BY DEF Range
<1>4. Items(o) = pre \o o.allow
  BY DEF Items
<1> HIDE DEF pre
<1>5. pre \in Seq(S) /\ o.allow \in Seq(S)
  BY <1>1, <1>2, SeqMonotonic DEF Sequence
<1>6. pre \o o.allow \in Seq(S)
  BY <1>5, ConcatProperties
<1>7. Range(pre \o o.allow) = S
  BY <1>5, RangeConcatenation
<1> QED
  BY <1>3, <1>4, <1>6, <1>7, SeqOfRange DEF Sequence

LEMMA DeviceList ==
  ASSUME NEW o \in Options \cup HelperOptions, OptionsAreValid(o), DeviceAllow(o) # AllowAll
  PROVE  /\ DeviceAllow(o) \in Seq(DeviceEntries(o))
         /\ 0..Len(DeviceAllow(o)) \subseteq DOMAIN Numerals
<1>1. ~Uncontained(o)
  BY DEF DeviceAllow
<1>2. Sequence(Items(o)) /\ 0..Len(DeviceAllow(o)) \subseteq DOMAIN Numerals
  BY <1>1, ItemsOf, DevicesAssumption
<1> DEFINE seqs == [n \in DOMAIN Items(o) |-> Resolve(Items(o)[n])]
<1>3. DeviceAllow(o) = FlattenSeq(seqs)
  BY <1>1 DEF DeviceAllow
<1>4. DOMAIN Items(o) = 1..Len(Items(o)) /\ Len(Items(o)) \in Nat
  BY <1>2 DEF Sequence
<1>5. \A n \in DOMAIN Items(o) : Resolve(Items(o)[n]) \in Seq(DeviceEntries(o))
  BY ResolvedItem DEF Range
<1>6. seqs \in Seq(Seq(DeviceEntries(o)))
  BY <1>4, <1>5
<1> HIDE DEF seqs
<1>7. FlattenSeq(seqs) \in Seq(DeviceEntries(o))
  BY <1>6, Flattened
<1> QED
  BY <1>2, <1>3, <1>7

-----------------------------------------------------------------------------
(* The kv that the unprivileged half of exec puts together.                *)

LEMMA StorableIf ==
  ASSUME NEW W, NUL \notin W, NEW q \in Seq(EntriesOf(W, KvTypes, Seq(W))),
         \A n \in 1..Len(q) : q[n].key # <<>>
  PROVE  Storable(q)
<1>1. ASSUME NEW n \in 1..Len(q) PROVE Codable(q[n])
  <2>1. q[n] \in EntriesOf(W, KvTypes, Seq(W))
    OBVIOUS
  <2>2. /\ q[n] = Entry(q[n].key, q[n].type, q[n].val)
        /\ q[n].key \in Seq(W) /\ q[n].type \in KvTypes /\ q[n].val \in Seq(W)
    BY <2>1 DEF EntriesOf, Entry
  <2>3. \A s \in Seq(W) : Clean(s)
    <3>1. ASSUME NEW s \in Seq(W) PROVE s \in Seq(Range(s)) /\ NUL \notin Range(s)
      <4>1. Range(s) \subseteq W
        BY DEF Range
      <4>2. s \in Seq(Range(s))
        BY SeqOfRange
      <4> QED
        BY <4>1, <4>2
    <3> QED
      BY <3>1 DEF Clean
  <2> QED
    BY <1>1, <2>2, <2>3 DEF Codable
<1>2. Sequence(q)
  BY SeqOfRange DEF Sequence
<1> QED
  BY <1>1, <1>2 DEF Storable

LEMMA FirstDiffers ==
  ASSUME NEW K, NEW p \in K, NEW key \in Seq(K), key # <<>>, key[1] # p
  PROVE  ~IsStrictPrefix(<<p>>, key)
<1>1. Len(<<p>>) = 1 /\ <<p>>[1] = p
  OBVIOUS
<1>2. Len(key) \in Nat /\ Len(key) > 0
  BY NotEmpty
<1>3. SUFFICES ASSUME SubSeq(<<p>>, 1, 1) = SubSeq(key, 1, 1) PROVE FALSE
  BY <1>1 DEF IsStrictPrefix, IsPrefix
<1>4. 1 \in Int /\ 1 <= 1 /\ 1 - 1 + 1 = 1 /\ 1 + 1 - 1 = 1 /\ 1 \in 1..1
      /\ \A n \in 1..1 : n = 1
  OBVIOUS
<1>5. SubSeq(key, 1, 1)[1] = key[1]
  <2>1. \A n \in 1..1 : key[n] \in K
    BY <1>2
  <2>2. \A n \in 1..(1 - 1 + 1) : SubSeq(key, 1, 1)[n] = key[1 + n - 1]
    BY <1>4, <2>1, SubSeqProperties
  <2> QED
    BY <1>4, <2>2
<1>6. SubSeq(<<p>>, 1, 1)[1] = p
  <2>1. \A n \in 1..1 : <<p>>[n] \in K
    BY <1>1, <1>4
  <2>2. \A n \in 1..(1 - 1 + 1) : SubSeq(<<p>>, 1, 1)[n] = <<p>>[1 + n - 1]
    BY <1>4, <2>1, SubSeqProperties
  <2> QED
    BY <1>1, <1>4, <2>2
<1> QED
  BY <1>3, <1>5, <1>6

\* The symbols of that kv.
OwnWords == {"cmd", "exec", "J", "shell_path", "args", "device.", "count"}

ExecWords(a, o) == OwnWords \cup Range(Numerals) \cup Range(a) \cup DeviceWords(o) \cup Letters

ExecEntries(a, o) == EntriesOf(ExecWords(a, o), KvTypes, Seq(ExecWords(a, o)))

LEMMA ExecWordsClean ==
  ASSUME NEW a \in Argvs, NEW o \in Options \cup HelperOptions, OptionsAreValid(o)
  PROVE  NUL \notin ExecWords(a, o)
<1>1. NUL \notin OwnWords /\ NUL \notin Letters
  BY DEF OwnWords, Letters, NUL
<1>2. NUL \notin Range(Numerals) /\ NUL \notin Range(a)
  BY StringsAssumption
<1>3. NUL \notin DeviceWords(o)
  BY DeviceWordsClean
<1> QED
  BY <1>1, <1>2, <1>3 DEF ExecWords

\* p is q with e behind it.
OneMore(S, q, e, p) ==
  /\ p \in Seq(S) /\ Len(p) = Len(q) + 1
  /\ \A n \in 1..Len(q) : p[n] = q[n]
  /\ p[Len(q) + 1] = e
  /\ p = q \o <<e>>

\* Puts of new keys one after the other.
LEMMA Appended ==
  ASSUME NEW S, NEW q \in Seq(S), NEW key, NEW type, NEW val, Entry(key, type, val) \in S,
         \A n \in 1..Len(q) : q[n].key # key
  PROVE  OneMore(S, q, Entry(key, type, val), KvPut(q, key, type, val))
<1> DEFINE e == Entry(key, type, val)
<1>1. key \notin Keys(q)
  BY NotAmongKeys
<1>2. KvPut(q, key, type, val) = Append(q, e)
  BY <1>1, PutRange
<1> HIDE DEF e
<1>3. e \in S
  BY DEF e
<1>4. Append(q, e) \in Seq(S) /\ Len(Append(q, e)) = Len(q) + 1
      /\ \A n \in 1..Len(q) : Append(q, e)[n] = q[n]
      /\ Append(q, e)[Len(q) + 1] = e
  BY <1>3, AppendProperties
<1>5. Append(q, e) = q \o <<e>>
  BY <1>3, AppendIsConcat
<1> QED
  BY <1>2, <1>4, <1>5 DEF e, OneMore

\* The arguments as kv_encode_argv numbers them.
LEMMA ArgvEncoded ==
  ASSUME NEW a \in Argvs, NEW W, Range(Numerals) \subseteq W, Range(a) \subseteq W
  PROVE  /\ EncodeArgv(a) \in Seq(EntriesOf(W, KvTypes, Seq(W)))
         /\ Len(EncodeArgv(a)) = Len(a) /\ Len(a) \in Nat
         /\ UniqueKeys(EncodeArgv(a))
         /\ \A n \in 1..Len(a) : /\ EncodeArgv(a)[n].key # <<>>
                                 /\ EncodeArgv(a)[n].val = <<a[n]>>
<1> DEFINE E == EntriesOf(W, KvTypes, Seq(W))
           new == [n \in DOMAIN a |-> Entry(<<Num(n - 1)>>, "s", <<a[n]>>)]
<1>1. /\ Len(a) \in Nat /\ DOMAIN a = 1..Len(a) /\ 0..Len(a) \subseteq DOMAIN Numerals
  BY StringsAssumption DEF Sequence
<1>2. ASSUME NEW n \in 1..Len(a)
      PROVE  Num(n - 1) \in W /\ a[n] \in W /\ n - 1 \in DOMAIN Numerals
  <2>1. n - 1 \in 0..Len(a)
    BY <1>1
  <2>2. n - 1 \in DOMAIN Numerals
    BY <1>1, <2>1
  <2>3. Num(n - 1) \in Range(Numerals) /\ a[n] \in Range(a)
    BY <1>1, <2>2 DEF Range, Num
  <2> QED
    BY <2>2, <2>3
<1>3. ASSUME NEW n \in 1..Len(a)
      PROVE  /\ new[n] \in E /\ Put(new, n) = new[n]
             /\ new[n].key = <<Num(n - 1)>> /\ new[n].val = <<a[n]>>
             /\ new[n].key # <<>>
  <2>1. new[n] = Entry(<<Num(n - 1)>>, "s", <<a[n]>>)
    BY <1>1
  <2>2. <<Num(n - 1)>> \in Seq(W) /\ <<Num(n - 1)>> # <<>> /\ <<a[n]>> \in Seq(W)
    BY <1>2, One
  <2>3. "s" \in KvTypes
    BY DEF KvTypes
  <2> HIDE DEF new
  <2>4. new[n] \in E
    BY <2>1, <2>2, <2>3 DEF EntriesOf, Entry
  <2>5. /\ new[n].key = <<Num(n - 1)>> /\ new[n].type = "s" /\ new[n].val = <<a[n]>>
    BY <2>1, EntryFields
  <2> QED
    BY <2>1, <2>2, <2>4, <2>5 DEF Put
<1>4. new \in Seq(E) /\ Len(new) = Len(a)
  <2>1. new \in [1..Len(a) -> E]
    BY <1>1, <1>3
  <2> HIDE DEF new, E
  <2> QED
    BY <1>1, <2>1
<1> HIDE DEF new, E
<1>5. UniqueKeys(new)
  <2>1. ASSUME NEW m \in 1..Len(a), NEW n \in 1..Len(a), new[m].key = new[n].key
        PROVE  m = n
    <3>1. <<Num(m - 1)>> = <<Num(n - 1)>>
      BY <1>3, <2>1
    <3>2. Num(m - 1) = Num(n - 1)
      BY <3>1
    <3>3. m - 1 = n - 1
      BY <1>2, <3>2, DeviceAssumption DEF Num
    <3> QED
      BY <3>3
  <2>2. DOMAIN new = 1..Len(a)
    BY <1>4
  <2> QED
    BY <2>1, <2>2 DEF UniqueKeys
<1>6. EncodeArgv(a) = new
  <2>1. EncodeArgv(a) = PutAll(<<>>, new)
    BY DEF EncodeArgv, new
  <2>2. <<>> \in Seq(E) /\ Keys(<<>>) = {}
    BY DEF Keys
  <2>3. \A n \in 1..Len(new) : Put(new, n) = new[n] /\ new[n].key \notin Keys(<<>>)
    BY <1>3, <1>4, <2>2
  <2>4. PutAll(<<>>, new) = <<>> \o new
    BY <1>4, <1>5, <2>2, <2>3, PutAllNew
  <2>5. <<>> \o new = new
    BY <1>4, ConcatEmptySeq
  <2> QED
    BY <2>1, <2>4, <2>5
<1> QED
  BY <1>1, <1>3, <1>4, <1>5, <1>6 DEF E

\* What names the command and its program.
NamedKv(a) == KvPut(KvPut(CmdKv("exec"), <<"J">>, "s", <<"J">>), <<"shell_path">>, "s", <<a[1]>>)

ExecSent(a, o) == DeviceEncode(KvJoin(NamedKv(a), EncodeArgv(a), <<"args">>), DeviceAllow(o))

\* Words and a value of one symbol make an entry.
LEMMA WordsEntry ==
  ASSUME NEW W, NEW key \in Seq(W), NEW type \in KvTypes, NEW val \in Seq(W)
  PROVE  Entry(key, type, val) \in EntriesOf(W, KvTypes, Seq(W))
BY DEF Entry, EntriesOf

\* Its three keys, none of which is about a device or an argument.
LEMMA NamedKvIs ==
  ASSUME NEW a \in Argvs, NEW W, OwnWords \subseteq W, Range(a) \subseteq W
  PROVE  /\ NamedKv(a) \in Seq(EntriesOf(W, KvTypes, Seq(W))) /\ Len(NamedKv(a)) = 3
         /\ \A n \in 1..3 : /\ NamedKv(a)[n].key # <<>>
                            /\ NamedKv(a)[n].key[1] \in {"cmd", "J", "shell_path"}
         /\ NamedKv(a)[1] = Entry(<<"cmd">>, "s", <<"exec">>)
<1> DEFINE E == EntriesOf(W, KvTypes, Seq(W))
           c == <<"cmd">>
           j == <<"J">>
           s == <<"shell_path">>
           x == <<"exec">>
           y == <<a[1]>>
           t == "s"
           k0 == <<>>
           k1 == KvPut(k0, c, t, x)
           k2 == KvPut(k1, j, t, j)
           k3 == KvPut(k2, s, t, y)
           e1 == Entry(c, t, x)
           e2 == Entry(j, t, j)
           e3 == Entry(s, t, y)
<1>1. a[1] \in W
  <2>1. a # <<>> /\ a \in Seq(Range(a))
    BY StringsAssumption DEF Sequence
  <2>2. 1 \in 1..Len(a)
    BY <2>1, NotEmpty
  <2> QED
    BY <2>1, <2>2 DEF Range
<1>2. NamedKv(a) = k3
  BY DEF NamedKv, CmdKv
<1>3. /\ c \in Seq(W) /\ j \in Seq(W) /\ s \in Seq(W) /\ x \in Seq(W) /\ y \in Seq(W)
      /\ t \in KvTypes
  BY <1>1, One DEF OwnWords, KvTypes
<1>4. c # j /\ c # s /\ j # s /\ c # <<>> /\ j # <<>> /\ s # <<>>
      /\ c[1] = "cmd" /\ j[1] = "J" /\ s[1] = "shell_path"
  OBVIOUS
<1>5. k0 \in Seq(E) /\ Len(k0) = 0
  OBVIOUS
<1> HIDE DEF E, c, j, s, x, y, t, k0
<1>6. e1 \in E /\ e2 \in E /\ e3 \in E
  BY <1>3, WordsEntry DEF E
<1>7. e1.key = c /\ e2.key = j /\ e3.key = s
  <2>1. e1.key = c
    BY EntryFields
  <2>2. e2.key = j
    BY EntryFields
  <2>3. e3.key = s
    BY EntryFields
  <2> QED
    BY <2>1, <2>2, <2>3
<1>8. k1 \in Seq(E) /\ Len(k1) = 1 /\ k1[1] = e1
  <2>1. \A n \in 1..Len(k0) : k0[n].key # c
    BY <1>5
  <2>2. Entry(c, t, x) \in E
    BY <1>6
  <2>3. OneMore(E, k0, Entry(c, t, x), k1)
    BY <1>5, <2>1, <2>2, Appended
  <2> HIDE DEF k1
  <2> QED
    BY <1>5, <2>3 DEF OneMore
<1> HIDE DEF k1
<1>9. k2 \in Seq(E) /\ Len(k2) = 2 /\ k2[1] = e1 /\ k2[2] = e2
  <2>0. \A n \in 1..1 : n = 1
    OBVIOUS
  <2>1. \A n \in 1..Len(k1) : k1[n].key # j
    <3> HIDE DEF e1
    <3> QED
      BY <1>4, <1>7, <1>8, <2>0
  <2>2. Entry(j, t, j) \in E
    BY <1>6
  <2>3. OneMore(E, k1, Entry(j, t, j), k2)
    BY <1>8, <2>1, <2>2, Appended
  <2> HIDE DEF k2
  <2> QED
    BY <1>8, <2>3 DEF OneMore
<1> HIDE DEF k2
<1>10. k3 \in Seq(E) /\ Len(k3) = 3 /\ k3[1] = e1 /\ k3[2] = e2 /\ k3[3] = e3
  <2>0. \A n \in 1..2 : n = 1 \/ n = 2
    OBVIOUS
  <2>1. \A n \in 1..Len(k2) : k2[n].key # s
    <3> HIDE DEF e1, e2
    <3> QED
      BY <1>4, <1>7, <1>9, <2>0
  <2>2. Entry(s, t, y) \in E
    BY <1>6
  <2>3. OneMore(E, k2, Entry(s, t, y), k3)
    BY <1>9, <2>1, <2>2, Appended
  <2> HIDE DEF k3
  <2> QED
    BY <1>9, <2>3 DEF OneMore
<1> HIDE DEF k3
<1>11. \A n \in 1..3 : n = 1 \/ n = 2 \/ n = 3
  OBVIOUS
<1>12. ASSUME NEW n \in 1..3
       PROVE  k3[n].key # <<>> /\ k3[n].key[1] \in {"cmd", "J", "shell_path"}
  <2> HIDE DEF e1, e2, e3
  <2> QED
    BY <1>4, <1>7, <1>10, <1>11
<1> QED
  BY <1>2, <1>10, <1>12 DEF c, x, t, E

\* The entries for a device list: how many there are, and each of them.
DevicesIn(b, list) ==
  IF list = AllowAll THEN b = <<>>
  ELSE /\ Len(b) = Len(list) + 1 /\ UniqueKeys(b)
       /\ b[1] = Entry(CountKey, "i", <<Num(Len(list))>>)
       /\ \A n \in 1..Len(list) : b[1 + n] = Entry(DevKey(n - 1), "s", EntryVal(list[n]))

\* They come behind the others and are all about devices.
LEMMA DeviceEncoded ==
  ASSUME NEW a \in Argvs, NEW o \in Options \cup HelperOptions, OptionsAreValid(o),
         NEW q \in Seq(ExecEntries(a, o)), \A n \in 1..Len(q) : q[n].key[1] # "device."
  PROVE  \E b \in Seq(ExecEntries(a, o)) :
           /\ DeviceEncode(q, DeviceAllow(o)) = q \o b
           /\ \A n \in 1..Len(b) : b[n].key # <<>> /\ b[n].key[1] = "device."
           /\ DevicesIn(b, DeviceAllow(o))
<1> DEFINE W == ExecWords(a, o)
           E == ExecEntries(a, o)
           list == DeviceAllow(o)
           dev == "device."
           cnt == "count"
<1>1. CASE list = AllowAll
  <2>1. <<>> \in Seq(E) /\ Len(<<>>) = 0
    OBVIOUS
  <2> HIDE DEF E
  <2>2. q \o <<>> = q
    BY ConcatEmptySeq
  <2>3. DeviceEncode(q, list) = q \o <<>>
    BY <1>1, <2>2 DEF DeviceEncode
  <2>4. \A n \in 1..Len(<<>>) : <<>>[n].key # <<>> /\ <<>>[n].key[1] = "device."
    BY <2>1
  <2> DEFINE none == <<>>
  <2>5. /\ none \in Seq(E) /\ DeviceEncode(q, list) = q \o none
        /\ \A n \in 1..Len(none) : none[n].key # <<>> /\ none[n].key[1] = "device."
        /\ DevicesIn(none, list)
    BY <1>1, <2>1, <2>3, <2>4 DEF DevicesIn
  <2> HIDE DEF none
  <2> QED
    BY <2>5 DEF E
<1>2. CASE list # AllowAll
  <2>1. list \in Seq(DeviceEntries(o)) /\ 0..Len(list) \subseteq DOMAIN Numerals
    BY <1>2, DeviceList
  <2>2. dev \in W /\ cnt \in W /\ Range(Numerals) \subseteq W /\ DeviceWords(o) \subseteq W
        /\ Letters \subseteq W
    BY DEF ExecWords, OwnWords
  <2>3. /\ dev # cnt /\ cnt \notin Range(Numerals) /\ "s" \in KvTypes /\ "i" \in KvTypes
        /\ \A n \in 1..Len(q) : q[n].key[1] # dev
    BY DeviceAssumption DEF KvTypes
  <2>0. CountKey = <<dev, cnt>> /\ \A n : DevKey(n) = <<dev, Num(n)>>
    BY DEF CountKey, DevKey
  <2> DEFINE N == Len(list)
             count == Entry(CountKey, "i", <<Num(N)>>)
             devs == [n \in DOMAIN list |-> Entry(DevKey(n - 1), "s", EntryVal(list[n]))]
             counted == KvPut(q, CountKey, "i", <<Num(N)>>)
  <2>4. DeviceEncode(q, list) = PutAll(counted, devs)
    BY <1>2 DEF DeviceEncode
  <2>5. N \in Nat /\ DOMAIN list = 1..N
    BY <2>1
  <2> HIDE DEF W, E, list, dev, cnt, N
  <2>6. \A n \in 0..N : n \in DOMAIN Numerals /\ Num(n) \in W /\ Num(n) # cnt
    <3>1. \A n \in 0..N : n \in DOMAIN Numerals
      BY <2>1 DEF N
    <3>2. \A n \in 0..N : Num(n) \in Range(Numerals)
      BY <3>1 DEF Num, Range
    <3> QED
      BY <2>2, <2>3, <3>1, <3>2
  <2>7. CountKey \in Seq(W) /\ CountKey # <<>> /\ CountKey[1] = dev /\ CountKey[2] = cnt
    <3>1. /\ <<dev, cnt>> \in Seq(W) /\ <<dev, cnt>>[1] = dev /\ <<dev, cnt>>[2] = cnt
          /\ <<dev, cnt>> # <<>>
      BY <2>2, Two
    <3> QED
      BY <2>0, <3>1
  <2>8. \A n \in 0..N : /\ DevKey(n) \in Seq(W) /\ DevKey(n) # <<>>
                        /\ DevKey(n)[1] = dev /\ DevKey(n)[2] = Num(n)
    <3> SUFFICES ASSUME NEW n \in 0..N
                 PROVE  /\ DevKey(n) \in Seq(W) /\ DevKey(n) # <<>>
                        /\ DevKey(n)[1] = dev /\ DevKey(n)[2] = Num(n)
      OBVIOUS
    <3> DEFINE m == Num(n)
    <3>1. m \in W
      BY <2>6
    <3> HIDE DEF m
    <3>2. /\ <<dev, m>> \in Seq(W) /\ <<dev, m>>[1] = dev /\ <<dev, m>>[2] = m
          /\ <<dev, m>> # <<>>
      BY <2>2, <3>1, Two
    <3> QED
      BY <2>0, <3>2 DEF m
  <2>9. ASSUME NEW n \in 1..N PROVE EntryVal(list[n]) \in Seq(W)
    <3>1. list[n] \in DeviceEntries(o)
      BY <2>1 DEF N
    <3> DEFINE t == list[n].type
               x == list[n].major
               y == list[n].minor
    <3>2. t \in DeviceWords(o) /\ x \in DeviceWords(o) /\ y \in DeviceWords(o)
          /\ list[n].access \in Seq(Letters)
      BY <3>1 DEF DeviceEntries
    <3>3. t \in W /\ x \in W /\ y \in W
      BY <2>2, <3>2
    <3>4. list[n].access \in Seq(W)
      BY <2>2, <3>2, SeqMonotonic
    <3>5. EntryVal(list[n]) = <<t, x, y>> \o list[n].access
      BY DEF EntryVal
    <3> HIDE DEF t, x, y
    <3>6. <<t, x, y>> \in Seq(W)
      BY <3>3
    <3> QED
      BY <3>4, <3>5, <3>6, ConcatProperties
  <2>10. count \in E /\ count.key = CountKey
    <3>1. Num(N) \in W
      BY <2>5, <2>6
    <3> DEFINE m == Num(N)
    <3> HIDE DEF m
    <3>2. <<m>> \in Seq(W)
      BY <3>1, One DEF m
    <3>3. Entry(CountKey, "i", <<m>>) \in EntriesOf(W, KvTypes, Seq(W))
      BY <2>3, <2>7, <3>2, WordsEntry
    <3> QED
      BY <3>3, EntryFields DEF m, E, W, ExecEntries
  <2>11. ASSUME NEW n \in 1..N
         PROVE  /\ devs[n] \in E /\ Put(devs, n) = devs[n] /\ devs[n].key = DevKey(n - 1)
    <3>1. devs[n] = Entry(DevKey(n - 1), "s", EntryVal(list[n]))
      BY <2>5
    <3>2. n - 1 \in 0..N
      BY <2>5
    <3>3. DevKey(n - 1) \in Seq(W) /\ EntryVal(list[n]) \in Seq(W)
      BY <2>8, <2>9, <3>2
    <3>4. Entry(DevKey(n - 1), "s", EntryVal(list[n])) \in EntriesOf(W, KvTypes, Seq(W))
      BY <2>3, <3>3, WordsEntry
    <3> HIDE DEF devs
    <3> QED
      BY <3>1, <3>4, EntryFields DEF Put, E, W, ExecEntries
  <2>12. devs \in Seq(E) /\ Len(devs) = N
    <3>1. devs \in [1..N -> E]
      BY <2>5, <2>11
    <3> HIDE DEF devs
    <3> QED
      BY <2>5, <3>1
  <2> HIDE DEF devs, count
  <2>13. counted = q \o <<count>> /\ counted \in Seq(E) /\ Len(counted) = Len(q) + 1
         /\ (\A n \in 1..Len(q) : counted[n] = q[n]) /\ counted[Len(q) + 1] = count
    <3>1. q \in Seq(E)
      BY DEF E
    <3>2. \A n \in 1..Len(q) : q[n].key # CountKey
      BY <2>3, <2>7
    <3>3. OneMore(E, q, count, counted)
      BY <2>10, <3>1, <3>2, Appended DEF count
    <3> QED
      BY <3>3 DEF OneMore
  <2>14. UniqueKeys(devs)
    <3>1. ASSUME NEW m \in 1..N, NEW n \in 1..N, devs[m].key = devs[n].key
          PROVE  m = n
      <4>1. m - 1 \in 0..N /\ n - 1 \in 0..N
        BY <2>5
      <4>2. Num(m - 1) = Num(n - 1)
        BY <2>8, <2>11, <3>1, <4>1
      <4>3. m - 1 = n - 1
        BY <2>6, <4>1, <4>2, DeviceAssumption DEF Num
      <4> QED
        BY <4>3
    <3>2. DOMAIN devs = 1..N
      BY <2>5, <2>12
    <3> QED
      BY <3>1, <3>2 DEF UniqueKeys
  <2>15. \A n \in 1..N : devs[n].key \notin Keys(counted)
    <3> SUFFICES ASSUME NEW n \in 1..N PROVE devs[n].key \notin Keys(counted)
      OBVIOUS
    <3>1. n - 1 \in 0..N
      BY <2>5
    <3>2. devs[n].key[1] = dev /\ devs[n].key[2] # cnt
      BY <2>6, <2>8, <2>11, <3>1
    <3>3. ASSUME NEW m \in 1..Len(counted) PROVE counted[m].key # devs[n].key
      <4>1. CASE m = Len(q) + 1
        <5>1. counted[m].key = CountKey
          BY <2>10, <2>13, <4>1
        <5> QED
          BY <2>7, <3>2, <5>1
      <4>2. CASE m # Len(q) + 1
        <5>1. m \in 1..Len(q)
          BY <2>13, <4>2
        <5> QED
          BY <2>3, <2>13, <3>2, <5>1
      <4> QED
        BY <4>1, <4>2
    <3> QED
      BY <2>13, <3>3, NotAmongKeys
  <2>16. PutAll(counted, devs) = counted \o devs
    BY <2>11, <2>12, <2>13, <2>14, <2>15, PutAllNew
  <2> DEFINE b == <<count>> \o devs
  <2>17. counted \o devs = q \o b
    <3>1. q \in Seq(E) /\ <<count>> \in Seq(E)
      BY <2>10, One DEF E
    <3>2. (q \o <<count>>) \o devs = q \o (<<count>> \o devs)
      BY <2>12, <3>1, ConcatAssociative
    <3> QED
      BY <2>13, <3>2
  <2>18. /\ b \in Seq(E) /\ Len(b) = N + 1 /\ b[1] = count
         /\ \A n \in 1..N : b[1 + n] = devs[n]
    <3>1. <<count>> \in Seq(E) /\ Len(<<count>>) = 1 /\ <<count>>[1] = count
      BY <2>10, One
    <3>2. /\ b \in Seq(E) /\ Len(b) = 1 + N
          /\ \A n \in 1..(1 + N) : b[n] = IF n <= 1 THEN <<count>>[n] ELSE devs[n - 1]
      BY <2>12, <3>1, ConcatProperties
    <3>3. 1 \in 1..(1 + N) /\ \A n \in 1..N : 1 + n \in 1..(1 + N) /\ ~(1 + n <= 1) /\ (1 + n) - 1 = n
      BY <2>5
    <3> HIDE DEF b
    <3> QED
      BY <2>5, <3>1, <3>2, <3>3
  <2> HIDE DEF b
  <2>19. ASSUME NEW n \in 1..Len(b) PROVE b[n].key # <<>> /\ b[n].key[1] = dev
    <3>1. CASE n = 1
      BY <2>7, <2>10, <2>18, <3>1
    <3>2. CASE n # 1
      <4>1. n - 1 \in 1..N /\ 1 + (n - 1) = n /\ (n - 1) - 1 \in 0..N
        BY <2>5, <2>18, <3>2
      <4>2. b[n] = devs[n - 1]
        BY <2>18, <4>1
      <4>3. devs[n - 1].key = DevKey((n - 1) - 1)
        BY <2>11, <4>1
      <4> QED
        BY <2>8, <4>1, <4>2, <4>3
    <3> QED
      BY <3>1, <3>2
  <2>20. \A n \in 1..N : devs[n] = Entry(DevKey(n - 1), "s", EntryVal(list[n]))
    BY <2>5 DEF devs
  <2>21. UniqueKeys(b)
    <3>1. DOMAIN b = 1..(1 + N) /\ DOMAIN devs = 1..N
      BY <2>5, <2>12, <2>18
    <3>2. ASSUME NEW n \in 1..N PROVE devs[n].key # CountKey
      <4>1. n - 1 \in 0..N
        BY <2>5
      <4>2. devs[n].key[2] # cnt
        BY <2>6, <2>8, <2>11, <4>1
      <4> QED
        BY <2>7, <4>2
    <3>3. \A n \in 1..(1 + N) : n = 1 \/ (n - 1 \in 1..N /\ 1 + (n - 1) = n)
      BY <2>5
    <3>4. ASSUME NEW m \in 1..(1 + N), NEW n \in 1..(1 + N), b[m].key = b[n].key PROVE m = n
      <4>1. CASE m = 1 /\ n # 1
        BY <2>10, <2>18, <3>2, <3>3, <3>4, <4>1
      <4>2. CASE m # 1 /\ n = 1
        BY <2>10, <2>18, <3>2, <3>3, <3>4, <4>2
      <4>3. CASE m # 1 /\ n # 1
        <5>1. devs[m - 1].key = devs[n - 1].key /\ m - 1 \in 1..N /\ n - 1 \in 1..N
          BY <2>18, <3>3, <3>4, <4>3
        <5>2. m - 1 = n - 1
          BY <2>14, <3>1, <5>1 DEF UniqueKeys
        <5> QED
          BY <5>2
      <4> QED
        BY <4>1, <4>2, <4>3
    <3> QED
      BY <3>1, <3>4 DEF UniqueKeys
  <2>22. DevicesIn(b, list)
    BY <1>2, <2>18, <2>20, <2>21 DEF DevicesIn, N, count
  <2> QED
    BY <2>4, <2>16, <2>17, <2>18, <2>19, <2>22 DEF E, list, dev
<1> QED
  BY <1>1, <1>2

\* A kv between two others.
LEMMA JoinedAt ==
  ASSUME NEW S, NEW x \in Seq(S), NEW y \in Seq(S), NEW n \in 1..Len(x \o y)
  PROVE  \/ n \in 1..Len(x) /\ (x \o y)[n] = x[n]
         \/ n - Len(x) \in 1..Len(y) /\ (x \o y)[n] = y[n - Len(x)]
<1>1. /\ Len(x \o y) = Len(x) + Len(y) /\ Len(x) \in Nat /\ Len(y) \in Nat
      /\ (x \o y)[n] = IF n <= Len(x) THEN x[n] ELSE y[n - Len(x)]
  BY ConcatProperties
<1> QED
  BY <1>1

LEMMA KeysOf ==
  ASSUME NEW K, NEW T, NEW V, NEW q \in Seq(EntriesOf(K, T, V))
  PROVE  \A n \in 1..Len(q) : q[n].key \in Seq(K)
<1>1. \A n \in 1..Len(q) : q[n] \in EntriesOf(K, T, V)
  OBVIOUS
<1> QED
  BY <1>1 DEF EntriesOf

\* What exec's child puts in the kv can be encoded, and the arguments come out of it
\* again as kv_encode_argv numbered them.
LEMMA ExecSentIs ==
  ASSUME NEW a \in Argvs, NEW o \in Options \cup HelperOptions, OptionsAreValid(o)
  PROVE  /\ Storable(ExecSent(a, o))
         /\ KvSplit(ExecSent(a, o), <<"args">>) = EncodeArgv(a)
         /\ 1 \in DOMAIN ExecSent(a, o)
         /\ ExecSent(a, o)[1] = Entry(<<"cmd">>, "s", <<"exec">>)
         /\ \E q, b \in Seq(ExecEntries(a, o)) :
              /\ ExecSent(a, o) = q \o b /\ DevicesIn(b, DeviceAllow(o))
              /\ \A n \in 1..Len(q) : q[n].key[1] # "device."
<1> DEFINE W == ExecWords(a, o)
           E == EntriesOf(W, KvTypes, Seq(W))
           p == "args"
           args == <<p>>
           named == NamedKv(a)
           nums == EncodeArgv(a)
           pre == Prefixed(nums, args)
           joined == KvJoin(named, nums, args)
           cmd == Entry(<<"cmd">>, "s", <<"exec">>)
<1>1. /\ OwnWords \subseteq W /\ Range(Numerals) \subseteq W /\ Range(a) \subseteq W
      /\ NUL \notin W /\ p \in W
  BY ExecWordsClean DEF ExecWords, OwnWords
<1>2. p \notin {"cmd", "J", "shell_path"} /\ "device." \notin {"cmd", "J", "shell_path"}
      /\ p # "device."
  OBVIOUS
<1> DEFINE first == {"cmd", "J", "shell_path"}
           dev == "device."
<1>0. p \notin first /\ dev \notin first /\ p # dev
  BY <1>2
<1>3. ExecSent(a, o) = DeviceEncode(joined, DeviceAllow(o))
  BY DEF ExecSent
<1> HIDE DEF W, first, dev
<1>4. /\ named \in Seq(E) /\ Len(named) = 3
      /\ \A n \in 1..Len(named) : named[n].key # <<>> /\ named[n].key[1] \in first
      /\ named[1] = cmd
  BY <1>1, NamedKvIs DEF first
<1>5. /\ nums \in Seq(E) /\ UniqueKeys(nums)
      /\ \A n \in 1..Len(nums) : nums[n].key # <<>>
  BY <1>1, ArgvEncoded
<1> HIDE DEF p, named, nums, cmd
<1>6. args \in Seq(W) /\ args[1] = p /\ Len(args) = 1
  BY <1>1, One
<1> HIDE DEF args
<1>7. \A n \in 1..Len(nums) : nums[n].key \in Seq(W)
  BY <1>5, KeysOf
<1>8. \A n \in 1..Len(nums) : args \o nums[n].key # <<>> /\ (args \o nums[n].key)[1] = p
  <2> SUFFICES ASSUME NEW n \in 1..Len(nums)
               PROVE  args \o nums[n].key # <<>> /\ (args \o nums[n].key)[1] = p
    OBVIOUS
  <2> DEFINE key == nums[n].key
  <2>1. key \in Seq(W)
    BY <1>7
  <2> HIDE DEF key
  <2>2. Len(key) \in Nat /\ Len(args \o key) = 1 + Len(key) /\ 1 \in 1..(1 + Len(key))
        /\ args \o key \in Seq(W)
    <3>1. Len(key) \in Nat
      BY <2>1
    <3>2. Len(args \o key) = Len(args) + Len(key) /\ args \o key \in Seq(W)
      BY <1>6, <2>1, ConcatProperties
    <3> QED
      BY <1>6, <3>1, <3>2
  <2>3. (args \o key)[1] = args[1]
    BY <1>6, <2>1, <2>2, ConcatProperties
  <2>4. args \o key # <<>>
    BY <2>2
  <2> QED
    BY <1>6, <2>3, <2>4 DEF key
<1> HIDE DEF E
<1>9. \A n \in 1..Len(nums) : args \o nums[n].key \notin Keys(named)
  BY <1>0, <1>4, <1>8, NotAmongKeys
<1>10. joined = named \o pre
  <2>1. named \in Seq(EntriesOf(W, KvTypes, Seq(W))) /\ nums \in Seq(EntriesOf(W, KvTypes, Seq(W)))
    BY <1>4, <1>5 DEF E
  <2> QED
    BY <1>5, <1>6, <1>9, <2>1, JoinNew
<1>11. /\ pre \in Seq(E) /\ Len(pre) = Len(nums)
       /\ \A n \in 1..Len(nums) : pre[n].key = args \o nums[n].key
  <2>1. nums \in Seq(EntriesOf(W, KvTypes, Seq(W)))
    BY <1>5 DEF E
  <2>2. /\ pre \in Seq(EntriesOf(W, KvTypes, Seq(W))) /\ Len(pre) = Len(nums)
        /\ \A n \in 1..Len(nums) :
             pre[n] = Entry(args \o nums[n].key, nums[n].type, nums[n].val)
    BY <1>6, <2>1, PrefixedIs
  <2> HIDE DEF pre
  <2>3. ASSUME NEW n \in 1..Len(nums) PROVE pre[n].key = args \o nums[n].key
    <3>1. Entry(args \o nums[n].key, nums[n].type, nums[n].val).key = args \o nums[n].key
      BY DEF Entry
    <3> QED
      BY <2>2, <3>1
  <2> QED
    BY <2>2, <2>3 DEF E
<1> HIDE DEF pre, joined
<1>12. \A n \in 1..Len(pre) : pre[n].key # <<>> /\ pre[n].key[1] = p
  BY <1>8, <1>11
<1>13. joined \in Seq(E) /\ \A n \in 1..Len(joined) : joined[n].key # <<>> /\ joined[n].key[1] # dev
  <2>1. joined \in Seq(E)
    BY <1>4, <1>10, <1>11, ConcatProperties
  <2>2. ASSUME NEW n \in 1..Len(joined) PROVE joined[n].key # <<>> /\ joined[n].key[1] # dev
    <3>1. \/ n \in 1..Len(named) /\ joined[n] = named[n]
          \/ n - Len(named) \in 1..Len(pre) /\ joined[n] = pre[n - Len(named)]
      BY <1>4, <1>10, <1>11, JoinedAt
    <3> QED
      BY <1>0, <1>4, <1>12, <3>1
  <2> QED
    BY <2>1, <2>2
<1>14. joined \in Seq(ExecEntries(a, o)) /\ \A n \in 1..Len(joined) : joined[n].key[1] # "device."
  BY <1>13 DEF ExecEntries, E, W, dev
<1>15. PICK b \in Seq(E) : /\ DeviceEncode(joined, DeviceAllow(o)) = joined \o b
                           /\ \A n \in 1..Len(b) : b[n].key # <<>> /\ b[n].key[1] = dev
                           /\ DevicesIn(b, DeviceAllow(o))
  <2>1. \E b \in Seq(ExecEntries(a, o)) :
           /\ DeviceEncode(joined, DeviceAllow(o)) = joined \o b
           /\ \A n \in 1..Len(b) : b[n].key # <<>> /\ b[n].key[1] = "device."
           /\ DevicesIn(b, DeviceAllow(o))
    BY <1>14, DeviceEncoded
  <2> QED
    BY <2>1 DEF ExecEntries, E, W, dev
<1> DEFINE sent == joined \o b
<1>16. sent \in Seq(E) /\ \A n \in 1..Len(sent) : sent[n].key # <<>>
  <2>1. sent \in Seq(E)
    BY <1>13, <1>15, ConcatProperties
  <2>2. ASSUME NEW n \in 1..Len(sent) PROVE sent[n].key # <<>>
    <3>1. \/ n \in 1..Len(joined) /\ sent[n] = joined[n]
          \/ n - Len(joined) \in 1..Len(b) /\ sent[n] = b[n - Len(joined)]
      BY <1>13, <1>15, JoinedAt
    <3> QED
      BY <1>13, <1>15, <3>1
  <2> QED
    BY <2>1, <2>2
<1> HIDE DEF sent
<1>17. Storable(sent)
  <2>1. sent \in Seq(EntriesOf(W, KvTypes, Seq(W)))
    BY <1>16 DEF E
  <2> QED
    BY <1>1, <1>16, <2>1, StorableIf
<1>18. /\ \A n \in 1..Len(named) : ~IsStrictPrefix(args, named[n].key)
       /\ \A n \in 1..Len(b) : ~IsStrictPrefix(args, b[n].key)
  <2>1. ASSUME NEW key \in Seq(W), key # <<>>, key[1] # p PROVE ~IsStrictPrefix(args, key)
    BY <1>1, <2>1, FirstDiffers DEF args
  <2>2. \A n \in 1..Len(named) : named[n].key \in Seq(W)
    BY <1>4, KeysOf DEF E
  <2>3. \A n \in 1..Len(b) : b[n].key \in Seq(W)
    BY <1>15, KeysOf DEF E
  <2> QED
    BY <1>0, <1>4, <1>15, <2>1, <2>2, <2>3
<1>19. KvSplit(sent, args) = nums
  <2>1. /\ named \in Seq(EntriesOf(W, KvTypes, Seq(W))) /\ nums \in Seq(EntriesOf(W, KvTypes, Seq(W)))
        /\ b \in Seq(EntriesOf(W, KvTypes, Seq(W)))
    BY <1>4, <1>5, <1>15 DEF E
  <2>2. sent = (named \o Prefixed(nums, args)) \o b
    BY <1>10 DEF sent, pre
  <2>3. KvSplit((named \o Prefixed(nums, args)) \o b, args) = nums
    BY <1>5, <1>6, <1>18, <2>1, SplitBlock
  <2> QED
    BY <2>2, <2>3
<1>20. 1 \in DOMAIN sent /\ sent[1] = cmd
  <2>1. /\ Len(joined) = Len(named) + Len(pre) /\ Len(pre) \in Nat
        /\ \A n \in 1..Len(named) : joined[n] = named[n]
    <3>1. named \in Seq(E) /\ pre \in Seq(E)
      BY <1>4, <1>11
    <3>2. /\ Len(named \o pre) = Len(named) + Len(pre) /\ Len(pre) \in Nat
          /\ \A n \in 1..Len(named) : (named \o pre)[n] = named[n]
      BY <3>1, ConcatProperties
    <3> QED
      BY <1>10, <3>2
  <2>2. 1 \in 1..Len(named) /\ 1 \in 1..Len(joined)
    BY <1>4, <2>1
  <2>3. joined[1] = cmd
    BY <1>4, <2>1, <2>2
  <2>4. /\ Len(sent) = Len(joined) + Len(b) /\ Len(b) \in Nat
        /\ \A n \in 1..Len(joined) : sent[n] = joined[n]
    <3>1. /\ Len(joined \o b) = Len(joined) + Len(b) /\ Len(b) \in Nat
          /\ \A n \in 1..Len(joined) : (joined \o b)[n] = joined[n]
      BY <1>13, <1>15, ConcatProperties
    <3> QED
      BY <3>1 DEF sent
  <2>5. DOMAIN sent = 1..Len(sent)
    BY <1>16
  <2> QED
    BY <2>2, <2>3, <2>4, <2>5
<1>21. \E r, s \in Seq(ExecEntries(a, o)) :
         /\ ExecSent(a, o) = r \o s /\ DevicesIn(s, DeviceAllow(o))
         /\ \A n \in 1..Len(r) : r[n].key[1] # "device."
  <2>1. b \in Seq(ExecEntries(a, o))
    BY <1>15 DEF ExecEntries, E, W
  <2> QED
    BY <1>3, <1>14, <1>15, <2>1
<1> QED
  BY <1>3, <1>15, <1>17, <1>19, <1>20, <1>21 DEF sent, args, p, nums, cmd

\* The arguments of the job are those of the request.
LEMMA ArgvArrives ==
  ASSUME NEW a \in Argvs, NEW o \in Options \cup HelperOptions, OptionsAreValid(o), NEW args,
         args = KvSplit(ExecSent(a, o), <<"args">>)
  PROVE  [n \in DOMAIN args |-> args[n].val] = [n \in DOMAIN a |-> <<a[n]>>]
<1> DEFINE W == Range(Numerals) \cup Range(a)
<1>1. args = EncodeArgv(a)
  BY ExecSentIs
<1>2. /\ EncodeArgv(a) \in Seq(EntriesOf(W, KvTypes, Seq(W)))
      /\ Len(EncodeArgv(a)) = Len(a) /\ Len(a) \in Nat
      /\ \A n \in 1..Len(a) : EncodeArgv(a)[n].val = <<a[n]>>
  <2>1. Range(Numerals) \subseteq W /\ Range(a) \subseteq W
    OBVIOUS
  <2> HIDE DEF W
  <2> QED
    BY <2>1, ArgvEncoded
<1> HIDE DEF W
<1>3. DOMAIN args = 1..Len(a) /\ DOMAIN a = 1..Len(a)
  BY <1>1, <1>2, StringsAssumption DEF Sequence
<1> QED
  BY <1>1, <1>2, <1>3

-----------------------------------------------------------------------------
(* What the child makes of its input, and what arrives of it.               *)

EnvVar(v) == Entry(<<v.name>>, "s", <<v.val>>)

SentVar(v) == Entry(EnvPrefix \o <<v.name>>, "s", <<v.val>>)

Passes(v) == allowed # Unset /\ v.name \notin LongNames /\ VarAllowed(<<v.name>>)

\* Of the variables before place j those that are sent: the last of each name.
Final(j) ==
  {n \in 1..(j - 1) : /\ Passes(environ[n])
                      /\ \A m \in (n + 1)..(j - 1) : environ[m].name # environ[n].name}

Everything == Final(Len(environ) + 1)

Asked == {Entry(<<"cmd">>, "s", <<"run">>), Entry(<<"command">>, "s", <<"prolog">>)}

RunSent(k, j) ==
  /\ Storable(k) /\ UniqueKeys(k)
  /\ Range(k) = Asked \cup {SentVar(environ[n]) : n \in Final(j)}

AsSent(k) == IF argv = <<>> THEN RunSent(k, Len(environ) + 1) ELSE k = ExecSent(argv, options)

\* The variables that are among the first d entries of k.
Carried(k, d) ==
  {EnvVar(environ[n]) : n \in {m \in Everything : \E l \in 1..d : k[l] = SentVar(environ[m])}}

Arrived == {EnvVar(environ[n]) : n \in Everything}

NotOwn(set) == {e \in set : \A n \in 1..Len(Own) : e.key # Own[n].key}

BeforeWrite == {"put_run", "put_env", "popen", "put_exec"} \cup Listening

InRun == {"split", "filter", "own", "run"}

\* Whose input it is and what is known of it.
InputInv ==
  /\ pc \in BeforeWrite \cup {"write"} => sender = "child"
  /\ pc \in {"put_run", "put_env"} => argv = <<>>
  /\ pc \in {"popen", "put_exec"} \cup Listening => argv # <<>>
  /\ sender = "child" => \/ argv = <<>> /\ environ \in Environs
                         \/ argv \in Argvs /\ options \in Options \cup HelperOptions
  /\ sender = "child" /\ argv # <<>> /\ pc \in {"wait"} \cup Taken => OptionsAreValid(options)

CarryInv ==
  /\ pc = "put_run" => kv = CmdKv("run")
  /\ pc \in {"popen", "put_exec"} \cup Listening => kv = CmdKv("exec")
  /\ pc = "put_env" => allowed # Unset /\ i \in 1..(Len(environ) + 1) /\ RunSent(kv, i)
  /\ pc \notin InRun => env = <<>>
  /\ sender = "child" =>
       /\ pc \in {"write", "received", "split"} => AsSent(kv)
       /\ pc = "read" => wire = KvEncode(Entries(wire)) /\ AsSent(Entries(wire))
       /\ pc \in InRun => argv = <<>>
       /\ pc = "split" => /\ i \in 0..Len(kv)
                          /\ Range(env) = Carried(kv, IF i = 0 THEN Len(kv) ELSE i - 1)
       /\ pc = "filter" => Range(env) = Arrived
       /\ pc \in {"own", "run"} => NotOwn(Range(env)) = NotOwn(Arrived)
       /\ pc = "exec" => argv # <<>> /\ result = [n \in DOMAIN argv |-> <<argv[n]>>]

Sound(e) == Sequence(e.key) /\ e.key # <<>> /\ e.type \in KvTypes

TypeInv ==
  /\ \A k \in {kv, env, split} : Sequence(k) /\ \A n \in DOMAIN k : Sound(k[n])
  /\ Sequence(pipe) /\ Len(pipe) <= PipeSize /\ writers \subseteq {"exec", "helper"}
  /\ Sequence(wire)
  /\ pc = "split" => i \in 0..Len(kv)
  /\ pc = "filter" => i \in 0..Len(env)

LEMMA CleanSeq ==
  ASSUME NEW W, NUL \notin W, NEW s \in Seq(W)
  PROVE  Clean(s)
<1>1. Range(s) \subseteq W
  BY DEF Range
<1>2. s \in Seq(Range(s))
  BY SeqOfRange
<1> QED
  BY <1>1, <1>2 DEF Clean

LEMMA StorablePut ==
  ASSUME NEW k, Storable(k), NEW key, NEW type, NEW val, Codable(Entry(key, type, val))
  PROVE  Storable(KvPut(k, key, type, val))
<1> DEFINE p == KvPut(k, key, type, val)
           e == Entry(key, type, val)
<1>1. Sequence(k) /\ \A n \in DOMAIN k : Codable(k[n])
  BY DEF Storable
<1>2. Sequence(p) /\ Range(p) \subseteq Range(k) \cup {e}
  BY <1>1, SequencePut
<1> HIDE DEF p, e
<1>3. \A x \in Range(p) : Codable(x)
  <2>1. \A x \in Range(k) : Codable(x)
    BY <1>1 DEF Range
  <2>2. Codable(e)
    BY DEF e
  <2> QED
    BY <1>2, <2>1, <2>2
<1>4. \A n \in DOMAIN p : p[n] \in Range(p)
  BY DEF Range
<1>5. Storable(p)
  BY <1>2, <1>3, <1>4 DEF Storable
<1> QED
  BY <1>5 DEF p

LEMMA StorableSound ==
  ASSUME NEW k, Storable(k)
  PROVE  Sequence(k) /\ \A n \in DOMAIN k : Sound(k[n])
BY DEF Storable, Codable, Clean, Sound, Sequence

LEMMA PlainEntry ==
  ASSUME NEW W, NUL \notin W, NEW key \in Seq(W), key # <<>>, NEW val \in Seq(W)
  PROVE  Codable(Entry(key, "s", val))
<1>1. "s" \in KvTypes
  BY DEF KvTypes
<1>2. Clean(key) /\ Clean(val)
  BY CleanSeq
<1> QED
  BY <1>1, <1>2 DEF Codable, Entry

\* A kv with nothing but the name of a command in it.
LEMMA CmdKvIs ==
  ASSUME NEW cmd, cmd # NUL
  PROVE  /\ Storable(CmdKv(cmd)) /\ UniqueKeys(CmdKv(cmd))
         /\ Range(CmdKv(cmd)) = {Entry(<<"cmd">>, "s", <<cmd>>)}
<1> DEFINE c == <<"cmd">>
           x == <<cmd>>
           k0 == <<>>
           W == {"cmd", cmd}
           t == "s"
<1>1. c \in Seq(W) /\ x \in Seq(W) /\ c # <<>> /\ NUL \notin W
  BY One DEF NUL
<1>2. Storable(k0) /\ UniqueKeys(k0) /\ Range(k0) = {} /\ Sequence(k0)
  BY DEF Storable, Sequence, UniqueKeys, Range
<1>3. CmdKv(cmd) = KvPut(k0, c, t, x)
  BY DEF CmdKv
<1> HIDE DEF c, x, k0, W
<1>4. Codable(Entry(c, t, x))
  BY <1>1, PlainEntry
<1> HIDE DEF t
<1>5. Storable(KvPut(k0, c, t, x))
  BY <1>2, <1>4, StorablePut
<1>6. /\ Range(KvPut(k0, c, t, x)) \subseteq Range(k0) \cup {Entry(c, t, x)}
      /\ Entry(c, t, x) \in Range(KvPut(k0, c, t, x))
      /\ UniqueKeys(KvPut(k0, c, t, x))
  BY <1>2, SequencePut
<1>7. Range(KvPut(k0, c, t, x)) = {Entry(c, t, x)}
  BY <1>2, <1>6
<1> QED
  BY <1>3, <1>5, <1>6, <1>7 DEF c, x, t

\* Variables of the caller can be sent, under keys that nothing else has.
LEMMA SentVarIs ==
  ASSUME environ \in Environs, NEW n \in 1..Len(environ)
  PROVE  /\ Codable(SentVar(environ[n])) /\ Codable(EnvVar(environ[n]))
         /\ SentVar(environ[n]).key = EnvPrefix \o <<environ[n].name>>
         /\ \A e \in Asked : e.key # EnvPrefix \o <<environ[n].name>>
         /\ IsStrictPrefix(EnvPrefix, EnvPrefix \o <<environ[n].name>>)
         /\ Stripped(EnvPrefix \o <<environ[n].name>>, EnvPrefix) = <<environ[n].name>>
<1> DEFINE x == environ[n].name
           y == environ[n].val
           p == "IMP_RUN_ENV_"
           W == {p, x, y}
           long == EnvPrefix \o <<x>>
<1>1. x # NUL /\ y # NUL
  <2>1. Sequence(environ) /\ \A v \in Range(environ) : v.name # NUL /\ v.val # NUL
    BY StringsAssumption
  <2>2. environ[n] \in Range(environ)
    BY <2>1 DEF Range, Sequence
  <2> QED
    BY <2>1, <2>2
<1>2. NUL \notin W
  BY <1>1 DEF NUL
<1>3. EnvPrefix = <<p>>
  BY DEF EnvPrefix
<1>4. /\ SentVar(environ[n]) = Entry(long, "s", <<y>>)
      /\ EnvVar(environ[n]) = Entry(<<x>>, "s", <<y>>)
  BY DEF SentVar, EnvVar
<1>5. <<x>> \in Seq(W) /\ <<y>> \in Seq(W) /\ <<x>> # <<>>
      /\ <<p>> \in Seq(W) /\ p \in W /\ x \in W
  BY One
<1> HIDE DEF x, y, p, W
<1>6. long \in Seq(W) /\ Len(long) = 2 /\ long # <<>>
  <2>1. long = <<p, x>>
    BY <1>3, <1>5, TwoIsConcat
  <2>2. <<p, x>> \in Seq(W) /\ Len(<<p, x>>) = 2 /\ <<p, x>> # <<>>
    BY <1>5, Two
  <2> HIDE DEF long
  <2> QED
    BY <2>1, <2>2
<1>7. Stripped(long, EnvPrefix) = <<x>> /\ IsStrictPrefix(EnvPrefix, long)
  BY <1>3, <1>5, Stripping
<1> HIDE DEF long
<1>9. Codable(Entry(long, "s", <<y>>)) /\ Codable(Entry(<<x>>, "s", <<y>>))
  BY <1>2, <1>5, <1>6, PlainEntry
<1>10. Entry(long, "s", <<y>>).key = long
  BY DEF Entry
<1>11. ASSUME NEW e \in Asked PROVE e.key # long
  <2>1. Len(e.key) = 1 /\ 1 # 2
    BY <1>11 DEF Asked, Entry
  <2> HIDE DEF long
  <2> QED
    BY <1>6, <2>1
<1> QED
  BY <1>4, <1>7, <1>9, <1>10, <1>11 DEF long, x

\* Other variables have other keys.
LEMMA SentVarKeys ==
  ASSUME environ \in Environs, NEW m \in 1..Len(environ), NEW n \in 1..Len(environ)
  PROVE  /\ SentVar(environ[m]).key = SentVar(environ[n]).key <=> environ[m].name = environ[n].name
         /\ EnvVar(environ[m]).key = EnvVar(environ[n]).key <=> environ[m].name = environ[n].name
         /\ EnvVar(environ[n]).key = <<environ[n].name>>
<1> DEFINE x == environ[m].name
           y == environ[n].name
<1>1. /\ Stripped(EnvPrefix \o <<x>>, EnvPrefix) = <<x>> /\ SentVar(environ[m]).key = EnvPrefix \o <<x>>
  BY SentVarIs
<1>2. /\ Stripped(EnvPrefix \o <<y>>, EnvPrefix) = <<y>> /\ SentVar(environ[n]).key = EnvPrefix \o <<y>>
  BY SentVarIs
<1>3. EnvVar(environ[m]).key = <<x>> /\ EnvVar(environ[n]).key = <<y>>
  BY DEF EnvVar, Entry
<1> HIDE DEF x, y
<1>4. <<x>> = <<y>> <=> x = y
  OBVIOUS
<1>5. EnvPrefix \o <<x>> = EnvPrefix \o <<y>> <=> x = y
  <2>1. ASSUME EnvPrefix \o <<x>> = EnvPrefix \o <<y>> PROVE <<x>> = <<y>>
    BY <1>1, <1>2, <2>1
  <2> QED
    BY <1>4, <2>1
<1> QED
  BY <1>1, <1>2, <1>3, <1>4, <1>5 DEF x, y

LEMMA OneOfKey ==
  ASSUME NEW k, UniqueKeys(k), NEW x \in Range(k), NEW y \in Range(k), x.key = y.key
  PROVE  x = y
BY DEF Range, UniqueKeys

\* imp_run_put_kv before the variables.
LEMMA CommandPut ==
  ASSUME NEW k, k = KvPut(CmdKv("run"), <<"command">>, "s", <<"prolog">>)
  PROVE  /\ RunSent(k, 1)
         /\ allowed = Unset => RunSent(k, Len(environ) + 1)
<1> DEFINE q == CmdKv("run")
           c == <<"command">>
           x == <<"prolog">>
           t == "s"
           e == Entry(<<"cmd">>, "s", <<"run">>)
           W == {"command", "prolog"}
<1>1. /\ Storable(q) /\ UniqueKeys(q) /\ Range(q) = {e}
  <2>1. "run" # NUL
    BY DEF NUL
  <2> QED
    BY <2>1, CmdKvIs
<1>2. e.key # c
  BY DEF Entry
<1>3. Asked = {e, Entry(c, t, x)}
  BY DEF Asked
<1>4. c \in Seq(W) /\ x \in Seq(W) /\ c # <<>> /\ NUL \notin W
  BY One DEF NUL
<1>5. k = KvPut(q, c, t, x)
  OBVIOUS
<1> HIDE DEF q, c, x, e, W
<1>6. Codable(Entry(c, t, x))
  BY <1>4, PlainEntry
<1> HIDE DEF t
<1>7. Storable(k)
  BY <1>1, <1>5, <1>6, StorablePut
<1>8. Sequence(q)
  BY <1>1 DEF Storable
<1>9. /\ Range(k) \subseteq Range(q) \cup {Entry(c, t, x)} /\ Entry(c, t, x) \in Range(k)
      /\ \A y \in Range(q) : y.key # c => y \in Range(k)
      /\ UniqueKeys(k)
  BY <1>1, <1>5, <1>8, SequencePut
<1>10. Range(k) = Asked
  BY <1>1, <1>2, <1>3, <1>9
<1>11. Final(1) = {}
  BY DEF Final
<1>12. allowed = Unset => Final(Len(environ) + 1) = {}
  BY DEF Final, Passes
<1> QED
  BY <1>7, <1>9, <1>10, <1>11, <1>12 DEF RunSent

\* imp_run_kv_putenv for the variable at place j.
LEMMA VarPut ==
  ASSUME environ \in Environs, allowed # Unset, NEW j \in 1..Len(environ), NEW k, RunSent(k, j),
         NEW f, f = IF environ[j].name \notin LongNames /\ VarAllowed(<<environ[j].name>>)
                    THEN KvPut(k, EnvPrefix \o <<environ[j].name>>, "s", <<environ[j].val>>)
                    ELSE k
  PROVE  RunSent(f, j + 1)
<1>1. /\ Storable(k) /\ UniqueKeys(k)
      /\ Range(k) = Asked \cup {SentVar(environ[n]) : n \in Final(j)}
  BY DEF RunSent
<1>2. /\ Len(environ) \in Nat /\ j \in Nat
      /\ \A n \in 1..(j - 1) : n \in 1..Len(environ)
      /\ \A n : n \in 1..((j + 1) - 1) <=> n \in 1..(j - 1) \/ n = j
      /\ \A n \in 1..(j - 1) : j \in (n + 1)..((j + 1) - 1)
      /\ \A n \in 1..(j - 1) : \A m : m \in (n + 1)..((j + 1) - 1) <=> m \in (n + 1)..(j - 1) \/ m = j
      /\ (j + 1)..((j + 1) - 1) = {}
  <2>1. Len(environ) \in Nat
    BY StringsAssumption DEF Sequence
  <2> QED
    BY <2>1
<1>3. ASSUME NEW n \in 1..(j - 1)
      PROVE  n \in Final(j + 1) <=> n \in Final(j) /\ environ[j].name # environ[n].name
  <2>1. n \in Final(j + 1) <=> /\ Passes(environ[n])
                               /\ \A m \in (n + 1)..((j + 1) - 1) : environ[m].name # environ[n].name
    BY <1>2 DEF Final
  <2>2. n \in Final(j) <=> /\ Passes(environ[n])
                           /\ \A m \in (n + 1)..(j - 1) : environ[m].name # environ[n].name
    BY DEF Final
  <2> QED
    BY <1>2, <2>1, <2>2
<1>4. j \in Final(j + 1) <=> Passes(environ[j])
  BY <1>2 DEF Final
<1>5. \A n \in Final(j) : n \in 1..(j - 1) /\ n \in 1..Len(environ)
  BY <1>2 DEF Final
<1>6. \A n \in Final(j + 1) : n \in 1..(j - 1) \/ n = j
  BY <1>2 DEF Final
<1>7. CASE Passes(environ[j])
  <2> DEFINE key == EnvPrefix \o <<environ[j].name>>
             val == <<environ[j].val>>
             t == "s"
             e == SentVar(environ[j])
  <2>1. f = KvPut(k, key, t, val) /\ e = Entry(key, t, val)
    BY <1>7 DEF Passes, SentVar
  <2>2. Codable(e) /\ e.key = key /\ \A x \in Asked : x.key # key
    BY SentVarIs
  <2> HIDE DEF key, val, t, e
  <2>3. Storable(f)
    BY <1>1, <2>1, <2>2, StorablePut
  <2>4. Sequence(k)
    BY <1>1 DEF Storable
  <2>5. /\ Range(f) \subseteq Range(k) \cup {e} /\ e \in Range(f)
        /\ \A x \in Range(k) : x.key # key => x \in Range(f)
        /\ UniqueKeys(f)
    BY <1>1, <2>1, <2>4, SequencePut
  <2>6. \A n \in Final(j) : SentVar(environ[n]).key = key <=> environ[j].name = environ[n].name
    <3>1. \A n \in 1..Len(environ) : SentVar(environ[n]).key = SentVar(environ[j]).key
                                       <=> environ[n].name = environ[j].name
      BY SentVarKeys
    <3> QED
      BY <1>5, <2>2, <3>1 DEF e
  <2>7. j \in Final(j + 1)
    BY <1>4, <1>7
  <2>8. ASSUME NEW x \in Range(f)
        PROVE  x \in Asked \/ \E n \in Final(j + 1) : x = SentVar(environ[n])
    <3>1. CASE x = e
      BY <2>7, <3>1 DEF e
    <3>2. CASE x # e
      <4>1. x \in Range(k) /\ x.key # key
        <5>1. x.key # key
          BY <2>2, <2>5, <3>2, OneOfKey
        <5> QED
          BY <2>5, <3>2, <5>1
      <4>2. CASE x \in Asked
        BY <4>2
      <4>3. CASE x \notin Asked
        <5>1. PICK n \in Final(j) : x = SentVar(environ[n])
          BY <1>1, <4>1, <4>3
        <5>2. environ[j].name # environ[n].name
          BY <2>6, <4>1, <5>1
        <5>3. n \in Final(j + 1)
          BY <1>3, <1>5, <5>2
        <5> QED
          BY <5>1, <5>3
      <4> QED
        BY <4>2, <4>3
    <3> QED
      BY <3>1, <3>2
  <2>9. ASSUME NEW x \in Asked PROVE x \in Range(f)
    BY <1>1, <2>2, <2>5
  <2>10. ASSUME NEW n \in Final(j + 1) PROVE SentVar(environ[n]) \in Range(f)
    <3>1. CASE n = j
      BY <2>5, <3>1 DEF e
    <3>2. CASE n # j
      <4>1. n \in Final(j) /\ environ[j].name # environ[n].name
        BY <1>3, <1>6, <3>2
      <4>2. SentVar(environ[n]) \in Range(k) /\ SentVar(environ[n]).key # key
        BY <1>1, <2>6, <4>1
      <4> QED
        BY <2>5, <4>2
    <3> QED
      BY <3>1, <3>2
  <2>11. Range(f) = Asked \cup {SentVar(environ[n]) : n \in Final(j + 1)}
    BY <2>8, <2>9, <2>10
  <2> QED
    BY <2>3, <2>5, <2>11 DEF RunSent
<1>8. CASE ~Passes(environ[j])
  <2>1. f = k
    BY <1>8 DEF Passes
  <2>2. ASSUME NEW n \in Final(j) PROVE environ[j].name # environ[n].name
    <3>1. Passes(environ[n])
      BY DEF Final
    <3>2. CASE environ[j].name = environ[n].name
      <4>1. Passes(environ[j])
        BY <3>1, <3>2 DEF Passes
      <4> QED
        BY <1>8, <4>1
    <3> QED
      BY <3>2
  <2>3. Final(j + 1) = Final(j)
    BY <1>3, <1>4, <1>5, <1>6, <1>8, <2>2
  <2> QED
    BY <1>1, <2>1, <2>3 DEF RunSent
<1> QED
  BY <1>7, <1>8

\* What names the command.
LEMMA FirstOfKey ==
  ASSUME NEW k, Sequence(k), 1 \in DOMAIN k
  PROVE  KvGet(k, k[1].key) = k[1].val
<1> DEFINE f == KvFind(k, k[1].key)
<1>1. k \in Seq(Range(k)) /\ k[1].key \in Keys(k)
  BY DEF Sequence, Keys
<1>2. /\ f \in 1..Len(k) /\ \A j \in 1..(f - 1) : k[j].key # k[1].key
  BY <1>1, KvFindFirst
<1>3. f = 1
  <2> HIDE DEF f
  <2>1. f # 1 => 1 \in 1..(f - 1)
    BY <1>2
  <2> QED
    BY <1>2, <2>1
<1> QED
  BY <1>3 DEF KvGet

LEMMA RunNamed ==
  ASSUME NEW k, NEW j, RunSent(k, j)
  PROVE  KvGet(k, <<"cmd">>) = <<"run">> /\ Len(k) > 0
<1> DEFINE e == Entry(<<"cmd">>, "s", <<"run">>)
<1>1. e.key = <<"cmd">> /\ e.val = <<"run">>
  BY DEF Entry
<1>2. e \in Range(k) /\ k \in Seq(Range(k)) /\ UniqueKeys(k)
  BY DEF RunSent, Asked, Storable, Sequence
<1> HIDE DEF e
<1>3. PICK n \in DOMAIN k : k[n] = e
  BY <1>2 DEF Range
<1>4. n \in 1..Len(k) /\ Len(k) > 0
  BY <1>2, <1>3
<1>5. KvGet(k, k[n].key) = k[n].val
  BY <1>2, <1>4, GetUnique
<1> QED
  BY <1>1, <1>3, <1>4, <1>5

LEMMA FinalOnce ==
  ASSUME Len(environ) \in Nat, NEW m \in Everything, NEW n \in Everything,
         environ[m].name = environ[n].name
  PROVE  m = n
<1>1. /\ m \in 1..((Len(environ) + 1) - 1) /\ n \in 1..((Len(environ) + 1) - 1)
      /\ \A l \in (m + 1)..((Len(environ) + 1) - 1) : environ[l].name # environ[m].name
      /\ \A l \in (n + 1)..((Len(environ) + 1) - 1) : environ[l].name # environ[n].name
  BY DEF Everything, Final
<1>2. m < n => n \in (m + 1)..((Len(environ) + 1) - 1)
  BY <1>1
<1>3. n < m => m \in (n + 1)..((Len(environ) + 1) - 1)
  BY <1>1
<1>4. ~(m < n) /\ ~(n < m)
  BY <1>1, <1>2, <1>3
<1> QED
  BY <1>1, <1>4

\* kv_split at entry j of what the child sent.
LEMMA CarriedNext ==
  ASSUME environ \in Environs, NEW k, RunSent(k, Len(environ) + 1), NEW j \in 1..Len(k),
         NEW e, Sequence(e), Range(e) = Carried(k, j - 1),
         NEW f, f = IF IsStrictPrefix(EnvPrefix, k[j].key)
                    THEN KvPut(e, Stripped(k[j].key, EnvPrefix), k[j].type, k[j].val)
                    ELSE e
  PROVE  Range(f) = Carried(k, j)
<1>1. /\ Storable(k) /\ UniqueKeys(k)
      /\ Range(k) = Asked \cup {SentVar(environ[n]) : n \in Everything}
  BY DEF RunSent, Everything
<1>2. Len(environ) \in Nat /\ \A n \in Everything : n \in 1..Len(environ)
  <2>1. Len(environ) \in Nat
    BY StringsAssumption DEF Sequence
  <2>2. (Len(environ) + 1) - 1 = Len(environ)
    BY <2>1
  <2> QED
    BY <2>1, <2>2 DEF Everything, Final
<1>3. j \in DOMAIN k /\ k[j] \in Range(k)
  BY <1>1 DEF Storable, Sequence, Range
<1>4. /\ \A l : l \in 1..j <=> l \in 1..(j - 1) \/ l = j
  <2>1. j \in Nat
    BY <1>1 DEF Storable, Sequence
  <2> QED
    BY <2>1
<1>5. CASE k[j] \in Asked
  <2>1. ~IsStrictPrefix(EnvPrefix, k[j].key)
    <3> DEFINE p == "IMP_RUN_ENV_"
               c == "cmd"
               d == "command"
               W == {p, c, d}
    <3>1. k[j].key = <<c>> \/ k[j].key = <<d>>
      BY <1>5 DEF Asked, Entry
    <3>2. EnvPrefix = <<p>>
      BY DEF EnvPrefix
    <3>3. p \in W /\ c \in W /\ d \in W /\ p # c /\ p # d
      OBVIOUS
    <3> HIDE DEF p, c, d, W
    <3>4. /\ <<c>> \in Seq(W) /\ <<c>> # <<>> /\ <<c>>[1] = c
          /\ <<d>> \in Seq(W) /\ <<d>> # <<>> /\ <<d>>[1] = d
      BY <3>3, One
    <3>5. ~IsStrictPrefix(<<p>>, <<c>>)
      BY <3>3, <3>4, FirstDiffers
    <3>6. ~IsStrictPrefix(<<p>>, <<d>>)
      BY <3>3, <3>4, FirstDiffers
    <3> QED
      BY <3>1, <3>2, <3>5, <3>6
  <2>2. \A m \in Everything : k[j] # SentVar(environ[m])
    <3>1. \A m \in 1..Len(environ) : \A x \in Asked : x.key # SentVar(environ[m]).key
      BY SentVarIs
    <3> QED
      BY <1>2, <1>5, <3>1
  <2>3. Carried(k, j) = Carried(k, j - 1)
    BY <1>4, <2>2 DEF Carried
  <2> QED
    BY <2>1, <2>3
<1>6. CASE k[j] \notin Asked
  <2>1. PICK n \in Everything : k[j] = SentVar(environ[n])
    BY <1>1, <1>3, <1>6
  <2> DEFINE x == EnvVar(environ[n])
             key == <<environ[n].name>>
             val == <<environ[n].val>>
             t == "s"
  <2>2. f = KvPut(e, key, t, val) /\ x = Entry(key, t, val)
    <3>1. /\ k[j].key = EnvPrefix \o key /\ IsStrictPrefix(EnvPrefix, EnvPrefix \o key)
          /\ Stripped(EnvPrefix \o key, EnvPrefix) = key
      BY <1>2, <2>1, SentVarIs
    <3>2. k[j].type = t /\ k[j].val = val
      BY <2>1 DEF SentVar, Entry
    <3>3. x = Entry(key, t, val)
      BY DEF EnvVar
    <3> HIDE DEF key, t, val
    <3> QED
      BY <3>1, <3>2, <3>3
  <2>3. x.key = key
    BY DEF EnvVar, Entry
  <2> HIDE DEF key, val, t
  <2>4. /\ Range(f) \subseteq Range(e) \cup {x} /\ x \in Range(f)
        /\ \A y \in Range(e) : y.key # key => y \in Range(f)
    <3> HIDE DEF x
    <3> QED
      BY <2>2, SequencePut
  <2>5. ASSUME NEW m \in Everything, EnvVar(environ[m]).key = key \/ SentVar(environ[m]) = k[j]
        PROVE  m = n
    <3>1. m \in 1..Len(environ) /\ n \in 1..Len(environ)
      BY <1>2
    <3>2. environ[m].name = environ[n].name
      BY <2>1, <2>3, <2>5, <3>1, SentVarKeys
    <3> QED
      BY <1>2, <3>2, FinalOnce
  <2>6. ASSUME NEW y \in Range(e) PROVE y \in Range(f)
    <3>1. CASE y.key # key
      BY <2>4, <3>1
    <3>2. CASE y.key = key
      <4>1. PICK m \in Everything : y = EnvVar(environ[m])
        BY DEF Carried
      <4>2. m = n
        BY <2>5, <3>2, <4>1
      <4> QED
        BY <2>4, <4>1, <4>2
    <3> QED
      BY <3>1, <3>2
  <2>7. Range(f) = Range(e) \cup {x}
    BY <2>4, <2>6
  <2>8. Carried(k, j) = Carried(k, j - 1) \cup {x}
    <3>1. ASSUME NEW y \in Carried(k, j) PROVE y \in Carried(k, j - 1) \cup {x}
      <4>1. PICK m \in Everything : y = EnvVar(environ[m]) /\ \E l \in 1..j : k[l] = SentVar(environ[m])
        BY DEF Carried
      <4>2. PICK l \in 1..j : k[l] = SentVar(environ[m])
        BY <4>1
      <4>3. CASE l = j
        <5>1. m = n
          BY <2>5, <4>2, <4>3
        <5> QED
          BY <4>1, <5>1
      <4>4. CASE l # j
        BY <1>4, <4>1, <4>2, <4>4 DEF Carried
      <4> QED
        BY <4>3, <4>4
    <3>2. Carried(k, j - 1) \subseteq Carried(k, j)
      BY <1>4 DEF Carried
    <3>3. x \in Carried(k, j)
      BY <1>4, <2>1 DEF Carried
    <3> QED
      BY <3>1, <3>2, <3>3
  <2> QED
    BY <2>7, <2>8
<1> QED
  BY <1>5, <1>6

LEMMA CarriedEnds ==
  ASSUME NEW k, RunSent(k, Len(environ) + 1)
  PROVE  Carried(k, 0) = {} /\ Carried(k, Len(k)) = Arrived
<1>1. Carried(k, 0) = {}
  BY DEF Carried
<1>2. ASSUME NEW m \in Everything PROVE \E l \in 1..Len(k) : k[l] = SentVar(environ[m])
  <2>1. SentVar(environ[m]) \in Range(k) /\ DOMAIN k = 1..Len(k)
    BY DEF RunSent, Everything, Storable, Sequence
  <2> QED
    BY <2>1 DEF Range
<1>3. {m \in Everything : \E l \in 1..Len(k) : k[l] = SentVar(environ[m])} = Everything
  BY <1>2
<1> QED
  BY <1>1, <1>3 DEF Carried, Arrived

\* The filter finds nothing to delete.
LEMMA ArrivedAllowed == \A e \in Arrived : VarAllowed(e.key)
<1> SUFFICES ASSUME NEW n \in Everything PROVE VarAllowed(EnvVar(environ[n]).key)
  BY DEF Arrived
<1>1. VarAllowed(<<environ[n].name>>)
  BY DEF Everything, Final, Passes
<1>2. EnvVar(environ[n]).key = <<environ[n].name>>
  BY DEF EnvVar, Entry
<1> QED
  BY <1>1, <1>2

LEMMA OthersStay ==
  ASSUME NEW q, Sequence(q), UniqueKeys(q), NEW n \in 1..Len(Own),
         NEW f, f = KvPut(q, Own[n].key, Own[n].type, Own[n].val)
  PROVE  NotOwn(Range(f)) = NotOwn(Range(q))
<1>1. Entry(Own[n].key, Own[n].type, Own[n].val) = Own[n]
  BY OwnKeys
<1>2. /\ Range(f) \subseteq Range(q) \cup {Own[n]}
      /\ \A e \in Range(q) : e.key # Own[n].key => e \in Range(f)
  BY <1>1, SequencePut
<1>3. Own[n] \notin NotOwn(Range(f))
  BY DEF NotOwn
<1> HIDE DEF Own
<1> QED
  BY <1>2, <1>3 DEF NotOwn

LEMMA InitCarry == Init => InputInv /\ CarryInv
<1> SUFFICES ASSUME Init PROVE InputInv /\ CarryInv
  OBVIOUS
<1>1. env = <<>>
  BY DEF Init
<1>2. \A a \in Argvs : a # <<>>
  BY StringsAssumption
<1>3. CASE pc = "put_run"
  BY <1>1, <1>3 DEF Init, InputInv, CarryInv, BeforeWrite, Listening, Taken, InRun
<1>4. CASE pc \in {"check", "popen"}
  BY <1>1, <1>2, <1>4 DEF Init, InputInv, CarryInv, BeforeWrite, Listening, Taken, InRun
<1>5. CASE pc = "read"
  BY <1>1, <1>5 DEF Init, InputInv, CarryInv, BeforeWrite, Listening, Taken, InRun
<1> QED
  BY <1>3, <1>4, <1>5 DEF Init

\* How pc moves, and what it takes.
PcMoves ==
  \/ pc' \in {pc, "refused"}
  \/ pc \in {"put_run", "put_env"} /\ pc' \in {"put_env", "write"}
  \/ pc \in {"popen", "close", "hear"} /\ pc' \in {"close", "hear", "check"}
  \/ pc = "check" /\ OptionsAreValid(options) /\ pc' \in {"wait", "put_exec"}
  \/ pc = "wait" /\ pc' = "put_exec"
  \/ pc = "put_exec" /\ pc' = "write"
  \/ pc \in Taken \ {"put_exec"} /\ pc' \in Taken \ {"put_exec", "write"}

LEMMA NextMoves == [Next]_vars => PcMoves /\ UNCHANGED request
<1> SUFFICES ASSUME [Next]_vars PROVE PcMoves /\ UNCHANGED request
  OBVIOUS
<1>1. CASE PutCommand \/ PutEnv \/ PutEnvEnds
  BY <1>1 DEF PutCommand, PutEnv, PutEnvEnds, PcMoves, input
<1>2. CASE Listen
  BY <1>2 DEF Listen, Popen, PopenFails, PopenEnds, HearInput, HearEnd, CheckInput,
              CheckInputFails, WaitForHelper, Refuse, PcMoves, input
<1>3. CASE PutExec \/ Write \/ Read \/ ReadFails \/ GetRunEnv
  BY <1>3 DEF PutExec, Write, Read, ReadFails, GetRunEnv, Refuse, PcMoves, Taken, input
<1>4. CASE SplitEnv \/ SplitEnvEnds \/ FilterEnv \/ FilterEnvEnds
  BY <1>4 DEF SplitEnv, SplitEnvEnds, FilterEnv, FilterEnvEnds, PcMoves, Taken, input
<1>5. CASE PutOwn
  BY <1>5 DEF PutOwn, PcMoves, input
<1>6. CASE RunStarts
  BY <1>6 DEF RunStarts, PcMoves, Taken, input
<1>7. CASE ExecStarts
  BY <1>7 DEF ExecStarts, PcMoves, Taken, input
<1>8. CASE ReceivedFails
  BY <1>8 DEF ReceivedFails, Refuse, PcMoves, input
<1>9. CASE HelperStep \/ HelperStops \/ Blocked \/ Over \/ UNCHANGED vars
  BY <1>9 DEF HelperStep, HelperStops, Blocked, Over, vars, PcMoves, input
<1> QED
  BY <1>1, <1>2, <1>3, <1>4, <1>5, <1>6, <1>7, <1>8, <1>9 DEF Next

LEMMA NextInputInv == InputInv /\ [Next]_vars => InputInv'
<1> SUFFICES ASSUME InputInv, [Next]_vars PROVE InputInv'
  OBVIOUS
<1>1. PcMoves /\ UNCHANGED <<sender, allowed, environ, options, argv>>
  BY NextMoves DEF request
<1>2. CASE pc' \in {pc, "refused"}
  BY <1>1, <1>2 DEF InputInv, BeforeWrite, Listening, Taken
<1>3. CASE pc \in {"put_run", "put_env"} /\ pc' \in {"put_env", "write"}
  BY <1>1, <1>3 DEF InputInv, BeforeWrite, Listening, Taken
<1>4. CASE pc \in {"popen", "close", "hear"} /\ pc' \in {"close", "hear", "check"}
  BY <1>1, <1>4 DEF InputInv, BeforeWrite, Listening, Taken
<1>5. CASE pc = "check" /\ OptionsAreValid(options) /\ pc' \in {"wait", "put_exec"}
  BY <1>1, <1>5 DEF InputInv, BeforeWrite, Listening, Taken
<1>6. CASE pc = "wait" /\ pc' = "put_exec"
  BY <1>1, <1>6 DEF InputInv, BeforeWrite, Listening, Taken
<1>7. CASE pc = "put_exec" /\ pc' = "write"
  BY <1>1, <1>7 DEF InputInv, BeforeWrite, Listening, Taken
<1>8. CASE pc \in Taken \ {"put_exec"} /\ pc' \in Taken \ {"put_exec", "write"}
  BY <1>1, <1>8 DEF InputInv, BeforeWrite, Listening, Taken
<1> QED
  BY <1>1, <1>2, <1>3, <1>4, <1>5, <1>6, <1>7, <1>8 DEF PcMoves

\* These are about the request, which stays as it is.
LEMMA RequestStays ==
  ASSUME UNCHANGED request
  PROVE  /\ UNCHANGED <<sender, allowed, environ, options, argv>>
         /\ \A k, j : RunSent(k, j)' <=> RunSent(k, j)
         /\ \A k : AsSent(k)' <=> AsSent(k)
         /\ \A k, d : Carried(k, d)' = Carried(k, d)
         /\ Arrived' = Arrived
<1>1. UNCHANGED <<sender, allowed, environ, options, argv>>
  BY DEF request
<1>2. \A v : Passes(v)' <=> Passes(v)
  BY <1>1 DEF Passes, VarAllowed
<1>3. \A j : Final(j)' = Final(j)
  BY <1>1, <1>2 DEF Final
<1>4. \A k, j : RunSent(k, j)' <=> RunSent(k, j)
  BY <1>1, <1>3 DEF RunSent
<1>5. \A k : AsSent(k)' <=> AsSent(k)
  BY <1>1, <1>4 DEF AsSent
<1>6. Everything' = Everything
  BY <1>1, <1>3 DEF Everything
<1>7. \A k, d : Carried(k, d)' = Carried(k, d)
  BY <1>1, <1>6 DEF Carried
<1>8. Arrived' = Arrived
  BY <1>1, <1>6 DEF Arrived
<1> QED
  BY <1>1, <1>4, <1>5, <1>7, <1>8

\* What the child sends can be decoded, and says which command it is.
LEMMA SentIs ==
  ASSUME InputInv, sender = "child", pc \in Taken, NEW k, AsSent(k)
  PROVE  /\ Storable(k)
         /\ argv = <<>> => KvGet(k, <<"cmd">>) = <<"run">>
         /\ argv # <<>> => KvGet(k, <<"cmd">>) = <<"exec">>
<1>1. CASE argv = <<>>
  <2>1. RunSent(k, Len(environ) + 1)
    BY <1>1 DEF AsSent
  <2> QED
    BY <1>1, <2>1, RunNamed DEF RunSent
<1>2. CASE argv # <<>>
  <2>1. /\ k = ExecSent(argv, options) /\ argv \in Argvs
        /\ options \in Options \cup HelperOptions /\ OptionsAreValid(options)
    BY <1>2 DEF AsSent, InputInv
  <2>2. Storable(k) /\ 1 \in DOMAIN k /\ k[1] = Entry(<<"cmd">>, "s", <<"exec">>)
    BY <2>1, ExecSentIs
  <2>3. k[1].key = <<"cmd">> /\ k[1].val = <<"exec">>
    BY <2>2 DEF Entry
  <2>4. KvGet(k, k[1].key) = k[1].val
    BY <2>2, FirstOfKey DEF Storable
  <2> QED
    BY <1>2, <2>2, <2>3, <2>4
<1> QED
  BY <1>1, <1>2

\* The child's half of run.
LEMMA SendRun ==
  ASSUME InputInv, CarryInv, PutCommand \/ PutEnv \/ PutEnvEnds
  PROVE  CarryInv'
<1>1. UNCHANGED request /\ sender = "child" /\ argv = <<>> /\ environ \in Environs
  <2>1. \A a \in Argvs : a # <<>>
    BY StringsAssumption
  <2> QED
    BY <2>1 DEF InputInv, BeforeWrite, PutCommand, PutEnv, PutEnvEnds, input
<1>2. /\ UNCHANGED <<sender, allowed, environ, options, argv>>
      /\ \A k, j : RunSent(k, j)' <=> RunSent(k, j)
      /\ \A k : AsSent(k)' <=> AsSent(k)
  BY <1>1, RequestStays
<1>0. Len(environ) \in Nat
  BY <1>1, StringsAssumption DEF Sequence
<1>3. CASE PutCommand
  <2>1. /\ kv' = KvPut(CmdKv("run"), <<"command">>, "s", <<"prolog">>) /\ env' = <<>> /\ i' = 1
        /\ pc' = IF allowed = Unset THEN "write" ELSE "put_env"
    BY <1>3 DEF CarryInv, PutCommand, InRun
  <2>2. RunSent(kv', 1) /\ (allowed = Unset => RunSent(kv', Len(environ) + 1))
    BY <2>1, CommandPut
  <2>3. allowed = Unset => AsSent(kv')
    BY <1>1, <2>2 DEF AsSent
  <2>4. i' \in 1..(Len(environ) + 1)
    BY <1>0, <2>1
  <2> QED
    BY <1>1, <1>2, <2>1, <2>2, <2>3, <2>4 DEF CarryInv, Listening, InRun
<1>4. CASE PutEnv
  <2>1. /\ pc = "put_env" /\ pc' = "put_env" /\ i \in 1..Len(environ) /\ i' = i + 1
        /\ allowed # Unset /\ RunSent(kv, i) /\ env' = <<>>
        /\ kv' = IF environ[i].name \notin LongNames /\ VarAllowed(<<environ[i].name>>)
                 THEN KvPut(kv, EnvPrefix \o <<environ[i].name>>, "s", <<environ[i].val>>)
                 ELSE kv
    BY <1>4 DEF CarryInv, PutEnv, InRun
  <2>2. RunSent(kv', i + 1)
    BY <1>1, <2>1, VarPut
  <2>3. i' \in 1..(Len(environ) + 1)
    BY <1>0, <2>1
  <2> QED
    BY <1>1, <1>2, <2>1, <2>2, <2>3 DEF CarryInv, Listening, InRun
<1>5. CASE PutEnvEnds
  <2>1. /\ pc = "put_env" /\ pc' = "write" /\ i = Len(environ) + 1 /\ RunSent(kv, i)
        /\ UNCHANGED kv /\ env' = <<>>
    BY <1>0, <1>5 DEF CarryInv, PutEnvEnds, InRun
  <2>2. AsSent(kv')
    BY <1>1, <2>1 DEF AsSent
  <2> QED
    BY <1>1, <1>2, <2>1, <2>2 DEF CarryInv, Listening, InRun
<1> QED
  BY <1>3, <1>4, <1>5

\* The child's half of exec, the write and the read of both, and how run goes on.
LEMMA SendExec ==
  ASSUME InputInv, CarryInv, PutExec \/ Write \/ Read \/ GetRunEnv
  PROVE  CarryInv'
<1>1. UNCHANGED request /\ env = <<>> /\ UNCHANGED env /\ pc \in Taken
  BY DEF InputInv, CarryInv, InRun, Taken, PutExec, Write, Read, GetRunEnv, input
<1>2. /\ UNCHANGED <<sender, allowed, environ, options, argv>>
      /\ \A k, j : RunSent(k, j)' <=> RunSent(k, j)
      /\ \A k : AsSent(k)' <=> AsSent(k)
      /\ \A k, d : Carried(k, d)' = Carried(k, d)
  BY <1>1, RequestStays
<1>3. CASE PutExec
  <2>1. pc = "put_exec" /\ pc' = "write" /\ argv # <<>> /\ kv = CmdKv("exec") /\ kv' = ExecKv
    BY <1>3 DEF InputInv, CarryInv, PutExec
  <2>2. AsSent(kv')
    BY <2>1 DEF AsSent, ExecKv, ExecSent, NamedKv
  <2> QED
    BY <1>1, <1>2, <2>1, <2>2 DEF CarryInv, Listening, InRun
<1>4. CASE Write
  <2>1. /\ pc = "write" /\ pc' = "read" /\ sender = "child" /\ AsSent(kv) /\ wire' = KvEncode(kv)
    BY <1>4 DEF InputInv, CarryInv, Write
  <2>2. Entries(wire') = kv
    BY <1>1, <2>1, SentIs, DecodedIsEncoded
  <2>3. wire' = KvEncode(Entries(wire')) /\ AsSent(Entries(wire'))
    BY <2>1, <2>2
  <2> QED
    BY <1>1, <1>2, <2>1, <2>3 DEF CarryInv, Listening, InRun
<1>5. CASE Read
  <2>1. /\ pc = "read" /\ pc' = "received" /\ kv' = Entries(wire)
        /\ sender = "child" => AsSent(kv')
    BY <1>5 DEF CarryInv, Read
  <2> QED
    BY <1>1, <1>2, <2>1 DEF CarryInv, Listening, InRun
<1>6. CASE GetRunEnv
  <2>1. /\ pc = "received" /\ pc' = "split" /\ i' = KvNext(kv, 0) /\ UNCHANGED kv
        /\ KvGet(kv, <<"cmd">>) = <<"run">>
        /\ sender = "child" => AsSent(kv)
    BY <1>6 DEF CarryInv, GetRunEnv, RunAsked, Names
  <2>2. ASSUME sender = "child"
        PROVE  /\ argv = <<>> /\ AsSent(kv')
               /\ i' \in 0..Len(kv')
               /\ Range(env') = Carried(kv', IF i' = 0 THEN Len(kv') ELSE i' - 1)
    <3>1. <<"run">> # <<"exec">>
      OBVIOUS
    <3>2. argv = <<>> /\ Storable(kv) /\ AsSent(kv)
      BY <1>1, <2>1, <2>2, <3>1, SentIs
    <3>3. RunSent(kv, Len(environ) + 1)
      BY <3>2 DEF AsSent
    <3>4. Len(kv) > 0 /\ Len(kv) \in Nat
      BY <3>2, <3>3, RunNamed DEF Storable, Sequence
    <3>5. i' = 1 /\ i' - 1 = 0 /\ i' \in 0..Len(kv')
      BY <2>1, <3>4 DEF KvNext
    <3>6. Range(env') = {}
      BY <1>1 DEF Range
    <3>7. Carried(kv', 0) = {}
      BY <2>1, <3>3, CarriedEnds
    <3> QED
      BY <2>1, <3>2, <3>5, <3>6, <3>7
  <2> QED
    BY <1>1, <1>2, <2>1, <2>2 DEF CarryInv, Listening, InRun
<1> QED
  BY <1>3, <1>4, <1>5, <1>6

\* kv_split and the filter.
LEMMA CarrySplit ==
  ASSUME InputInv, CarryInv, RunInv, SplitEnv \/ SplitEnvEnds \/ FilterEnv \/ FilterEnvEnds
  PROVE  CarryInv'
<1>1. UNCHANGED <<request, kv>> /\ pc \in InRun /\ Sequence(env)
  BY DEF InRun, SplitEnv, SplitEnvEnds, FilterEnv, FilterEnvEnds, input, RunInv, SplitInv
<1>2. /\ UNCHANGED <<sender, allowed, environ, options, argv>>
      /\ \A k : AsSent(k)' <=> AsSent(k)
      /\ \A k, d : Carried(k, d)' = Carried(k, d)
      /\ Arrived' = Arrived
  BY <1>1, RequestStays
<1>3. \A set : NotOwn(set)' = NotOwn(set)
  BY DEF NotOwn
<1>4. sender = "child" => argv = <<>> /\ environ \in Environs
  BY <1>1, StringsAssumption DEF CarryInv, InputInv
<1>5. CASE SplitEnv
  <2>1. /\ pc = "split" /\ pc' = "split" /\ i # 0 /\ i' = KvNext(kv, i)
        /\ env' = IF IsStrictPrefix(EnvPrefix, kv[i].key)
                  THEN KvPut(env, Stripped(kv[i].key, EnvPrefix), kv[i].type, kv[i].val)
                  ELSE env
        /\ sender = "child" => /\ AsSent(kv) /\ i \in 0..Len(kv)
                               /\ Range(env) = Carried(kv, i - 1)
    BY <1>5 DEF SplitEnv, CarryInv
  <2>2. ASSUME sender = "child"
        PROVE  /\ AsSent(kv') /\ i' \in 0..Len(kv')
               /\ Range(env') = Carried(kv', IF i' = 0 THEN Len(kv') ELSE i' - 1)
    <3>1. RunSent(kv, Len(environ) + 1) /\ AsSent(kv)
      BY <1>4, <2>1, <2>2 DEF AsSent
    <3>2. Len(kv) \in Nat
      BY <3>1 DEF RunSent, Storable, Sequence
    <3>3. i \in 1..Len(kv) /\ Range(env) = Carried(kv, i - 1)
      BY <2>1, <2>2, <3>2
    <3>4. Range(env') = Carried(kv, i)
      BY <1>1, <1>4, <2>1, <2>2, <3>1, <3>3, CarriedNext
    <3>5. i' \in 0..Len(kv) /\ (IF i' = 0 THEN Len(kv) ELSE i' - 1) = i
      BY <2>1, <3>2, <3>3 DEF KvNext
    <3> QED
      BY <1>1, <3>1, <3>4, <3>5
  <2> QED
    BY <1>2, <1>4, <2>1, <2>2 DEF CarryInv, Listening, InRun
<1>6. CASE SplitEnvEnds
  <2>1. /\ pc = "split" /\ pc' = "filter" /\ i = 0 /\ env' = env
        /\ sender = "child" => AsSent(kv) /\ Range(env) = Carried(kv, Len(kv))
    BY <1>6 DEF SplitEnvEnds, CarryInv
  <2>2. sender = "child" => Range(env') = Arrived
    BY <1>4, <2>1, CarriedEnds DEF AsSent
  <2> QED
    BY <1>2, <1>4, <2>1, <2>2 DEF CarryInv, Listening, InRun
<1>7. CASE FilterEnv
  <2>1. /\ pc = "filter" /\ pc' = "filter" /\ i # 0
        /\ env' = IF VarAllowed(env[i].key) THEN env ELSE KvDelete(env, env[i].key)
        /\ sender = "child" => Range(env) = Arrived
    BY <1>7 DEF FilterEnv, Filtered, CarryInv
  <2>2. i \in DOMAIN env
    BY <1>1, <2>1 DEF RunInv, SplitInv, Behind, Sequence
  <2>3. env[i] \in Range(env)
    BY <2>2 DEF Range
  <2>4. sender = "child" => Range(env') = Arrived
    BY <2>1, <2>3, ArrivedAllowed
  <2> QED
    BY <1>2, <1>4, <2>1, <2>4 DEF CarryInv, Listening, InRun
<1>8. CASE FilterEnvEnds
  <2>1. /\ pc = "filter" /\ pc' = "own" /\ env' = env
        /\ sender = "child" => NotOwn(Range(env')) = NotOwn(Arrived)
    BY <1>8 DEF FilterEnvEnds, CarryInv
  <2> QED
    BY <1>2, <1>3, <1>4, <2>1 DEF CarryInv, Listening, InRun
<1> QED
  BY <1>5, <1>6, <1>7, <1>8

\* The variables of the IMP, and the two ways to start.
LEMMA CarryStarts ==
  ASSUME InputInv, CarryInv, RunInv, PutOwn \/ RunStarts \/ ExecStarts
  PROVE  CarryInv'
<1>1. UNCHANGED <<request, kv>>
  BY DEF PutOwn, RunStarts, ExecStarts, input
<1>2. /\ UNCHANGED <<sender, allowed, environ, options, argv>>
      /\ Arrived' = Arrived
  BY <1>1, RequestStays
<1>3. \A set : NotOwn(set)' = NotOwn(set)
  BY DEF NotOwn
<1>4. CASE PutOwn
  <2>1. /\ pc = "own" /\ pc' = "own" /\ i \in 1..Len(Own) /\ Sequence(env) /\ UniqueKeys(env)
        /\ env' = KvPut(env, Own[i].key, Own[i].type, Own[i].val)
    BY <1>4, OwnKeys DEF PutOwn, RunInv, OwnInv, SplitInv
  <2>2. NotOwn(Range(env')) = NotOwn(Range(env))
    BY <2>1, OthersStay
  <2> QED
    BY <1>2, <1>3, <2>1, <2>2 DEF CarryInv, Listening, InRun
<1>5. CASE RunStarts
  <2>1. pc = "own" /\ pc' = "run" /\ UNCHANGED env
    BY <1>5 DEF RunStarts
  <2> QED
    BY <1>2, <1>3, <2>1 DEF CarryInv, Listening, InRun
<1>6. CASE ExecStarts
  <2> DEFINE args == KvSplit(kv, <<"args">>)
  <2>1. /\ pc = "received" /\ pc' = "exec" /\ UNCHANGED env /\ env = <<>>
        /\ result' = [n \in DOMAIN args |-> args[n].val]
        /\ KvGet(kv, <<"cmd">>) = <<"exec">>
        /\ sender = "child" => AsSent(kv)
    BY <1>6 DEF ExecStarts, ExecAsked, Names, CarryInv, InRun
  <2>2. ASSUME sender = "child"
        PROVE  argv # <<>> /\ result' = [n \in DOMAIN argv |-> <<argv[n]>>]
    <3>1. <<"run">> # <<"exec">> /\ pc \in Taken
      BY <2>1 DEF Taken
    <3>2. argv # <<>>
      BY <2>1, <2>2, <3>1, SentIs
    <3>3. /\ kv = ExecSent(argv, options) /\ argv \in Argvs
          /\ options \in Options \cup HelperOptions /\ OptionsAreValid(options)
      BY <2>1, <2>2, <3>1, <3>2 DEF AsSent, InputInv
    <3>4. args = KvSplit(ExecSent(argv, options), <<"args">>)
      BY <3>3
    <3> HIDE DEF args
    <3>5. [n \in DOMAIN args |-> args[n].val] = [n \in DOMAIN argv |-> <<argv[n]>>]
      BY <3>3, <3>4, ArgvArrives
    <3> QED
      BY <2>1, <3>2, <3>5
  <2> HIDE DEF args
  <2> QED
    BY <1>2, <2>1, <2>2 DEF CarryInv, Listening, InRun
<1> QED
  BY <1>4, <1>5, <1>6

\* Everything else.
LEMMA CarryRests ==
  ASSUME CarryInv, UNCHANGED <<kv, i, env, wire, result>>, UNCHANGED request,
         \/ UNCHANGED pc
         \/ pc' = "refused" /\ pc \notin InRun
         \/ pc \in {"popen"} \cup Listening /\ pc' \in {"put_exec"} \cup Listening
  PROVE  CarryInv'
<1>1. /\ UNCHANGED <<sender, allowed, environ, options, argv>>
      /\ \A k, j : RunSent(k, j)' <=> RunSent(k, j)
      /\ \A k : AsSent(k)' <=> AsSent(k)
      /\ \A k, d : Carried(k, d)' = Carried(k, d)
      /\ Arrived' = Arrived
  BY RequestStays
<1>2. \A set : NotOwn(set)' = NotOwn(set)
  BY DEF NotOwn
<1>3. CASE UNCHANGED pc
  BY <1>1, <1>2, <1>3 DEF CarryInv
<1>4. CASE pc' = "refused" /\ pc \notin InRun
  BY <1>1, <1>4 DEF CarryInv, Listening, InRun
<1>5. CASE pc \in {"popen"} \cup Listening /\ pc' \in {"put_exec"} \cup Listening
  BY <1>1, <1>5 DEF CarryInv, Listening, InRun
<1> QED
  BY <1>3, <1>4, <1>5

LEMMA NextCarryInv == InputInv /\ CarryInv /\ RunInv /\ [Next]_vars => CarryInv'
<1> SUFFICES ASSUME InputInv, CarryInv, RunInv, [Next]_vars PROVE CarryInv'
  OBVIOUS
<1>1. CASE Listen
  <2>1. /\ UNCHANGED <<kv, i, env, wire, result>> /\ UNCHANGED request
        /\ \/ pc' = "refused" /\ pc \notin InRun
           \/ pc \in {"popen"} \cup Listening /\ pc' \in {"put_exec"} \cup Listening
    BY <1>1 DEF Listen, Popen, PopenFails, PopenEnds, HearInput, HearEnd, CheckInput,
                CheckInputFails, WaitForHelper, Refuse, input, data, Listening, InRun
  <2> QED
    BY <2>1, CarryRests
<1>2. CASE HelperStep \/ HelperStops \/ Blocked \/ Over \/ UNCHANGED vars
  <2>1. UNCHANGED <<kv, i, env, wire, result>> /\ UNCHANGED request /\ UNCHANGED pc
    BY <1>2 DEF HelperStep, HelperStops, Blocked, Over, vars, input, data
  <2> QED
    BY <2>1, CarryRests
<1>3. CASE ReadFails \/ ReceivedFails
  <2>1. /\ UNCHANGED <<kv, i, env, wire, result>> /\ UNCHANGED request
        /\ pc' = "refused" /\ pc \notin InRun
    BY <1>3 DEF ReadFails, ReceivedFails, Refuse, input, data, InRun
  <2> QED
    BY <2>1, CarryRests
<1> QED
  BY <1>1, <1>2, <1>3, SendRun, SendExec, CarrySplit, CarryStarts DEF Next

LEMMA RequestCarried == Spec => [](InputInv /\ CarryInv /\ RunInv)
<1>1. Init => InputInv /\ CarryInv /\ RunInv
  BY InitCarry, InitRunInv
<1>2. InputInv /\ CarryInv /\ RunInv /\ [Next]_vars => (InputInv /\ CarryInv /\ RunInv)'
  BY NextInputInv, NextCarryInv, NextRunInv
<1> QED
  BY <1>1, <1>2, PTL DEF Spec

\* Of any request of exec that its child puts together, the job shell gets the arguments
\* as they were, in their order, after they were numbered, joined to the other entries,
\* encoded, decoded and split off again; and a helper was heard as a whole (exec.c:368-405).
THEOREM RequestsAreWhole == Spec => []RequestIsWhole
<1>1. CarryInv /\ HelperWasHeard => RequestIsWhole
  BY DEF CarryInv, RequestIsWhole
<1> QED
  BY <1>1, RequestCarried, HelpersAreHeard, PTL

-----------------------------------------------------------------------------
(* The variables of the command are those of its caller.                   *)

LEMMA GreatestNumber ==
  ASSUME NEW N \in Nat, NEW T, T \subseteq 0..N, NEW x \in T
  PROVE  \E m \in T : \A k \in T : k <= m
<1> DEFINE S == {k \in Nat : N - k \in T}
<1>1. S \subseteq Nat /\ S # {}
  <2>1. N - x \in Nat /\ N - (N - x) = x
    OBVIOUS
  <2> QED
    BY <2>1
<1> HIDE DEF S
<1>2. PICK l \in S : \A k \in S : l <= k
  BY <1>1, LeastNumber
<1>3. N - l \in T
  BY DEF S
<1>4. ASSUME NEW k \in T PROVE k <= N - l
  <2>1. N - k \in Nat /\ N - (N - k) = k /\ k \in Nat /\ l \in Nat
    BY <1>1
  <2>2. l <= N - k
    BY <1>2, <2>1 DEF S
  <2> QED
    BY <2>1, <2>2
<1> QED
  BY <1>3, <1>4

LEMMA MaxIs ==
  ASSUME NEW T, T \subseteq Int, NEW m \in T, \A k \in T : k <= m
  PROVE  Max(T) = m
<1>1. m \in T /\ \A y \in T : m >= y
  OBVIOUS
<1>2. \A x \in T : (\A y \in T : x >= y) => x = m
  OBVIOUS
<1> QED
  BY <1>1, <1>2 DEF Max

\* A variable that is sent is one that is to be passed, with its last value.
LEMMA LastIsSent ==
  ASSUME environ \in Environs
  PROVE  /\ \A n \in Everything : /\ environ[n].name \in Passed
                                  /\ LastValue(environ[n].name) = environ[n].val
         /\ \A m \in Passed : \E n \in Everything : environ[n].name = m
<1>1. Len(environ) \in Nat /\ DOMAIN environ = 1..Len(environ) /\ (Len(environ) + 1) - 1 = Len(environ)
  BY StringsAssumption DEF Sequence
<1> DEFINE N == Len(environ)
           at(x) == {n \in 1..N : environ[n].name = x}
<1>2. \A x : LastValue(x) = environ[IF at(x) # {} THEN Max(at(x)) ELSE 0].val
  BY DEF LastValue, SelectLastInSeq
<1>3. \A n : n \in Everything <=> /\ n \in 1..N /\ Passes(environ[n])
                                  /\ \A m \in (n + 1)..N : environ[m].name # environ[n].name
  BY <1>1 DEF Everything, Final
<1>4. \A n \in 1..N : Passes(environ[n]) <=> environ[n].name \in Passed
  <2>1. \A n \in 1..N : VarAllowed(<<environ[n].name>>) <=>
          environ[n].name \in JobVars \/ (allowed # Unset /\ environ[n].name \in allowed)
    <3>1. \A x, y : <<x>> = <<y>> <=> x = y
      OBVIOUS
    <3> QED
      BY <3>1 DEF VarAllowed
  <2> QED
    BY <1>1, <2>1 DEF Passes, Passed
<1> HIDE DEF N
<1>5. N \in Nat
  BY <1>1 DEF N
<1>6. ASSUME NEW x, NEW n \in at(x), \A m \in at(x) : m <= n
      PROVE  /\ LastValue(x) = environ[n].val /\ n \in 1..N /\ environ[n].name = x
             /\ \A m \in (n + 1)..N : environ[m].name # environ[n].name
  <2>1. n \in 1..N /\ environ[n].name = x /\ at(x) \subseteq Int
    OBVIOUS
  <2>2. \A m \in (n + 1)..N : m \in 1..N /\ ~(m <= n)
    BY <1>5, <2>1
  <2>3. \A m \in (n + 1)..N : environ[m].name # x
    BY <1>6, <2>2
  <2> HIDE DEF at
  <2>4. Max(at(x)) = n
    BY <1>6, <2>1, MaxIs
  <2> QED
    BY <1>2, <2>1, <2>3, <2>4
<1>7. ASSUME NEW n \in Everything PROVE LastValue(environ[n].name) = environ[n].val
  <2> DEFINE x == environ[n].name
  <2>1. n \in 1..N /\ \A m \in (n + 1)..N : environ[m].name # x
    BY <1>3
  <2>2. ASSUME NEW m \in at(x) PROVE m <= n
    <3>1. m \in 1..N /\ environ[m].name = x
      OBVIOUS
    <3>2. m \notin (n + 1)..N
      BY <2>1, <3>1
    <3> QED
      BY <1>5, <2>1, <3>1, <3>2
  <2>3. n \in at(x)
    BY <2>1
  <2> HIDE DEF x, at
  <2>4. LastValue(x) = environ[n].val
    BY <1>6, <2>2, <2>3
  <2> QED
    BY <2>4 DEF x
<1>8. ASSUME NEW x \in Passed PROVE \E n \in Everything : environ[n].name = x
  <2>1. PICK l \in 1..N : environ[l].name = x
    BY <1>1 DEF Passed, N
  <2>2. l \in at(x) /\ at(x) \subseteq 0..N
    BY <1>5, <2>1
  <2>3. PICK n \in at(x) : \A m \in at(x) : m <= n
    <3> HIDE DEF at
    <3> QED
      BY <1>5, <2>2, GreatestNumber
  <2>4. /\ n \in 1..N /\ environ[n].name = x
        /\ \A m \in (n + 1)..N : environ[m].name # environ[n].name
    BY <1>6, <2>3
  <2>5. n \in Everything
    BY <1>3, <1>4, <2>4
  <2> QED
    BY <2>4, <2>5
<1> QED
  BY <1>3, <1>4, <1>7, <1>8

\* For every environment of the caller and every configuration: what the child sent
\* and the IMP split off, filtered and completed is, but for the variables of the IMP
\* itself, what was allowed, with the last value of each (run.c:113-145, 336-375).
THEOREM CallersVariablesArrive == Spec => []EnvIsCallers
<1>1. InputInv /\ CarryInv /\ RunInv => EnvIsCallers
  <2> SUFFICES ASSUME InputInv, CarryInv, RunInv, pc = "run", sender = "child"
               PROVE  {v \in Range(result) : \A e \in Range(Own) : v.name # e.key} =
                        {[name |-> <<n>>, val |-> <<LastValue(n)>>] :
                           n \in {m \in Passed : \A e \in Range(Own) : <<m>> # e.key}}
    BY DEF EnvIsCallers
  <2> DEFINE Left  == {v \in Range(result) : \A e \in Range(Own) : v.name # e.key}
             Right == {[name |-> <<n>>, val |-> <<LastValue(n)>>] :
                         n \in {m \in Passed : \A e \in Range(Own) : <<m>> # e.key}}
             var(e) == [name |-> e.key, val |-> e.val]
  <2>1. /\ environ \in Environs /\ NotOwn(Range(env)) = NotOwn(Arrived)
        /\ result = [n \in DOMAIN env |-> var(env[n])]
    <3>1. \A a \in Argvs : a # <<>>
      BY StringsAssumption
    <3>2. /\ environ \in Environs /\ NotOwn(Range(env)) = NotOwn(Arrived)
          /\ result = [n \in DOMAIN env |-> AsVariable(env[n])]
      BY <3>1 DEF InputInv, CarryInv, RunInv, OwnInv, InRun
    <3>3. ASSUME NEW n \in DOMAIN env PROVE AsVariable(env[n]) = var(env[n])
      <4>1. env[n] \in Range(env)
        BY DEF Range
      <4>2. CASE env[n] \in NotOwn(Range(env))
        <5>1. PICK m \in Everything : env[n] = EnvVar(environ[m])
          BY <3>2, <4>2 DEF NotOwn, Arrived
        <5>2. m \in DOMAIN environ /\ environ[m].name # "="
          <6>1. m \in DOMAIN environ
            BY <3>2, StringsAssumption DEF Everything, Final, Sequence
          <6>2. environ[m] \in Range(environ)
            BY <6>1 DEF Range
          <6> QED
            BY <3>2, <6>1, <6>2, StringsAssumption
        <5>3. env[n].key = <<environ[m].name>>
          BY <5>1 DEF EnvVar, Entry
        <5>4. "=" \notin Range(env[n].key)
          BY <5>2, <5>3, PlainName
        <5> QED
          BY <5>4, PlainVariable
      <4>3. CASE env[n] \notin NotOwn(Range(env))
        <5>1. PICK k \in 1..Len(Own) : env[n].key = Own[k].key
          BY <4>1, <4>3 DEF NotOwn
        <5>2. Own[k] \in Range(Own)
          BY OwnKeys DEF Range
        <5>3. "=" \notin Range(env[n].key)
          BY <5>1, <5>2, OwnPlain
        <5> QED
          BY <5>3, PlainVariable
      <4> QED
        BY <4>2, <4>3
    <3> QED
      BY <3>2, <3>3
  <2>2. \A x : (\A e \in Range(Own) : x # e.key) <=> (\A n \in 1..Len(Own) : x # Own[n].key)
    <3>1. Range(Own) = {Own[n] : n \in 1..Len(Own)}
      BY OwnKeys DEF Range
    <3> QED
      BY <3>1
  <2> HIDE DEF Own
  <2>3. /\ \A n \in Everything : /\ environ[n].name \in Passed
                                 /\ LastValue(environ[n].name) = environ[n].val
        /\ \A m \in Passed : \E n \in Everything : environ[n].name = m
    BY <2>1, LastIsSent
  <2>4. \A n : EnvVar(environ[n]).key = <<environ[n].name>> /\ EnvVar(environ[n]).val = <<environ[n].val>>
    BY DEF EnvVar, Entry
  <2>5. ASSUME NEW v \in Left PROVE v \in Right
    <3>1. PICK n \in DOMAIN env : v = var(env[n])
      BY <2>1 DEF Range
    <3>2. env[n] \in Range(env) /\ v.name = env[n].key
      BY <3>1 DEF Range
    <3>3. env[n] \in NotOwn(Range(env))
      BY <2>2, <3>2 DEF NotOwn
    <3>4. env[n] \in Arrived
      BY <2>1, <3>3 DEF NotOwn
    <3>5. PICK m \in Everything : env[n] = EnvVar(environ[m])
      BY <3>4 DEF Arrived
    <3> DEFINE x == environ[m].name
    <3>6. /\ v = [name |-> <<x>>, val |-> <<LastValue(x)>>] /\ x \in Passed
          /\ \A e \in Range(Own) : <<x>> # e.key
      <4>1. env[n].key = <<x>> /\ env[n].val = <<environ[m].val>>
        BY <2>4, <3>5
      <4>2. LastValue(x) = environ[m].val /\ x \in Passed
        BY <2>3
      <4>3. \A e \in Range(Own) : env[n].key # e.key
        BY <2>2, <3>3 DEF NotOwn
      <4> HIDE DEF x
      <4>4. v = [name |-> <<x>>, val |-> <<LastValue(x)>>]
        BY <3>1, <4>1, <4>2
      <4> QED
        BY <4>1, <4>2, <4>3, <4>4
    <3> HIDE DEF x
    <3> QED
      BY <3>6
  <2>6. ASSUME NEW v \in Right PROVE v \in Left
    <3>1. PICK x \in Passed : /\ v = [name |-> <<x>>, val |-> <<LastValue(x)>>]
                              /\ \A e \in Range(Own) : <<x>> # e.key
      OBVIOUS
    <3>2. PICK m \in Everything : environ[m].name = x
      BY <2>3
    <3> DEFINE e == EnvVar(environ[m])
    <3>3. e.key = <<x>> /\ e.val = <<LastValue(x)>>
      BY <2>3, <2>4, <3>2
    <3>4. e \in Arrived
      BY DEF Arrived
    <3> HIDE DEF e
    <3>5. e \in NotOwn(Arrived)
      BY <2>2, <3>1, <3>3, <3>4 DEF NotOwn
    <3>6. e \in Range(env)
      BY <2>1, <3>5 DEF NotOwn
    <3>7. PICK n \in DOMAIN env : env[n] = e
      BY <3>6 DEF Range
    <3>8. v = var(e)
      BY <3>1, <3>3
    <3>9. v \in Range(result) /\ v.name = <<x>>
      BY <2>1, <3>1, <3>7, <3>8 DEF Range
    <3> QED
      BY <3>1, <3>9
  <2> QED
    BY <2>5, <2>6
<1> QED
  BY <1>1, RequestCarried, PTL

-----------------------------------------------------------------------------
(* Types, whatever the buffer is that comes over the pipe.                  *)

AllSound(k) == Sequence(k) /\ \A n \in DOMAIN k : Sound(k[n])

LEMMA SoundPut ==
  ASSUME NEW k, AllSound(k), NEW key, NEW type, NEW val, Sound(Entry(key, type, val))
  PROVE  AllSound(KvPut(k, key, type, val))
<1> DEFINE p == KvPut(k, key, type, val)
           e == Entry(key, type, val)
<1>1. Sequence(k) /\ \A x \in Range(k) : Sound(x)
  BY DEF AllSound, Range
<1>2. Sequence(p) /\ Range(p) \subseteq Range(k) \cup {e}
  BY <1>1, SequencePut
<1> HIDE DEF p, e
<1>3. \A x \in Range(p) : Sound(x)
  BY <1>1, <1>2 DEF e
<1>4. AllSound(p)
  BY <1>2, <1>3 DEF AllSound, Range
<1> QED
  BY <1>4 DEF p

LEMMA SoundDelete ==
  ASSUME NEW k, AllSound(k), NEW key
  PROVE  AllSound(KvDelete(k, key))
<1>1. Sequence(k) /\ \A x \in Range(k) : Sound(x)
  BY DEF AllSound, Range
<1>2. KvDelete(k, key) \in Seq(Range(k)) /\ Range(KvDelete(k, key)) \subseteq Range(k)
  BY <1>1, Deleted, DeletedRange DEF Sequence
<1>3. Sequence(KvDelete(k, key))
  BY <1>2, SeqOfRange DEF Sequence
<1> QED
  BY <1>1, <1>2, <1>3 DEF AllSound, Range

\* What is left of a key that is longer than the prefix.
LEMMA SoundStripped ==
  ASSUME NEW e, Sound(e), NEW p, IsStrictPrefix(<<p>>, e.key)
  PROVE  Sound(Entry(Stripped(e.key, <<p>>), e.type, e.val))
<1> DEFINE s == Stripped(e.key, <<p>>)
           R == Range(e.key)
<1>1. e.key \in Seq(R) /\ Len(e.key) \in Nat /\ e.key # <<>> /\ e.type \in KvTypes
  BY DEF Sound, Sequence
<1>2. Len(e.key) > 1
  <2>1. Len(<<p>>) <= Len(e.key) /\ <<p>> # e.key
        /\ SubSeq(<<p>>, 1, Len(<<p>>)) = SubSeq(e.key, 1, Len(<<p>>))
    BY DEF IsStrictPrefix, IsPrefix
  <2> QED
    BY <1>1, <2>1
<1>3. s = SubSeq(e.key, 2, Len(e.key))
  BY DEF Stripped
<1> HIDE DEF s
<1>4. s \in Seq(R) /\ Len(s) = Len(e.key) - 1
  <2>1. \A n \in 2..Len(e.key) : n \in 1..Len(e.key)
    BY <1>1
  <2>2. \A n \in 2..Len(e.key) : e.key[n] \in R
    BY <1>1, <2>1
  <2>3. 2 \in Int /\ Len(e.key) \in Int /\ (IF 2 <= Len(e.key) THEN Len(e.key) - 2 + 1 ELSE 0) = Len(e.key) - 1
    BY <1>1, <1>2
  <2> QED
    BY <1>3, <2>2, <2>3, SubSeqProperties
<1>5. s # <<>>
  BY <1>1, <1>2, <1>4
<1>6. Sequence(s)
  BY <1>4, SeqOfRange DEF Sequence
<1> QED
  BY <1>1, <1>5, <1>6 DEF Sound, Entry, s

LEMMA OwnSound == \A n \in 1..4 : Sound(Own[n])
<1> DEFINE a == Entry(<<"FLUX_OWNER_USERID">>, "i", <<"caller">>)
           b == Entry(<<"HOME">>, "s", <<"home">>)
           c == Entry(<<"USER">>, "s", <<"name">>)
           d == Entry(<<"PATH">>, "s", <<"path">>)
<1>1. Sound(a) /\ Sound(b) /\ Sound(c) /\ Sound(d)
  <2>1. \A x : Sequence(<<x>>) /\ <<x>> # <<>>
    BY One, SeqOfRange DEF Sequence
  <2>2. "i" \in KvTypes /\ "s" \in KvTypes
    BY DEF KvTypes
  <2> QED
    BY <2>1, <2>2 DEF Sound, Entry
<1>2. Own = <<a, b, c, d>>
  BY DEF Own
<1> HIDE DEF a, b, c, d
<1>3. Own[1] = a /\ Own[2] = b /\ Own[3] = c /\ Own[4] = d
  BY <1>2
<1>4. \A n \in 1..4 : n = 1 \/ n = 2 \/ n = 3 \/ n = 4
  OBVIOUS
<1> QED
  BY <1>1, <1>3, <1>4

\* What the child writes can be stored.
LEMMA KvIsStorable ==
  InputInv /\ CarryInv /\ pc \in {"put_env", "write"} => Storable(kv)
<1> SUFFICES ASSUME InputInv, CarryInv, pc \in {"put_env", "write"} PROVE Storable(kv)
  OBVIOUS
<1>1. CASE pc = "put_env"
  BY <1>1 DEF CarryInv, RunSent
<1>2. CASE pc = "write"
  <2>1. sender = "child" /\ AsSent(kv)
    BY <1>2 DEF InputInv, CarryInv
  <2>2. CASE argv = <<>>
    BY <2>1, <2>2 DEF AsSent, RunSent
  <2>3. CASE argv # <<>>
    <3>1. kv = ExecSent(argv, options)
      BY <2>1, <2>3 DEF AsSent
    <3>2. argv \in Argvs /\ options \in Options \cup HelperOptions /\ OptionsAreValid(options)
      BY <1>2, <2>1, <2>3 DEF InputInv, Taken
    <3> QED
      BY <3>1, <3>2, ExecSentIs
  <2> QED
    BY <2>2, <2>3
<1> QED
  BY <1>1, <1>2

LEMMA StorableAllSound ==
  ASSUME NEW k, Storable(k)
  PROVE  AllSound(k)
BY StorableSound DEF AllSound

LEMMA EmptySound == Sequence(<<>>) /\ AllSound(<<>>)
BY DEF AllSound, Sequence

LEMMA InitTypeInv == Init => TypeInv
<1> SUFFICES ASSUME Init PROVE TypeInv
  OBVIOUS
<1>1. /\ env = <<>> /\ split = <<>> /\ pipe = <<>> /\ writers = {}
      /\ pc \notin {"split", "filter"}
  BY DEF Init, NoHelper, HelperToCome
<1>2. AllSound(kv)
  <2>1. "run" # NUL /\ "exec" # NUL
    BY DEF NUL
  <2>2. kv \in {<<>>, CmdKv("run"), CmdKv("exec")}
    BY DEF Init
  <2> QED
    BY <2>1, <2>2, CmdKvIs, StorableAllSound, EmptySound
<1>3. Sequence(wire)
  <2>1. wire = <<>> \/ wire \in Garbage \/ \E f \in Forged : wire = KvEncode(f)
    BY DEF Init
  <2>2. CASE wire = <<>>
    BY <2>2, EmptySound
  <2>3. CASE wire \in Garbage
    BY <2>3, StringsAssumption
  <2>4. CASE \E f \in Forged : wire = KvEncode(f)
    BY <2>4, StringsAssumption, EncodedSequence
  <2> QED
    BY <2>1, <2>2, <2>3, <2>4
<1>4. Len(pipe) = 0 /\ 0 <= PipeSize
  BY <1>1, HelperAssumption
<1>5. \A k \in {kv, env, split} : AllSound(k)
  BY <1>1, <1>2, EmptySound
<1> QED
  BY <1>1, <1>3, <1>4, <1>5, EmptySound DEF TypeInv, AllSound

\* The pipe of the helper; the rest is not touched.
LEMMA TypePipe ==
  ASSUME TypeInv, UNCHANGED data,
         pc' = pc \/ pc' \notin {"split", "filter"},
         UNCHANGED <<pipe, writers>> \/ Listen \/ HelperStep \/ HelperStops
  PROVE  TypeInv'
<1>1. Sequence(pipe) /\ Len(pipe) <= PipeSize /\ writers \subseteq {"exec", "helper"} /\ PipeSize \in Nat
  BY HelperAssumption DEF TypeInv
<1>2. \/ UNCHANGED <<pipe, writers>>
      \/ pipe' = pipe /\ writers' \subseteq {"exec", "helper"}
      \/ Len(pipe) < PipeSize /\ UNCHANGED writers /\ pipe' = Append(pipe, Head(unsaid))
      \/ pipe # <<>> /\ UNCHANGED writers /\ pipe' = Tail(pipe)
  BY <1>1 DEF Listen, Popen, PopenFails, PopenEnds, HearInput, HearEnd, CheckInput,
     CheckInputFails, WaitForHelper, Refuse, Fork, CloseWriteEnd, Hear, Reap, input, helperVars,
     HelperStep, HelperStops, HelperGoesOn, HelperExec, HelperExecFails, HelperWrites,
     HelperExits, HelperCloses, HelperIsKilled, Ends
<1>3. CASE Len(pipe) < PipeSize /\ UNCHANGED writers /\ pipe' = Append(pipe, Head(unsaid))
  <2>1. Sequence(pipe') /\ Len(pipe') = Len(pipe) + 1 /\ Len(pipe) \in Nat
    BY <1>1, <1>3, SequenceAppend DEF Sequence
  <2>2. Len(pipe') <= PipeSize
    BY <1>1, <1>3, <2>1
  <2> QED
    BY <1>1, <1>3, <2>1, <2>2 DEF TypeInv, data
<1>4. CASE pipe # <<>> /\ UNCHANGED writers /\ pipe' = Tail(pipe)
  <2>1. pipe \in Seq(Range(pipe)) /\ Len(pipe) \in Nat
    BY <1>1 DEF Sequence
  <2>2. pipe' \in Seq(Range(pipe)) /\ Len(pipe') = Len(pipe) - 1
    BY <1>4, <2>1
  <2>3. Sequence(pipe')
    BY <2>2, SeqOfRange DEF Sequence
  <2>4. Len(pipe') <= PipeSize
    BY <1>1, <2>1, <2>2
  <2> QED
    BY <1>1, <1>4, <2>3, <2>4 DEF TypeInv, data
<1> QED
  BY <1>1, <1>2, <1>3, <1>4 DEF TypeInv, data

LEMMA NextTypeInv == InputInv /\ CarryInv /\ RunInv /\ TypeInv /\ [Next]_vars => TypeInv'
<1> SUFFICES ASSUME InputInv, CarryInv, RunInv, TypeInv, [Next]_vars PROVE TypeInv'
  OBVIOUS
<1>1. /\ AllSound(kv) /\ AllSound(env) /\ AllSound(split)
      /\ Sequence(pipe) /\ Len(pipe) <= PipeSize /\ writers \subseteq {"exec", "helper"}
      /\ Sequence(wire)
      /\ pc = "split" => i \in 0..Len(kv)
      /\ pc = "filter" => i \in 0..Len(env)
      /\ Len(kv) \in Nat /\ Len(env) \in Nat
  BY DEF TypeInv, AllSound, Sequence
<1>2. ASSUME UNCHANGED <<pipe, writers>>, AllSound(kv'), AllSound(env'), AllSound(split'),
             Sequence(wire'),
             pc' = "split" => i' \in 0..Len(kv'), pc' = "filter" => i' \in 0..Len(env')
      PROVE  TypeInv'
  BY <1>1, <1>2 DEF TypeInv, AllSound
<1>3. \A k, n : Len(k) \in Nat /\ n \in 0..Len(k) => KvNext(k, n) \in 0..Len(k)
  BY DEF KvNext
<1>4. CASE PutCommand \/ PutEnv \/ PutEnvEnds \/ PutExec
  <2>1. UNCHANGED <<pipe, writers, env, split, wire>> /\ pc' \in {"put_env", "write"}
    BY <1>4 DEF PutCommand, PutEnv, PutEnvEnds, PutExec, input, helperVars
  <2>2. InputInv' /\ CarryInv'
    BY NextInputInv, NextCarryInv
  <2>3. Storable(kv')
    <3>1. (InputInv /\ CarryInv /\ pc \in {"put_env", "write"} => Storable(kv))'
      BY KvIsStorable, PTL
    <3> QED
      BY <2>1, <2>2, <3>1
  <2> QED
    BY <1>1, <1>2, <2>1, <2>3, StorableAllSound
<1>5. CASE Listen \/ HelperStep \/ HelperStops \/ ReadFails \/ ReceivedFails \/ Blocked \/ Over
           \/ UNCHANGED vars
  <2>1. UNCHANGED data /\ (pc' = pc \/ pc' \notin {"split", "filter"})
    BY <1>5 DEF Listen, Popen, PopenFails, PopenEnds, HearInput, HearEnd, CheckInput,
       CheckInputFails, WaitForHelper, Refuse, HelperStep, HelperStops, ReadFails, ReceivedFails,
       Blocked, Over, vars, data
  <2>2. UNCHANGED <<pipe, writers>> \/ Listen \/ HelperStep \/ HelperStops
    BY <1>5 DEF ReadFails, ReceivedFails, Refuse, Blocked, Over, vars, input, helperVars
  <2> QED
    BY <2>1, <2>2, TypePipe
<1>6. CASE Write
  <2>1. /\ UNCHANGED <<pipe, writers, env, split>> /\ pc = "write" /\ pc' = "read"
        /\ wire' = KvEncode(kv) /\ kv' = <<>>
    BY <1>6 DEF Write, input, helperVars
  <2>2. Storable(kv)
    BY <2>1, KvIsStorable
  <2>3. Sequence(wire')
    BY <2>1, <2>2, EncodedIsCut, SeqOfRange DEF Sequence
  <2> QED
    BY <1>1, <1>2, <2>1, <2>3, EmptySound
<1>7. CASE Read
  <2>1. /\ UNCHANGED <<pipe, writers, env, split, wire>> /\ pc' = "received"
        /\ kv' = Entries(wire) /\ KvCheckIntegrity(wire)
    BY <1>7 DEF Read, Decodes, input, helperVars
  <2>2. /\ Sequence(kv') /\ Len(kv') = Len(Visits(wire))
        /\ \A n \in 1..Len(kv') : kv'[n] = EntryAt(wire, Visits(wire)[n]) /\ Sequence(kv'[n].key)
    BY <1>1, <2>1, EntriesSequence DEF Sequence
  <2>3. \A n \in DOMAIN Visits(wire) :
          KeyAt(wire, Visits(wire)[n]) # <<>> /\ TypeAt(wire, Visits(wire)[n]) \in KvTypes
    BY <2>1 DEF KvCheckIntegrity
  <2>4. DOMAIN Visits(wire) = 1..Len(Visits(wire))
    BY <1>1, VisitsStayInside DEF Sequence, Iteration
  <2>5. DOMAIN kv' = 1..Len(kv')
    BY <2>2 DEF Sequence
  <2>6. ASSUME NEW n \in 1..Len(kv') PROVE Sound(kv'[n])
    <3>1. kv'[n] = EntryAt(wire, Visits(wire)[n]) /\ Sequence(kv'[n].key)
      BY <2>2
    <3>2. KeyAt(wire, Visits(wire)[n]) # <<>> /\ TypeAt(wire, Visits(wire)[n]) \in KvTypes
      BY <2>2, <2>3, <2>4
    <3> QED
      BY <3>1, <3>2 DEF Sound, EntryAt, Entry
  <2>7. AllSound(kv')
    BY <2>2, <2>5, <2>6 DEF AllSound
  <2> QED
    BY <1>1, <1>2, <2>1, <2>7
<1>8. CASE GetRunEnv
  <2>1. UNCHANGED <<pipe, writers, env, split, wire, kv>> /\ pc' = "split" /\ i' = KvNext(kv, 0)
    BY <1>8 DEF GetRunEnv, input, helperVars
  <2>2. 0 \in 0..Len(kv)
    BY <1>1
  <2> QED
    BY <1>1, <1>2, <1>3, <2>1, <2>2
<1>9. CASE SplitEnv
  <2>1. /\ UNCHANGED <<pipe, writers, split, wire, kv>> /\ pc = "split" /\ pc' = "split" /\ i # 0
        /\ i' = KvNext(kv, i)
        /\ env' = IF IsStrictPrefix(EnvPrefix, kv[i].key)
                  THEN KvPut(env, Stripped(kv[i].key, EnvPrefix), kv[i].type, kv[i].val)
                  ELSE env
    BY <1>9 DEF SplitEnv, input, helperVars
  <2>2. i \in 0..Len(kv) /\ i \in 1..Len(kv)
    BY <1>1, <2>1
  <2>3. Sound(kv[i])
    BY <1>1, <2>2 DEF AllSound, Sequence
  <2>4. AllSound(env')
    <3>1. CASE IsStrictPrefix(EnvPrefix, kv[i].key)
      <4> DEFINE p == "IMP_RUN_ENV_"
      <4>0. EnvPrefix = <<p>>
        BY DEF EnvPrefix
      <4> HIDE DEF p
      <4>1. Sound(Entry(Stripped(kv[i].key, EnvPrefix), kv[i].type, kv[i].val))
        BY <2>3, <3>1, <4>0, SoundStripped
      <4> QED
        BY <1>1, <2>1, <3>1, <4>1, SoundPut
    <3> QED
      BY <1>1, <2>1, <3>1
  <2> QED
    BY <1>1, <1>2, <1>3, <2>1, <2>2, <2>4
<1>10. CASE SplitEnvEnds
  <2>1. /\ UNCHANGED <<pipe, writers, wire, kv, env>> /\ split' = env
        /\ pc' = "filter" /\ i' = KvNext(env, 0)
    BY <1>10 DEF SplitEnvEnds, input, helperVars
  <2>2. 0 \in 0..Len(env)
    BY <1>1
  <2> QED
    BY <1>1, <1>2, <1>3, <2>1, <2>2
<1>11. CASE FilterEnv
  <2>1. /\ UNCHANGED <<pipe, writers, wire, kv, split>> /\ pc = "filter" /\ pc' = "filter"
        /\ env' = IF VarAllowed(env[i].key) THEN env ELSE KvDelete(env, env[i].key)
        /\ i' = KvNext(env', i) /\ i \in Nat
    BY <1>1, <1>11 DEF FilterEnv, Filtered, input, helperVars
  <2>2. AllSound(env')
    BY <1>1, <2>1, SoundDelete
  <2>3. Len(env') \in Nat
    BY <2>2 DEF AllSound, Sequence
  <2>4. i' \in 0..Len(env')
    BY <2>1, <2>3 DEF KvNext
  <2> QED
    BY <1>1, <1>2, <2>1, <2>2, <2>4
<1>12. CASE FilterEnvEnds \/ RunStarts \/ ExecStarts
  <2>1. /\ UNCHANGED <<pipe, writers, wire, kv, split, env>> /\ pc' \in {"own", "run", "exec"}
    BY <1>12 DEF FilterEnvEnds, RunStarts, ExecStarts, input, helperVars
  <2> QED
    BY <1>1, <1>2, <2>1
<1>13. CASE PutOwn
  <2>1. /\ UNCHANGED <<pipe, writers, wire, kv, split>> /\ pc' = "own" /\ i \in 1..4
        /\ env' = KvPut(env, Own[i].key, Own[i].type, Own[i].val)
    BY <1>13, OwnKeys DEF PutOwn, input, helperVars, RunInv, OwnInv
  <2>2. Sound(Own[i])
    BY <2>1, OwnSound
  <2>3. AllSound(env')
    BY <1>1, <2>1, <2>2, OwnKeys, SoundPut
  <2> QED
    BY <1>1, <1>2, <2>1, <2>3
<1> QED
  BY <1>4, <1>5, <1>6, <1>7, <1>8, <1>9, <1>10, <1>11, <1>12, <1>13 DEF Next

\* Whatever crosses the pipe, every kv of either half has a key and a type in each
\* entry, and no iteration leaves the kv it is in (kv.c:122-207, run.c:113-145).
THEOREM TypeCorrect == Spec => []TypeOK
<1>1. PcInv /\ HelperInv /\ TypeInv => TypeOK
  BY DEF PcInv, HelperInv, TypeInv, TypeOK, Sound, Listening, Taken
<1>2. Init => IInv /\ InputInv /\ CarryInv /\ RunInv /\ TypeInv
  BY InitIInv, InitCarry, InitRunInv, InitTypeInv
<1>3. IInv /\ InputInv /\ CarryInv /\ RunInv /\ TypeInv /\ [Next]_vars
        => (IInv /\ InputInv /\ CarryInv /\ RunInv /\ TypeInv)'
  BY NextIInv, NextInputInv, NextCarryInv, NextRunInv, NextTypeInv
<1>4. IInv => PcInv /\ HelperInv
  BY DEF IInv
<1> QED
  BY <1>1, <1>2, <1>3, <1>4, PTL DEF Spec

\* What the code's own child sends.
LEMMA SentStorable ==
  ASSUME InputInv, sender = "child", pc \in Taken, NEW k, AsSent(k)
  PROVE  Storable(k) /\ Len(k) # 0
<1>1. CASE argv = <<>>
  <2>1. Storable(k) /\ Entry(<<"cmd">>, "s", <<"run">>) \in Range(k)
    BY <1>1 DEF AsSent, RunSent, Asked
  <2>2. Len(k) # 0
    BY <2>1 DEF Storable, Sequence, Range
  <2> QED
    BY <2>1, <2>2
<1>2. CASE argv # <<>>
  <2>1. k = ExecSent(argv, options)
    BY <1>2 DEF AsSent
  <2>2. argv \in Argvs /\ options \in Options \cup HelperOptions /\ OptionsAreValid(options)
    BY <1>2 DEF InputInv, Taken
  <2>3. Storable(k) /\ 1 \in DOMAIN k
    BY <2>1, <2>2, ExecSentIs
  <2>4. Len(k) # 0
    BY <2>3 DEF Storable, Sequence
  <2> QED
    BY <2>3, <2>4
<1> QED
  BY <1>1, <1>2

LEMMA EncodingIsPaired ==
  ASSUME Sequence(wire)
  PROVE  IsEncoding <=> wire # <<>> /\ Paired(wire) /\ \A m \in 1..Len(wire) : Well(wire, m)
<1>1. wire \in Seq(Range(wire)) /\ Len(wire) \in Nat /\ DOMAIN wire = 1..Len(wire)
      /\ (wire # <<>> => Len(wire) > 0)
  BY NotEmpty DEF Sequence
<1>2. \A n : Nuls(n) = NulCount(wire, n)
  BY DEF Nuls, NulCount
<1> QED
  BY <1>1, <1>2 DEF IsEncoding, Paired, Well, Last

LEMMA KvsAreTyped == Spec => [](InputInv /\ CarryInv /\ RunInv /\ TypeInv)
<1>1. Init => InputInv /\ CarryInv /\ RunInv /\ TypeInv
  BY InitCarry, InitRunInv, InitTypeInv
<1>2. InputInv /\ CarryInv /\ RunInv /\ TypeInv /\ [Next]_vars
        => (InputInv /\ CarryInv /\ RunInv /\ TypeInv)'
  BY NextInputInv, NextCarryInv, NextRunInv, NextTypeInv
<1> QED
  BY <1>1, <1>2, PTL DEF Spec

\* For any buffer at all: it is accepted if and only if it is what some kv is encoded
\* to, as its NULs tell; what the code's own child sends is (kv.c:420-478).
THEOREM DecodingIsExact == Spec => []DecodeIsExact
<1>1. InputInv /\ CarryInv /\ TypeInv => DecodeIsExact
  <2> SUFFICES ASSUME InputInv, CarryInv, TypeInv, pc = "read"
               PROVE  (Decodes <=> IsEncoding) /\ (sender = "child" => Decodes)
    BY DEF DecodeIsExact
  <2>1. Sequence(wire)
    BY DEF TypeInv
  <2>2. Decodes <=> IsEncoding
    <3>1. CASE wire = <<>>
      BY <3>1 DEF Decodes, IsEncoding
    <3>2. CASE wire # <<>>
      <4>1. Decodes <=> Paired(wire) /\ \A n \in 1..Len(Visits(wire)) : GoodAt(wire, Visits(wire)[n])
        BY <2>1, <3>2, IntegrityMeans DEF Decodes
      <4>2. IsEncoding <=> Paired(wire) /\ \A m \in 1..Len(wire) : Well(wire, m)
        BY <2>1, <3>2, EncodingIsPaired
      <4>3. Paired(wire) =>
              ((\A n \in 1..Len(Visits(wire)) : GoodAt(wire, Visits(wire)[n]))
                 <=> \A m \in 1..Len(wire) : Well(wire, m))
        BY IntegrityIsExact
      <4> QED
        BY <4>1, <4>2, <4>3
    <3> QED
      BY <3>1, <3>2
  <2>3. ASSUME sender = "child" PROVE Decodes
    <3>1. wire = KvEncode(Entries(wire)) /\ AsSent(Entries(wire)) /\ pc \in Taken
      BY <2>3 DEF CarryInv, Taken
    <3>2. Storable(Entries(wire)) /\ Len(Entries(wire)) # 0
      BY <2>3, <3>1, SentStorable
    <3>3. \E at : Holds(KvEncode(Entries(wire)), Entries(wire), at)
      BY <3>2, EncodedHolds
    <3>4. \E at : Holds(wire, Entries(wire), at)
      BY <3>1, <3>3
    <3> QED
      BY <3>2, <3>4, EncodedIsGood DEF Decodes
  <2> QED
    BY <2>2, <2>3
<1> QED
  BY <1>1, KvsAreTyped, PTL

\* The privileged half looks at the kv it has decoded and at no other.
ReceivedInv == pc = "received" => Decodes /\ kv = Entries(wire)

LEMMA NextReceivedInv == ReceivedInv /\ [Next]_vars => ReceivedInv'
<1> SUFFICES ASSUME ReceivedInv, [Next]_vars, pc' = "received" PROVE (Decodes /\ kv = Entries(wire))'
  BY DEF ReceivedInv
<1>1. CASE Read
  BY <1>1 DEF Read, Decodes
<1>2. CASE HelperStep \/ HelperStops \/ Blocked \/ Over \/ UNCHANGED vars
  <2>1. pc = "received" /\ UNCHANGED <<kv, wire>>
    BY <1>2 DEF HelperStep, HelperStops, Blocked, Over, vars, data
  <2> QED
    BY <2>1 DEF ReceivedInv, Decodes
<1>3. ~Listen
  BY DEF Listen, Popen, PopenFails, PopenEnds, HearInput, HearEnd, CheckInput, CheckInputFails,
     WaitForHelper, Refuse
<1>4. ~(PutCommand \/ PutEnv \/ PutEnvEnds \/ PutExec \/ Write \/ ReadFails \/ GetRunEnv
          \/ SplitEnv \/ SplitEnvEnds \/ FilterEnv \/ FilterEnvEnds \/ PutOwn \/ RunStarts
          \/ ExecStarts \/ ReceivedFails)
  BY DEF PutCommand, PutEnv, PutEnvEnds, PutExec, Write, ReadFails, ReceivedFails, Refuse,
     GetRunEnv, SplitEnv, SplitEnvEnds, FilterEnv, FilterEnvEnds, PutOwn, RunStarts, ExecStarts
<1> QED
  BY <1>1, <1>2, <1>3, <1>4 DEF Next

LEMMA PrefixClean == Sequence(<<"x">>) /\ Sequence(<<"args">>)
  /\ "x" # NUL /\ "new" # NUL
<1>1. \A x : Sequence(<<x>>)
  BY One, SeqOfRange DEF Sequence
<1> QED
  BY <1>1 DEF NUL

LEMMA StoredSplits ==
  ASSUME Storable(kv), NEW prefix, Sequence(prefix)
  PROVE  SplitUndoesJoin(prefix)
<1>1. PICK K, V : kv \in Seq(EntriesOf(K, KvTypes, V)) /\ prefix \in Seq(K)
  BY StorableTyped
<1>2. \A n \in 1..Len(kv) : kv[n].key # <<>>
  BY <1>1 DEF Storable, Codable
<1>3. /\ UniqueKeys(KvSplit(KvJoin(<<>>, kv, prefix), prefix))
      /\ Range(KvSplit(KvJoin(<<>>, kv, prefix), prefix)) \subseteq Range(kv)
  BY <1>1, SplitOfJoined
<1>4. UniqueKeys(kv) => KvSplit(KvJoin(<<>>, kv, prefix), prefix) = kv
  BY <1>1, <1>2, SplitOfJoin
<1> QED
  BY <1>3, <1>4 DEF SplitUndoesJoin

\* Whatever buffer kv_decode has accepted, the operations of kv.c on it are those on the
\* sequence of its entries, and kv_split undoes kv_join on it (kv.c:122-207, 264-280,
\* 503-533).
THEOREM BuffersMeanEntries == Spec => []BufferMeansEntries
<1>1. TypeInv /\ ReceivedInv => BufferMeansEntries
  <2> SUFFICES ASSUME TypeInv, ReceivedInv, pc = "received"
               PROVE  /\ KvEncode(kv) = wire
                      /\ \A prefix \in {<<"x">>, <<"args">>} : SplitUndoesJoin(prefix)
                      /\ \A key \in Keys(kv) \cup {<<"new">>} : Agrees(key)
                      /\ UniqueKeys(kv) => \A n \in DOMAIN kv : AgreesAfterDelete(n)
    BY DEF BufferMeansEntries
  <2>1. Sequence(wire) /\ wire # <<>> /\ KvCheckIntegrity(wire) /\ kv = Entries(wire)
    BY DEF TypeInv, ReceivedInv, Decodes
  <2>2. Storable(kv) /\ KvEncode(kv) = wire /\ \E at : Holds(wire, kv, at)
    BY <2>1, EncodedIsDecoded
  <2>3. PICK at : Holds(wire, kv, at)
    BY <2>2
  <2>4. /\ \A key :
             /\ BufFind(wire, key) =
                  IF key \in Keys(kv) THEN Visits(wire)[KvFind(kv, key)] ELSE NULL
             /\ Entries(BufDelete(wire, key)) = KvDelete(kv, key)
        /\ \A key, type, val : Codable(Entry(key, type, val)) =>
             Entries(BufPut(wire, key, type, val)) = KvPut(kv, key, type, val)
        /\ UniqueKeys(kv) => \A n \in 1..Len(kv) : AgreesAfterDelete(n)
    BY <2>3, BufferImplementsKv DEF AgreesAfterDelete
  <2>5. DOMAIN kv = 1..Len(kv)
    BY <2>2 DEF Storable, Sequence
  <2>6. ASSUME NEW key \in Keys(kv) \cup {<<"new">>} PROVE Codable(Entry(key, "s", <<"x">>))
    <3> DEFINE val == <<"x">>
               new == <<"new">>
    <3>1. "s" \in KvTypes
      BY DEF KvTypes
    <3>2. Clean(val)
      <4>1. Range(val) = {"x"}
        BY DEF Range
      <4> QED
        BY <4>1, PrefixClean DEF Clean, Sequence
    <3>3. Clean(new) /\ new # <<>>
      <4>1. Range(new) = {"new"}
        BY DEF Range
      <4>2. new \in Seq({"new"})
        BY One
      <4> QED
        BY <4>1, <4>2, PrefixClean DEF Clean
    <3>4. Clean(key) /\ key # <<>>
      <4>1. CASE key \in Keys(kv)
        BY <2>2, <4>1 DEF Keys, Storable, Codable
      <4> QED
        BY <3>3, <4>1
    <3> HIDE DEF val
    <3> QED
      BY <3>1, <3>2, <3>4 DEF Codable, Entry, val
  <2>7. ASSUME NEW key \in Keys(kv) \cup {<<"new">>} PROVE Agrees(key)
    <3> DEFINE val == <<"x">>
               t == "s"
    <3>1. Codable(Entry(key, t, val))
      BY <2>6
    <3> HIDE DEF val, t
    <3>2. Entries(BufPut(wire, key, t, val)) = KvPut(kv, key, t, val)
      BY <2>4, <3>1
    <3> QED
      BY <2>4, <3>2 DEF Agrees, val, t
  <2>8. \A prefix \in {<<"x">>, <<"args">>} : SplitUndoesJoin(prefix)
    <3>1. \A prefix \in {<<"x">>, <<"args">>} : Sequence(prefix)
      BY PrefixClean
    <3> QED
      BY <2>2, <3>1, StoredSplits
  <2> QED
    BY <2>2, <2>4, <2>5, <2>7, <2>8
<1>2. Init => ReceivedInv
  BY DEF Init, ReceivedInv
<1> QED
  BY <1>1, <1>2, NextReceivedInv, KvsAreTyped, PTL DEF Spec

-----------------------------------------------------------------------------
(* The BPF machine: how it runs, and what one instruction does.             *)

RunStep(prog, ctx, f, n) ==
  IF n = 0 THEN Start
  ELSE IF f[n - 1].pc = 0 THEN f[n - 1]
  ELSE Execute(prog[f[n - 1].pc], f[n - 1], ctx)

IsRun(prog, ctx, N, f) == f = [n \in 0..N |-> RunStep(prog, ctx, f, n)]

\* The recursive function of Allows is there.
LEMMA RunsExist ==
  ASSUME NEW prog, NEW ctx
  PROVE  \A N \in Nat : \E f : IsRun(prog, ctx, N, f)
<1> DEFINE T == {N \in Nat : \E f : IsRun(prog, ctx, N, f)}
<1>1. 0 \in T
  <2>1. IsRun(prog, ctx, 0, [n \in 0..0 |-> Start])
    BY DEF IsRun, RunStep
  <2> QED
    BY <2>1
<1>2. ASSUME NEW N \in Nat, N \in T PROVE N + 1 \in T
  <2>1. PICK g : IsRun(prog, ctx, N, g)
    BY <1>2
  <2> DEFINE h == [n \in 0..(N + 1) |-> IF n <= N THEN g[n] ELSE RunStep(prog, ctx, g, N + 1)]
  <2>2. \A n \in 0..(N + 1) : h[n] = RunStep(prog, ctx, h, n)
    <3> SUFFICES ASSUME NEW n \in 0..(N + 1) PROVE h[n] = RunStep(prog, ctx, h, n)
      OBVIOUS
    <3>1. h[n] = RunStep(prog, ctx, g, n)
      BY <2>1 DEF IsRun
    <3>2. n # 0 => n - 1 \in 0..(N + 1) /\ n - 1 <= N /\ h[n - 1] = g[n - 1]
      OBVIOUS
    <3> HIDE DEF h
    <3> QED
      BY <3>1, <3>2 DEF RunStep
  <2>3. IsRun(prog, ctx, N + 1, h)
    BY <2>2 DEF IsRun
  <2> QED
    BY <2>3
<1>3. Nat \subseteq T
  <2> HIDE DEF T
  <2> QED
    BY <1>1, <1>2, Induction
<1> QED
  BY <1>3

\* The states of the machine, one after the other.
Runs(prog, ctx, f) ==
  /\ f[0] = Start
  /\ \A n \in 1..Len(prog) :
       f[n] = IF f[n - 1].pc = 0 THEN f[n - 1] ELSE Execute(prog[f[n - 1].pc], f[n - 1], ctx)

LEMMA AllowsSteps ==
  ASSUME NEW prog, NEW req, Len(prog) \in Nat
  PROVE  \E f : /\ Runs(prog, Context(req), f)
                /\ Allows(prog, req) <=> f[Len(prog)].reg[0] = Word1
<1> DEFINE ctx == Context(req)
           f == CHOOSE g : IsRun(prog, ctx, Len(prog), g)
<1>1. IsRun(prog, ctx, Len(prog), f)
  BY RunsExist
<1>2. Allows(prog, req) <=> f[Len(prog)].reg[0] = Word1
  BY DEF Allows, IsRun, RunStep
<1> HIDE DEF f, ctx
<1>3. \A n \in 0..Len(prog) : f[n] = RunStep(prog, ctx, f, n)
  BY <1>1 DEF IsRun
<1>4. f[0] = Start
  <2>1. 0 \in 0..Len(prog)
    OBVIOUS
  <2> QED
    BY <1>3, <2>1 DEF RunStep
<1>5. ASSUME NEW n \in 1..Len(prog)
      PROVE  f[n] = IF f[n - 1].pc = 0 THEN f[n - 1]
                    ELSE Execute(prog[f[n - 1].pc], f[n - 1], ctx)
  <2>1. n \in 0..Len(prog) /\ n # 0
    OBVIOUS
  <2> QED
    BY <1>3, <2>1 DEF RunStep
<1> QED
  BY <1>2, <1>4, <1>5 DEF Runs, ctx

\* The machine has come to an instruction, in no more steps than there are before it.
At(prog, f, place, reg) ==
  /\ place \in 1..Len(prog)
  /\ \E n \in 0..(place - 1) : f[n] = [pc |-> place, reg |-> reg]

\* It has ended with the word in register 0.
Ended(prog, f, word) == \E n \in 0..Len(prog) : f[n].pc = 0 /\ f[n].reg[0] = word

LEMMA EndStays ==
  ASSUME NEW prog, NEW ctx, NEW f, Len(prog) \in Nat, Runs(prog, ctx, f), NEW word,
         Ended(prog, f, word)
  PROVE  f[Len(prog)].reg[0] = word
<1>1. PICK n \in 0..Len(prog) : f[n].pc = 0 /\ f[n].reg[0] = word
  BY DEF Ended
<1> DEFINE T == {k \in 0..(Len(prog) - n) : f[n + k] = f[n]}
<1>2. 0 \in T
  <2>1. n + 0 = n /\ 0 \in 0..(Len(prog) - n)
    OBVIOUS
  <2> QED
    BY <2>1
<1>3. ASSUME NEW k \in 0..((Len(prog) - n) - 1), k \in T PROVE k + 1 \in T
  <2>1. /\ n + (k + 1) \in 1..Len(prog) /\ (n + (k + 1)) - 1 = n + k
        /\ k + 1 \in 0..(Len(prog) - n)
    OBVIOUS
  <2>2. f[n + (k + 1)] = f[n]
    BY <1>1, <1>3, <2>1 DEF Runs
  <2> QED
    BY <2>1, <2>2
<1>4. Len(prog) - n \in Nat
  OBVIOUS
<1>5. 0..(Len(prog) - n) \subseteq T
  <2> HIDE DEF T
  <2> QED
    BY <1>2, <1>3, <1>4, InductionTo
<1>6. f[n + (Len(prog) - n)] = f[n]
  <2>1. Len(prog) - n \in 0..(Len(prog) - n)
    BY <1>4
  <2>2. Len(prog) - n \in T
    <3> HIDE DEF T
    <3> QED
      BY <1>5, <2>1
  <2> QED
    BY <2>2
<1>7. n + (Len(prog) - n) = Len(prog)
  OBVIOUS
<1> QED
  BY <1>1, <1>6, <1>7

\* One step from where it is.
LEMMA StepFrom ==
  ASSUME NEW prog, NEW ctx, NEW f, Len(prog) \in Nat, Runs(prog, ctx, f), NEW place, NEW reg,
         At(prog, f, place, reg)
  PROVE  \E n \in 0..(place - 1) :
           /\ n + 1 \in 1..Len(prog)
           /\ f[n + 1] = Execute(prog[place], [pc |-> place, reg |-> reg], ctx)
<1>1. PICK n \in 0..(place - 1) : f[n] = [pc |-> place, reg |-> reg]
  BY DEF At
<1>2. place \in 1..Len(prog) /\ place # 0 /\ n + 1 \in 1..Len(prog) /\ (n + 1) - 1 = n
  BY DEF At
<1>3. f[n].pc = place
  BY <1>1
<1>4. f[n + 1] = Execute(prog[place], f[n], ctx)
  BY <1>2, <1>3 DEF Runs
<1> QED
  BY <1>1, <1>2, <1>4

\* What it comes to by each instruction.
LEMMA GoesOn ==
  ASSUME NEW prog, NEW ctx, NEW f, Len(prog) \in Nat, Runs(prog, ctx, f), NEW place, NEW reg,
         At(prog, f, place, reg), NEW off \in Nat, place + 1 + off \in 1..Len(prog), NEW new,
         Execute(prog[place], [pc |-> place, reg |-> reg], ctx) = [pc |-> place + 1 + off, reg |-> new]
  PROVE  At(prog, f, place + 1 + off, new)
<1>1. PICK n \in 0..(place - 1) : f[n + 1] = [pc |-> place + 1 + off, reg |-> new]
  BY StepFrom
<1>2. place \in 1..Len(prog)
  BY DEF At
<1>3. n + 1 \in 0..((place + 1 + off) - 1)
  BY <1>2
<1> QED
  BY <1>1, <1>3 DEF At

\* What each instruction does where the machine is.
LEMMA Proceeds ==
  ASSUME NEW prog, NEW ctx, NEW f, Len(prog) \in Nat, Runs(prog, ctx, f), NEW place, NEW reg,
         At(prog, f, place, reg), place + 1 \in 1..Len(prog), NEW d, NEW x
  PROVE  /\ prog[place] = Ldx(d, x) => At(prog, f, place + 1, [reg EXCEPT ![d] = ctx[x]])
         /\ prog[place] = Mov(d, x) => At(prog, f, place + 1, [reg EXCEPT ![d] = reg[x]])
         /\ prog[place] = Rsh(d, x) =>
              At(prog, f, place + 1, [reg EXCEPT ![d] = ShiftedRight(reg[d], x)])
         /\ prog[place] = And(d, x) => At(prog, f, place + 1, [reg EXCEPT ![d] = reg[d] \cap x])
         /\ prog[place] = Set(d, x) => At(prog, f, place + 1, [reg EXCEPT ![d] = x])
<1> DEFINE m == [pc |-> place, reg |-> reg]
<1>1. place \in 1..Len(prog) /\ place + 1 + 0 = place + 1 /\ 0 \in Nat
  BY DEF At
<1>2. m.pc = place /\ m.reg = reg
  OBVIOUS
<1>3. ASSUME NEW new, Execute(prog[place], m, ctx) = [pc |-> m.pc + 1 + 0, reg |-> new]
      PROVE  At(prog, f, place + 1, new)
  <2>1. Execute(prog[place], [pc |-> place, reg |-> reg], ctx) = [pc |-> place + 1 + 0, reg |-> new]
    BY <1>2, <1>3
  <2>2. place + 1 + 0 \in 1..Len(prog)
    BY <1>1
  <2>3. At(prog, f, place + 1 + 0, new)
    BY <1>1, <2>1, <2>2, GoesOn
  <2> QED
    BY <1>1, <2>3
<1> HIDE DEF m
<1>4. ASSUME prog[place] = Ldx(d, x) PROVE At(prog, f, place + 1, [reg EXCEPT ![d] = ctx[x]])
  <2>1. Execute(Ldx(d, x), m, ctx) = [pc |-> m.pc + 1 + 0, reg |-> [m.reg EXCEPT ![d] = ctx[x]]]
    BY DEF Execute, Ldx
  <2> QED
    BY <1>2, <1>3, <1>4, <2>1
<1>5. ASSUME prog[place] = Mov(d, x) PROVE At(prog, f, place + 1, [reg EXCEPT ![d] = reg[x]])
  <2>1. Execute(Mov(d, x), m, ctx) = [pc |-> m.pc + 1 + 0, reg |-> [m.reg EXCEPT ![d] = m.reg[x]]]
    BY DEF Execute, Mov
  <2> QED
    BY <1>2, <1>3, <1>5, <2>1
<1>6. ASSUME prog[place] = Rsh(d, x)
      PROVE  At(prog, f, place + 1, [reg EXCEPT ![d] = ShiftedRight(reg[d], x)])
  <2>1. Execute(Rsh(d, x), m, ctx) =
          [pc |-> m.pc + 1 + 0, reg |-> [m.reg EXCEPT ![d] = ShiftedRight(m.reg[d], x)]]
    BY DEF Execute, Rsh
  <2> QED
    BY <1>2, <1>3, <1>6, <2>1
<1>7. ASSUME prog[place] = And(d, x) PROVE At(prog, f, place + 1, [reg EXCEPT ![d] = reg[d] \cap x])
  <2>1. Execute(And(d, x), m, ctx) =
          [pc |-> m.pc + 1 + 0, reg |-> [m.reg EXCEPT ![d] = m.reg[d] \cap x]]
    BY DEF Execute, And
  <2> QED
    BY <1>2, <1>3, <1>7, <2>1
<1>8. ASSUME prog[place] = Set(d, x) PROVE At(prog, f, place + 1, [reg EXCEPT ![d] = x])
  <2>1. Execute(Set(d, x), m, ctx) = [pc |-> m.pc + 1 + 0, reg |-> [m.reg EXCEPT ![d] = x]]
    BY DEF Execute, Set
  <2> QED
    BY <1>2, <1>3, <1>8, <2>1
<1> QED
  BY <1>4, <1>5, <1>6, <1>7, <1>8

\* A jump that is taken, and one that is not.
LEMMA JumpTaken ==
  ASSUME NEW prog, NEW ctx, NEW f, Len(prog) \in Nat, Runs(prog, ctx, f), NEW place, NEW reg,
         At(prog, f, place, reg), NEW d, NEW x, NEW off \in Nat, NEW to,
         prog[place] = Jne(d, x, off), to = place + 1 + off, to \in 1..Len(prog), reg[d] # x
  PROVE  At(prog, f, to, reg)
<1>1. Execute(prog[place], [pc |-> place, reg |-> reg], ctx) = [pc |-> place + 1 + off, reg |-> reg]
  BY DEF Execute, Jne
<1> QED
  BY <1>1, GoesOn

LEMMA JumpPassed ==
  ASSUME NEW prog, NEW ctx, NEW f, Len(prog) \in Nat, Runs(prog, ctx, f), NEW place, NEW reg,
         At(prog, f, place, reg), NEW d, NEW x, NEW off, NEW to,
         prog[place] = Jne(d, x, off), to = place + 1, to \in 1..Len(prog), reg[d] = x
  PROVE  At(prog, f, to, reg)
<1> DEFINE none == 0
<1>1. Execute(prog[place], [pc |-> place, reg |-> reg], ctx) = [pc |-> place + 1 + none, reg |-> reg]
  BY DEF Execute, Jne
<1>2. none \in Nat /\ place \in 1..Len(prog) /\ place + 1 + none = to
  BY DEF At
<1> HIDE DEF none
<1> QED
  BY <1>1, <1>2, GoesOn

\* The word in register 0 at an exit is what the program returns.
LEMMA Exits ==
  ASSUME NEW prog, NEW ctx, NEW f, Len(prog) \in Nat, Runs(prog, ctx, f), NEW place, NEW reg,
         At(prog, f, place, reg), prog[place] = Exit
  PROVE  Ended(prog, f, reg[0])
<1>1. PICK n \in 0..(place - 1) : /\ n + 1 \in 1..Len(prog)
                                  /\ f[n + 1] = Execute(prog[place], [pc |-> place, reg |-> reg], ctx)
  BY StepFrom
<1>2. Execute(Exit, [pc |-> place, reg |-> reg], ctx) = [pc |-> 0, reg |-> [pc |-> place, reg |-> reg].reg]
  BY DEF Execute, Exit
<1>3. f[n + 1] = [pc |-> 0, reg |-> reg]
  BY <1>1, <1>2
<1>4. n + 1 \in 0..Len(prog)
  BY <1>1
<1> QED
  BY <1>3, <1>4 DEF Ended

-----------------------------------------------------------------------------
(* An access, and the entry that allows it.                                 *)

DevTypes == {"b", "c"}

Asks(req) == req.type \in DevTypes /\ req.access \subseteq Letters

\* The words that a program looks at.
LEMMA Words ==
  ASSUME NEW req, Asks(req)
  PROVE  /\ Context(req).access_type \cap 0..15 = {DevBit[req.type]}
         /\ ShiftedRight(Context(req).access_type, 16) = {AccBit[a] : a \in req.access}
<1> DEFINE word == {16 + AccBit[a] : a \in req.access} \cup {DevBit[req.type]}
<1>1. Context(req).access_type = word
  BY DEF Context
<1>2. \A a \in req.access : AccBit[a] \in 0..2
  BY DEF Asks, Letters, AccBit
<1>3. DevBit[req.type] \in 0..1
  BY DEF Asks, DevTypes, DevBit
<1>4. word \cap 0..15 = {DevBit[req.type]}
  <2>1. \A a \in req.access : 16 + AccBit[a] \notin 0..15
    BY <1>2
  <2>2. DevBit[req.type] \in 0..15
    BY <1>3
  <2> QED
    BY <2>1, <2>2
<1>5. {c \in word : c >= 16} = {16 + AccBit[a] : a \in req.access}
  <2>1. \A a \in req.access : 16 + AccBit[a] >= 16
    BY <1>2
  <2>2. ~(DevBit[req.type] >= 16)
    BY <1>3
  <2> QED
    BY <2>1, <2>2
<1>6. {b - 16 : b \in {16 + AccBit[a] : a \in req.access}} = {AccBit[a] : a \in req.access}
  <2>1. \A a \in req.access : (16 + AccBit[a]) - 16 = AccBit[a]
    BY <1>2
  <2> QED
    BY <2>1
<1>7. ShiftedRight(word, 16) = {AccBit[a] : a \in req.access}
  BY <1>5, <1>6 DEF ShiftedRight
<1> QED
  BY <1>1, <1>4, <1>7

LEMMA DeniedIs ==
  ASSUME NEW set \in SUBSET Letters, NEW access, Range(access) \subseteq Letters
  PROVE  {AccBit[a] : a \in set} \cap DenyMask(access) = {} <=> set \subseteq Range(access)
<1>1. \A a, b \in Letters : AccBit[a] = AccBit[b] => a = b
  BY DEF Letters, AccBit
<1>2. \A a \in Letters : AccBit[a] \in 0..2
  BY DEF Letters, AccBit
<1>3. DenyMask(access) = 0..2 \ {AccBit[a] : a \in Range(access)}
  BY DEF DenyMask, AccessToMask
<1>4. ASSUME set \subseteq Range(access) PROVE {AccBit[a] : a \in set} \cap DenyMask(access) = {}
  BY <1>3, <1>4
<1>5. ASSUME NEW a \in set, a \notin Range(access)
      PROVE  AccBit[a] \in {AccBit[x] : x \in set} \cap DenyMask(access)
  <2>1. a \in Letters
    OBVIOUS
  <2>2. \A x \in Range(access) : AccBit[x] # AccBit[a]
    BY <1>1, <1>5, <2>1
  <2> QED
    BY <1>2, <1>3, <2>1, <2>2
<1> QED
  BY <1>4, <1>5

\* The registers as the first three instructions load them.
Loaded(reg, ctx) ==
  /\ reg = [r \in 0..5 |-> reg[r]]
  /\ reg[2] = ctx.major /\ reg[3] = ctx.minor /\ reg[4] = ctx.access_type

LEMMA LoadedStays ==
  ASSUME NEW ctx, NEW reg, Loaded(reg, ctx), NEW new,
         \E x : new = [reg EXCEPT ![5] = x] \/ new = [reg EXCEPT ![0] = x]
  PROVE  Loaded(new, ctx)
<1>1. /\ DOMAIN reg = 0..5 /\ 0 \in 0..5 /\ 2 \in 0..5 /\ 3 \in 0..5 /\ 4 \in 0..5 /\ 5 \in 0..5
      /\ reg[2] = ctx.major /\ reg[3] = ctx.minor /\ reg[4] = ctx.access_type
  BY DEF Loaded
<1>2. new = [q \in 0..5 |-> new[q]]
  BY <1>1
<1>3. new[2] = reg[2] /\ new[3] = reg[3] /\ new[4] = reg[4]
  BY <1>1
<1> QED
  BY <1>1, <1>2, <1>3 DEF Loaded

LEMMA LoadedDomain ==
  ASSUME NEW ctx, NEW reg, Loaded(reg, ctx)
  PROVE  0 \in DOMAIN reg /\ 5 \in DOMAIN reg
BY DEF Loaded

\* The entry lets the access through.
Fits(e, req) ==
  /\ e.type = req.type /\ e.major = req.major
  /\ e.minor = AnyMinor \/ e.minor = req.minor
  /\ req.access \subseteq Range(e.access)

\* The part of an entry's instructions from the access on.
LastInsns(e) == <<Mov(5, 4), Rsh(5, 16), And(5, DenyMask(e.access)), Jne(5, Word0, 2),
                  Set(0, Word1), Exit>>

\* What the instructions leave loaded.
LEMMA MovLoads ==
  ASSUME NEW prog, NEW ctx, NEW f, Len(prog) \in Nat, Runs(prog, ctx, f), NEW place, NEW reg,
         At(prog, f, place, reg), Loaded(reg, ctx), NEW to, to = place + 1, to \in 1..Len(prog),
         prog[place] = Mov(5, 4)
  PROVE  \E new : At(prog, f, to, new) /\ Loaded(new, ctx) /\ new[5] = ctx.access_type
<1> DEFINE new == [reg EXCEPT ![5] = reg[4]]
<1>1. reg[4] = ctx.access_type /\ new = [reg EXCEPT ![5] = reg[4]]
  BY DEF Loaded
<1>2. At(prog, f, to, new)
  BY Proceeds
<1> HIDE DEF new
<1>3. Loaded(new, ctx)
  BY <1>1, LoadedStays
<1>4. new[5] = reg[4]
  BY <1>1, LoadedDomain
<1> QED
  BY <1>1, <1>2, <1>3, <1>4

LEMMA RshLoads ==
  ASSUME NEW prog, NEW ctx, NEW f, Len(prog) \in Nat, Runs(prog, ctx, f), NEW place, NEW reg,
         At(prog, f, place, reg), Loaded(reg, ctx), NEW to, to = place + 1, to \in 1..Len(prog),
         NEW x, prog[place] = Rsh(5, x)
  PROVE  \E new : At(prog, f, to, new) /\ Loaded(new, ctx) /\ new[5] = ShiftedRight(reg[5], x)
<1> DEFINE val == ShiftedRight(reg[5], x)
           new == [reg EXCEPT ![5] = val]
<1>1. new = [reg EXCEPT ![5] = val]
  OBVIOUS
<1>2. At(prog, f, to, new)
  BY Proceeds
<1> HIDE DEF new, val
<1>3. Loaded(new, ctx)
  BY <1>1, LoadedStays
<1>4. new[5] = val
  BY <1>1, LoadedDomain
<1> QED
  BY <1>1, <1>2, <1>3, <1>4 DEF val

LEMMA AndLoads ==
  ASSUME NEW prog, NEW ctx, NEW f, Len(prog) \in Nat, Runs(prog, ctx, f), NEW place, NEW reg,
         At(prog, f, place, reg), Loaded(reg, ctx), NEW to, to = place + 1, to \in 1..Len(prog),
         NEW x, prog[place] = And(5, x)
  PROVE  \E new : At(prog, f, to, new) /\ Loaded(new, ctx) /\ new[5] = reg[5] \cap x
<1> DEFINE val == reg[5] \cap x
           new == [reg EXCEPT ![5] = val]
<1>1. new = [reg EXCEPT ![5] = val]
  OBVIOUS
<1>2. At(prog, f, to, new)
  BY Proceeds
<1> HIDE DEF new, val
<1>3. Loaded(new, ctx)
  BY <1>1, LoadedStays
<1>4. new[5] = val
  BY <1>1, LoadedDomain
<1> QED
  BY <1>1, <1>2, <1>3, <1>4 DEF val

LEMMA SetLoads ==
  ASSUME NEW prog, NEW ctx, NEW f, Len(prog) \in Nat, Runs(prog, ctx, f), NEW place, NEW reg,
         At(prog, f, place, reg), Loaded(reg, ctx), NEW to, to = place + 1, to \in 1..Len(prog),
         NEW x, prog[place] = Set(0, x)
  PROVE  \E new : At(prog, f, to, new) /\ Loaded(new, ctx) /\ new[0] = x
<1> DEFINE new == [reg EXCEPT ![0] = x]
<1>1. new = [reg EXCEPT ![0] = x]
  OBVIOUS
<1>2. At(prog, f, to, new)
  BY Proceeds
<1> HIDE DEF new
<1>3. Loaded(new, ctx)
  BY <1>1, LoadedStays
<1>4. new[0] = x
  BY <1>1, LoadedDomain
<1> QED
  BY <1>1, <1>2, <1>3, <1>4

\* The instructions are at the place in the program.
Block(prog, place, insns) == \A k \in DOMAIN insns : prog[place + (k - 1)] = insns[k]

LEMMA TailRuns ==
  ASSUME NEW prog, NEW req, NEW f, Len(prog) \in Nat, Runs(prog, Context(req), f), Asks(req),
         NEW e, Range(e.access) \subseteq Letters, NEW place, NEW reg, At(prog, f, place, reg),
         Loaded(reg, Context(req)), place + 6 \in 1..Len(prog),
         Block(prog, place, LastInsns(e))
  PROVE  IF req.access \subseteq Range(e.access) THEN Ended(prog, f, Word1)
         ELSE \E new : Loaded(new, Context(req)) /\ At(prog, f, place + 6, new)
<1> DEFINE deny == DenyMask(e.access)
           sixteen == 16
           two == 2
           five == 5
           p1 == place + 1
           p2 == place + 2
           p3 == place + 3
           p4 == place + 4
           p5 == place + 5
           p6 == place + 6
<1>1. place \in 1..Len(prog)
  BY DEF At
<1>2. /\ prog[place] = Mov(5, 4) /\ prog[p1] = Rsh(5, sixteen)
      /\ prog[p2] = And(5, deny) /\ prog[p3] = Jne(five, Word0, two)
      /\ prog[p4] = Set(0, Word1) /\ prog[p5] = Exit
  <2>1. /\ LastInsns(e)[1] = Mov(5, 4) /\ LastInsns(e)[2] = Rsh(5, 16)
        /\ LastInsns(e)[3] = And(5, deny) /\ LastInsns(e)[4] = Jne(5, Word0, 2)
        /\ LastInsns(e)[5] = Set(0, Word1) /\ LastInsns(e)[6] = Exit
        /\ DOMAIN LastInsns(e) = 1..6
    BY DEF LastInsns
  <2>2. /\ 1 \in 1..6 /\ 2 \in 1..6 /\ 3 \in 1..6 /\ 4 \in 1..6 /\ 5 \in 1..6 /\ 6 \in 1..6
        /\ place + (1 - 1) = place /\ place + (2 - 1) = place + 1 /\ place + (3 - 1) = place + 2
        /\ place + (4 - 1) = place + 3 /\ place + (5 - 1) = place + 4 /\ place + (6 - 1) = place + 5
    BY <1>1
  <2> HIDE DEF deny
  <2> QED
    BY <2>1, <2>2 DEF Block
<1>3. /\ p1 \in 1..Len(prog) /\ p2 \in 1..Len(prog) /\ p3 \in 1..Len(prog)
      /\ p4 \in 1..Len(prog) /\ p5 \in 1..Len(prog) /\ p6 \in 1..Len(prog)
  BY <1>1
<1>4. /\ p1 = place + 1 /\ p2 = p1 + 1 /\ p3 = p2 + 1 /\ p4 = p3 + 1 /\ p5 = p4 + 1
      /\ p6 = p3 + 1 + two
  BY <1>1
<1>5. two \in Nat /\ five = 5
  OBVIOUS
<1> HIDE DEF deny, sixteen, two, five, p1, p2, p3, p4, p5, p6
<1>6. PICK reg1 : /\ At(prog, f, p1, reg1) /\ Loaded(reg1, Context(req))
                  /\ reg1[5] = Context(req).access_type
  <2>1. p1 = place + 1 /\ p1 \in 1..Len(prog) /\ prog[place] = Mov(5, 4)
    BY <1>2, <1>3, <1>4
  <2> QED
    BY <2>1, MovLoads
<1>7. PICK reg2 : /\ At(prog, f, p2, reg2) /\ Loaded(reg2, Context(req))
                  /\ reg2[5] = ShiftedRight(reg1[5], sixteen)
  <2>1. prog[p1] = Rsh(5, sixteen) /\ p2 = p1 + 1 /\ p2 \in 1..Len(prog) /\ At(prog, f, p1, reg1) /\ Loaded(reg1, Context(req))
    BY <1>2, <1>3, <1>4, <1>6
  <2> QED
    BY <2>1, RshLoads
<1>8. PICK reg3 : /\ At(prog, f, p3, reg3) /\ Loaded(reg3, Context(req))
                  /\ reg3[5] = reg2[5] \cap deny
  <2>1. prog[p2] = And(5, deny) /\ p3 = p2 + 1 /\ p3 \in 1..Len(prog) /\ At(prog, f, p2, reg2) /\ Loaded(reg2, Context(req))
    BY <1>2, <1>3, <1>4, <1>6, <1>7
  <2> QED
    BY <2>1, AndLoads
<1>9. reg3[five] = Word0 <=> req.access \subseteq Range(e.access)
  <2>1. req.access \in SUBSET Letters
    BY DEF Asks
  <2>2. {AccBit[a] : a \in req.access} \cap deny = {} <=> req.access \subseteq Range(e.access)
    BY <2>1, DeniedIs DEF deny
  <2>3. reg2[5] = {AccBit[a] : a \in req.access}
    BY <1>6, <1>7, Words DEF sixteen
  <2> QED
    BY <1>5, <1>8, <2>2, <2>3 DEF Word0
<1>10. CASE req.access \subseteq Range(e.access)
  <2>1. At(prog, f, p4, reg3)
    BY <1>2, <1>3, <1>4, <1>8, <1>9, <1>10, JumpPassed
  <2>2. PICK reg4 : At(prog, f, p5, reg4) /\ reg4[0] = Word1
    <3>1. prog[p4] = Set(0, Word1) /\ p5 = p4 + 1 /\ p5 \in 1..Len(prog) /\ Loaded(reg3, Context(req))
      BY <1>2, <1>3, <1>4, <1>8
    <3> QED
      BY <2>1, <3>1, SetLoads
  <2>3. Ended(prog, f, reg4[0])
    BY <1>2, <2>2, Exits
  <2> QED
    BY <1>10, <2>2, <2>3
<1>11. CASE ~(req.access \subseteq Range(e.access))
  <2>1. At(prog, f, p6, reg3)
    BY <1>2, <1>3, <1>4, <1>5, <1>8, <1>9, <1>11, JumpTaken
  <2> QED
    BY <1>8, <1>11, <2>1 DEF p6
<1> QED
  BY <1>10, <1>11

LEMMA TypesApart ==
  ASSUME NEW a \in DevTypes, NEW b \in DevTypes, {DevBit[a]} = {DevBit[b]}
  PROVE  a = b
BY DEF DevTypes, DevBit

\* The part of an entry's instructions up to the minor number.
LEMMA HeadRuns ==
  ASSUME NEW prog, NEW req, NEW f, Len(prog) \in Nat, Runs(prog, Context(req), f), Asks(req),
         NEW e, e.type \in DevTypes, NEW place, NEW reg, At(prog, f, place, reg),
         Loaded(reg, Context(req)), NEW past, past \in 1..Len(prog),
         NEW off1 \in Nat, NEW off2 \in Nat, past = place + 3 + off1, past = place + 4 + off2,
         place + 4 \in 1..Len(prog), prog[place] = Mov(5, 4), prog[place + 1] = And(5, 0..15),
         prog[place + 2] = Jne(5, {DevBit[e.type]}, off1),
         prog[place + 3] = Jne(2, e.major, off2)
  PROVE  \E new : /\ Loaded(new, Context(req))
                  /\ IF e.type = req.type /\ e.major = req.major
                     THEN At(prog, f, place + 4, new) ELSE At(prog, f, past, new)
<1> DEFINE low == 0..15
           kind == {DevBit[e.type]}
           asked == {DevBit[req.type]}
           con == Context(req)
           two == 2
           five == 5
           p1 == place + 1
           p2 == place + 2
           p3 == place + 3
           p4 == place + 4
<1>1. place \in 1..Len(prog)
  BY DEF At
<1>2. /\ prog[p1] = And(5, low) /\ prog[p2] = Jne(five, kind, off1)
      /\ prog[p3] = Jne(two, e.major, off2)
  OBVIOUS
<1>3. /\ p1 \in 1..Len(prog) /\ p2 \in 1..Len(prog) /\ p3 \in 1..Len(prog) /\ p4 \in 1..Len(prog)
      /\ p1 = place + 1 /\ p2 = p1 + 1 /\ p3 = p2 + 1 /\ p4 = p3 + 1
      /\ past = p2 + 1 + off1 /\ past = p3 + 1 + off2
  BY ONLY <1>1, Len(prog) \in Nat, place + 4 \in 1..Len(prog), off1 \in Nat, off2 \in Nat,
          past = place + 3 + off1, past = place + 4 + off2
<1>4. Runs(prog, con, f) /\ Loaded(reg, con) /\ five = 5 /\ two = 2
  OBVIOUS
<1>5. con.access_type \cap low = asked /\ con.major = req.major
  BY Words DEF Context
<1>6. kind = asked <=> e.type = req.type
  <2>1. req.type \in DevTypes
    BY DEF Asks
  <2> QED
    BY <2>1, TypesApart
<1> HIDE DEF low, kind, asked, con, two, five, p1, p2, p3, p4
<1>7. PICK reg1 : At(prog, f, p1, reg1) /\ Loaded(reg1, con) /\ reg1[5] = con.access_type
  <2>1. p1 = place + 1 /\ p1 \in 1..Len(prog)
    BY <1>3
  <2> QED
    BY <1>4, <2>1, MovLoads
<1>8. PICK reg2 : At(prog, f, p2, reg2) /\ Loaded(reg2, con) /\ reg2[5] = reg1[5] \cap low
  <2>1. p2 = p1 + 1 /\ p2 \in 1..Len(prog) /\ prog[p1] = And(5, low) /\ At(prog, f, p1, reg1)
        /\ Loaded(reg1, con) /\ Runs(prog, con, f)
    BY <1>2, <1>3, <1>4, <1>7
  <2>2. \E new : At(prog, f, p2, new) /\ Loaded(new, con) /\ new[5] = reg1[5] \cap low
    BY ONLY <2>1, AndLoads, Len(prog) \in Nat
  <2> QED
    BY <2>2
<1>9. reg2[five] = asked /\ reg2[two] = req.major
  BY <1>4, <1>5, <1>7, <1>8 DEF Loaded
<1>10. CASE e.type # req.type
  <2>1. reg2[five] # kind
    BY <1>6, <1>9, <1>10
  <2>2. At(prog, f, past, reg2)
    <3>1. /\ prog[p2] = Jne(five, kind, off1) /\ past = p2 + 1 + off1 /\ past \in 1..Len(prog)
          /\ At(prog, f, p2, reg2) /\ Runs(prog, con, f) /\ off1 \in Nat
      BY <1>2, <1>3, <1>4, <1>8
    <3> QED
      BY ONLY <2>1, <3>1, JumpTaken, Len(prog) \in Nat
  <2> QED
    BY <1>8, <1>10, <2>2 DEF con
<1>11. CASE e.type = req.type
  <2>1. At(prog, f, p3, reg2)
    <3>1. reg2[five] = kind /\ p3 = p2 + 1 /\ p3 \in 1..Len(prog)
      BY <1>3, <1>6, <1>9, <1>11
    <3>2. prog[p2] = Jne(five, kind, off1) /\ At(prog, f, p2, reg2) /\ Runs(prog, con, f)
      BY <1>2, <1>4, <1>8
    <3> QED
      BY ONLY <3>1, <3>2, JumpPassed, Len(prog) \in Nat
  <2>2. CASE e.major # req.major
    <3>1. At(prog, f, past, reg2)
      <4>1. reg2[two] # e.major /\ past = p3 + 1 + off2 /\ off2 \in Nat /\ past \in 1..Len(prog)
        BY <1>3, <1>9, <2>2
      <4>2. prog[p3] = Jne(two, e.major, off2) /\ Runs(prog, con, f)
        BY <1>2, <1>4
      <4> QED
        BY ONLY <2>1, <4>1, <4>2, JumpTaken, Len(prog) \in Nat
    <3> QED
      BY <1>8, <2>2, <3>1 DEF con
  <2>3. CASE e.major = req.major
    <3>1. At(prog, f, p4, reg2)
      <4>1. reg2[two] = e.major /\ p4 = p3 + 1 /\ p4 \in 1..Len(prog)
        BY <1>3, <1>9, <2>3
      <4>2. prog[p3] = Jne(two, e.major, off2) /\ Runs(prog, con, f)
        BY <1>2, <1>4
      <4> QED
        BY ONLY <2>1, <4>1, <4>2, JumpPassed, Len(prog) \in Nat
    <3> QED
      BY <1>8, <1>11, <2>3, <3>1 DEF con, p4
  <2> QED
    BY <2>2, <2>3
<1> QED
  BY <1>10, <1>11

LEMMA EntryOfTen ==
  ASSUME NEW e, e.minor = AnyMinor
  PROVE  /\ DOMAIN EntryInsns(e) = 1..10
         /\ EntryInsns(e)[1] = Mov(5, 4) /\ EntryInsns(e)[2] = And(5, 0..15)
         /\ EntryInsns(e)[3] = Jne(5, {DevBit[e.type]}, 7)
         /\ EntryInsns(e)[4] = Jne(2, e.major, 6)
         /\ \A k \in 1..6 : EntryInsns(e)[k + 4] = LastInsns(e)[k]
BY DEF EntryInsns, LastInsns, InsnCount, TypeJump

LEMMA EntryOfEleven ==
  ASSUME NEW e, e.minor # AnyMinor
  PROVE  /\ DOMAIN EntryInsns(e) = 1..11
         /\ EntryInsns(e)[1] = Mov(5, 4) /\ EntryInsns(e)[2] = And(5, 0..15)
         /\ EntryInsns(e)[3] = Jne(5, {DevBit[e.type]}, 8)
         /\ EntryInsns(e)[4] = Jne(2, e.major, 7)
         /\ EntryInsns(e)[5] = Jne(3, e.minor, 6)
         /\ \A k \in 1..6 : EntryInsns(e)[k + 5] = LastInsns(e)[k]
BY DEF EntryInsns, LastInsns, InsnCount, TypeJump

\* The last part of an entry's block is a block of its own.
LEMMA TailBlock ==
  ASSUME NEW prog, NEW place \in Nat, NEW skip \in Nat, NEW insns, NEW e, Block(prog, place, insns),
         \A k \in 1..6 : k + skip \in DOMAIN insns /\ insns[k + skip] = LastInsns(e)[k]
  PROVE  Block(prog, place + skip, LastInsns(e))
<1>1. DOMAIN LastInsns(e) = 1..6
  BY DEF LastInsns
<1>2. ASSUME NEW k \in 1..6 PROVE prog[(place + skip) + (k - 1)] = LastInsns(e)[k]
  <2>1. prog[place + ((k + skip) - 1)] = insns[k + skip] /\ insns[k + skip] = LastInsns(e)[k]
    BY DEF Block
  <2>2. place + ((k + skip) - 1) = (place + skip) + (k - 1)
    OBVIOUS
  <2> QED
    BY <2>1, <2>2
<1> QED
  BY <1>1, <1>2 DEF Block

\* The program returns 1 from an entry that fits, and comes past another as it came to it.
LEMMA EntryRuns ==
  ASSUME NEW prog, NEW req, NEW f, Len(prog) \in Nat, Runs(prog, Context(req), f), Asks(req),
         NEW e, e.type \in DevTypes, Range(e.access) \subseteq Letters, NEW place, NEW reg,
         At(prog, f, place, reg), Loaded(reg, Context(req)),
         place + InsnCount(e) \in 1..Len(prog), Block(prog, place, EntryInsns(e))
  PROVE  IF Fits(e, req) THEN Ended(prog, f, Word1)
         ELSE \E new : Loaded(new, Context(req)) /\ At(prog, f, place + InsnCount(e), new)
<1> DEFINE insns == EntryInsns(e)
           past == place + InsnCount(e)
           Goal == IF Fits(e, req) THEN Ended(prog, f, Word1)
                   ELSE \E new : Loaded(new, Context(req)) /\ At(prog, f, past, new)
<1>1. place \in 1..Len(prog)
  BY DEF At
<1>2. \A k \in DOMAIN insns : prog[place + (k - 1)] = insns[k]
  BY DEF Block
<1>3. CASE e.minor = AnyMinor
  <2>1. /\ DOMAIN insns = 1..10 /\ insns[1] = Mov(5, 4) /\ insns[2] = And(5, 0..15)
        /\ insns[3] = Jne(5, {DevBit[e.type]}, 7) /\ insns[4] = Jne(2, e.major, 6)
        /\ \A k \in 1..6 : insns[k + 4] = LastInsns(e)[k]
    BY <1>3, EntryOfTen
  <2>2. past = place + 10
    BY <1>3 DEF InsnCount
  <2> HIDE DEF insns, past
  <2>3. /\ 1 \in 1..10 /\ 2 \in 1..10 /\ 3 \in 1..10 /\ 4 \in 1..10
        /\ place + (1 - 1) = place /\ place + (2 - 1) = place + 1 /\ place + (3 - 1) = place + 2
        /\ place + (4 - 1) = place + 3
    BY <1>1
  <2>4. /\ prog[place] = Mov(5, 4) /\ prog[place + 1] = And(5, 0..15)
        /\ prog[place + 2] = Jne(5, {DevBit[e.type]}, 7) /\ prog[place + 3] = Jne(2, e.major, 6)
    BY <1>2, <2>1, <2>3
  <2>5. /\ past = place + 3 + 7 /\ past = place + 4 + 6 /\ past \in 1..Len(prog)
        /\ place + 4 \in 1..Len(prog) /\ 6 \in Nat /\ 7 \in Nat /\ past = (place + 4) + 6
    BY <1>1, <2>2 DEF past
  <2>6. PICK new : /\ Loaded(new, Context(req))
                   /\ IF e.type = req.type /\ e.major = req.major
                      THEN At(prog, f, place + 4, new) ELSE At(prog, f, past, new)
    BY <2>4, <2>5, HeadRuns
  <2>7. Block(prog, place + 4, LastInsns(e))
    <3>1. \A k \in 1..6 : k + 4 \in DOMAIN insns /\ insns[k + 4] = LastInsns(e)[k]
      BY <2>1
    <3>2. Block(prog, place, insns) /\ place \in Nat /\ 4 \in Nat
      BY <1>1 DEF insns
    <3> QED
      BY <3>1, <3>2, TailBlock
  <2>8. CASE e.type = req.type /\ e.major = req.major
    <3> DEFINE q == place + 4
    <3>1. /\ At(prog, f, q, new) /\ Loaded(new, Context(req)) /\ Block(prog, q, LastInsns(e))
          /\ q + 6 \in 1..Len(prog) /\ q + 6 = past
      BY <2>5, <2>6, <2>7, <2>8
    <3> HIDE DEF q
    <3>2. IF req.access \subseteq Range(e.access) THEN Ended(prog, f, Word1)
          ELSE \E z : Loaded(z, Context(req)) /\ At(prog, f, q + 6, z)
      BY <3>1, TailRuns
    <3> QED
      BY <1>3, <2>8, <3>1, <3>2 DEF Fits, past
  <2> QED
    BY <2>6, <2>8 DEF Fits, past
<1>4. CASE e.minor # AnyMinor
  <2>1. /\ DOMAIN insns = 1..11 /\ insns[1] = Mov(5, 4) /\ insns[2] = And(5, 0..15)
        /\ insns[3] = Jne(5, {DevBit[e.type]}, 8) /\ insns[4] = Jne(2, e.major, 7)
        /\ insns[5] = Jne(3, e.minor, 6)
        /\ \A k \in 1..6 : insns[k + 5] = LastInsns(e)[k]
    BY <1>4, EntryOfEleven
  <2>2. past = place + 11
    BY <1>4 DEF InsnCount
  <2> HIDE DEF insns, past
  <2>3. /\ 1 \in 1..11 /\ 2 \in 1..11 /\ 3 \in 1..11 /\ 4 \in 1..11 /\ 5 \in 1..11
        /\ place + (1 - 1) = place /\ place + (2 - 1) = place + 1 /\ place + (3 - 1) = place + 2
        /\ place + (4 - 1) = place + 3 /\ place + (5 - 1) = place + 4
    BY <1>1
  <2>4. /\ prog[place] = Mov(5, 4) /\ prog[place + 1] = And(5, 0..15)
        /\ prog[place + 2] = Jne(5, {DevBit[e.type]}, 8) /\ prog[place + 3] = Jne(2, e.major, 7)
        /\ prog[place + 4] = Jne(3, e.minor, 6)
    BY <1>2, <2>1, <2>3
  <2>5. /\ past = place + 3 + 8 /\ past = place + 4 + 7 /\ past \in 1..Len(prog)
        /\ place + 4 \in 1..Len(prog) /\ 8 \in Nat /\ 7 \in Nat /\ 6 \in Nat
        /\ place + 5 \in 1..Len(prog) /\ past = (place + 5) + 6 /\ place + 5 = (place + 4) + 1
        /\ past = (place + 4) + 1 + 6
    BY <1>1, <2>2 DEF past
  <2>6. PICK new : /\ Loaded(new, Context(req))
                   /\ IF e.type = req.type /\ e.major = req.major
                      THEN At(prog, f, place + 4, new) ELSE At(prog, f, past, new)
    BY <2>4, <2>5, HeadRuns
  <2>7. Block(prog, place + 5, LastInsns(e))
    <3>1. \A k \in 1..6 : k + 5 \in DOMAIN insns /\ insns[k + 5] = LastInsns(e)[k]
      BY <2>1
    <3>2. Block(prog, place, insns) /\ place \in Nat /\ 5 \in Nat
      BY <1>1 DEF insns
    <3> QED
      BY <3>1, <3>2, TailBlock
  <2>8. CASE e.type = req.type /\ e.major = req.major
    <3> DEFINE p == place + 4
               q == place + 5
               six == 6
               three == 3
    <3>1. /\ At(prog, f, p, new) /\ prog[p] = Jne(three, e.minor, six) /\ six \in Nat
          /\ past = p + 1 + six /\ past \in 1..Len(prog) /\ q = p + 1 /\ q \in 1..Len(prog)
      BY <2>4, <2>5, <2>6, <2>8
    <3>2. Block(prog, q, LastInsns(e)) /\ q + 6 \in 1..Len(prog) /\ q + 6 = past
      BY <2>5, <2>7
    <3>3. new[three] = req.minor
      BY <2>6 DEF Loaded, Context
    <3> HIDE DEF p, q, six, three
    <3>4. CASE e.minor # req.minor
      <4>1. new[three] # e.minor
        BY <3>3, <3>4
      <4>2. At(prog, f, past, new)
        BY <3>1, <4>1, JumpTaken
      <4> QED
        BY <1>4, <2>6, <3>4, <4>2 DEF Fits, past
    <3>5. CASE e.minor = req.minor
      <4>1. new[three] = e.minor
        BY <3>3, <3>5
      <4>2. At(prog, f, q, new)
        BY <3>1, <4>1, JumpPassed
      <4>3. IF req.access \subseteq Range(e.access) THEN Ended(prog, f, Word1)
            ELSE \E z : Loaded(z, Context(req)) /\ At(prog, f, q + 6, z)
        BY <2>6, <3>2, <4>2, TailRuns
      <4> QED
        BY <2>8, <3>2, <3>5, <4>3 DEF Fits, past
    <3> QED
      BY <3>4, <3>5
  <2> QED
    BY <2>6, <2>8 DEF Fits, past
<1> QED
  BY <1>3, <1>4

-----------------------------------------------------------------------------
(* A program, entry by entry.                                               *)

LEMMA FlatRange ==
  ASSUME NEW S, NEW seqs \in Seq(Seq(S))
  PROVE  Range(FlattenSeq(seqs)) = UNION {Range(seqs[n]) : n \in DOMAIN seqs}
<1> DEFINE buf == FlattenSeq(seqs)
           N == Len(seqs)
<1>1. buf \in Seq(S) /\ \E at : Flat(seqs, buf, at)
  BY Flattened
<1>2. PICK at : Flat(seqs, buf, at)
  BY <1>1
<1>3. N \in Nat /\ DOMAIN seqs = 1..N /\ \A n \in 1..N : seqs[n] \in Seq(S)
  OBVIOUS
<1>4. \A n \in 1..N : Len(seqs[n]) \in Nat /\ DOMAIN seqs[n] = 1..Len(seqs[n])
  BY <1>3
<1> HIDE DEF buf
<1>5. Len(buf) \in Nat /\ DOMAIN buf = 1..Len(buf)
  BY <1>1
<1>6. /\ at \in [1..(N + 1) -> Nat] /\ at[1] = 0 /\ Len(buf) = at[N + 1]
      /\ \A n \in 1..N : /\ at[n + 1] = at[n] + Len(seqs[n]) /\ at[n + 1] <= Len(buf)
                         /\ \A k \in 1..Len(seqs[n]) : buf[at[n] + k] = seqs[n][k]
  BY <1>2 DEF Flat
<1> HIDE DEF N
<1>7. ASSUME NEW n \in 1..N, NEW k \in 1..Len(seqs[n]) PROVE seqs[n][k] \in Range(buf)
  <2>1. buf[at[n] + k] = seqs[n][k]
    BY <1>6
  <2>2. at[n] \in Nat /\ at[n] + Len(seqs[n]) <= Len(buf) /\ Len(seqs[n]) \in Nat
    <3>1. n \in 1..(N + 1)
      BY <1>3
    <3> QED
      BY <1>4, <1>6, <3>1
  <2>3. at[n] + k \in 1..Len(buf)
    <3>1. Len(buf) \in Nat /\ k \in 1..Len(seqs[n])
      BY <1>5
    <3> QED
      BY ONLY <2>2, <3>1
  <2> QED
    BY <1>5, <2>1, <2>3 DEF Range
<1> DEFINE All == UNION {Range(seqs[n]) : n \in DOMAIN seqs}
           T == {n \in 0..N : \A j \in 1..at[n + 1] : buf[j] \in All}
<1>8. \A n \in 1..N : \A k \in 1..Len(seqs[n]) : seqs[n][k] \in All
  <2> SUFFICES ASSUME NEW n \in 1..N, NEW k \in 1..Len(seqs[n]) PROVE seqs[n][k] \in All
    OBVIOUS
  <2>1. seqs[n][k] \in Range(seqs[n])
    BY <1>4 DEF Range
  <2> QED
    BY <1>3, <2>1
<1> HIDE DEF All
<1>9. 0 \in T
  <2>1. at[0 + 1] = 0 /\ 0 \in 0..N
    BY <1>3, <1>6
  <2> QED
    BY <2>1
<1>10. ASSUME NEW n \in 0..(N - 1), n \in T PROVE n + 1 \in T
  <2>1. n + 1 \in 1..N /\ n + 1 \in 0..N /\ n + 1 \in 1..(N + 1)
    BY <1>3
  <2>2. /\ at[(n + 1) + 1] = at[n + 1] + Len(seqs[n + 1])
        /\ \A k \in 1..Len(seqs[n + 1]) : buf[at[n + 1] + k] = seqs[n + 1][k]
        /\ at[n + 1] \in Nat /\ Len(seqs[n + 1]) \in Nat
    BY <1>4, <1>6, <2>1
  <2>3. ASSUME NEW j \in 1..at[(n + 1) + 1] PROVE buf[j] \in All
    <3>1. CASE j <= at[n + 1]
      <4>1. j \in 1..at[n + 1]
        BY <2>2, <3>1
      <4> QED
        BY <1>10, <4>1
    <3>2. CASE ~(j <= at[n + 1])
      <4>1. j - at[n + 1] \in 1..Len(seqs[n + 1]) /\ at[n + 1] + (j - at[n + 1]) = j
        BY <2>2, <3>2
      <4>2. buf[j] = seqs[n + 1][j - at[n + 1]]
        BY <2>2, <4>1
      <4> QED
        BY <1>8, <2>1, <4>1, <4>2
    <3> QED
      BY <3>1, <3>2
  <2> QED
    BY <2>1, <2>3
<1>11. N \in T
  <2> HIDE DEF T
  <2>1. 0..N \subseteq T
    BY <1>3, <1>9, <1>10, InductionTo
  <2> QED
    BY <1>3, <2>1
<1>12. \A j \in 1..Len(buf) : buf[j] \in All
  BY <1>6, <1>11
<1>13. Range(buf) \subseteq All
  BY <1>5, <1>12 DEF Range
<1>14. All \subseteq Range(buf)
  BY <1>3, <1>4, <1>7 DEF All, Range
<1> QED
  BY <1>13, <1>14 DEF All, buf

InsnsOf(e) ==
  {Mov(5, 4), And(5, 0..15), Jne(5, {DevBit[e.type]}, TypeJump(InsnCount(e))),
   Jne(2, e.major, InsnCount(e) - 4), Jne(3, e.minor, InsnCount(e) - 5), Rsh(5, 16),
   And(5, DenyMask(e.access)), Jne(5, Word0, 2), Set(0, Word1), Exit}

LEMMA EntryIsInsns ==
  ASSUME NEW e
  PROVE  EntryInsns(e) \in Seq(InsnsOf(e)) /\ Len(EntryInsns(e)) = InsnCount(e)
<1> DEFINE S == InsnsOf(e)
           n == InsnCount(e)
           a == <<Mov(5, 4), And(5, 0..15), Jne(5, {DevBit[e.type]}, TypeJump(n)), Jne(2, e.major, n - 4)>>
           b == IF e.minor = AnyMinor THEN <<>> ELSE <<Jne(3, e.minor, n - 5)>>
           c == <<Mov(5, 4), Rsh(5, 16), And(5, DenyMask(e.access)), Jne(5, Word0, 2),
                  Set(0, Word1), Exit>>
<1>1. EntryInsns(e) = (a \o b) \o c
  BY DEF EntryInsns
<1>2. \A x1, x2, x3, x4, x5, x6 \in S :
        /\ <<x1, x2, x3, x4>> \in Seq(S) /\ Len(<<x1, x2, x3, x4>>) = 4
        /\ <<x1, x2, x3, x4, x5, x6>> \in Seq(S) /\ Len(<<x1, x2, x3, x4, x5, x6>>) = 6
        /\ <<x1>> \in Seq(S) /\ Len(<<x1>>) = 1
  OBVIOUS
<1>3. /\ Mov(5, 4) \in S /\ And(5, 0..15) \in S /\ Jne(5, {DevBit[e.type]}, TypeJump(n)) \in S
      /\ Jne(2, e.major, n - 4) \in S /\ Jne(3, e.minor, n - 5) \in S /\ Rsh(5, 16) \in S
      /\ And(5, DenyMask(e.access)) \in S /\ Jne(5, Word0, 2) \in S /\ Set(0, Word1) \in S
      /\ Exit \in S
  BY DEF InsnsOf
<1>4. a \in Seq(S) /\ Len(a) = 4
  <2> HIDE DEF S, n
  <2> QED
    BY <1>2, <1>3
<1>5. c \in Seq(S) /\ Len(c) = 6
  <2> HIDE DEF S, n
  <2> QED
    BY <1>2, <1>3
<1>6. b \in Seq(S) /\ Len(b) = IF e.minor = AnyMinor THEN 0 ELSE 1
  <2> HIDE DEF S, n
  <2> QED
    BY <1>2, <1>3
<1> HIDE DEF S, n, a, b, c
<1>7. (a \o b) \o c \in Seq(S) /\ Len((a \o b) \o c) = Len(a) + Len(b) + Len(c)
  <2>1. a \in Seq(S) /\ b \in Seq(S) /\ c \in Seq(S)
    BY <1>4, <1>5, <1>6
  <2>2. (a \o b) \o c \in Seq(S)
    BY ONLY <2>1, ThreeParts
  <2>3. Len((a \o b) \o c) = Len(a) + Len(b) + Len(c)
    BY ONLY <2>1, ThreeParts
  <2> QED
    BY <2>2, <2>3
<1>8. 4 + (IF e.minor = AnyMinor THEN 0 ELSE 1) + 6 = n
  BY DEF n, InsnCount
<1> QED
  BY <1>1, <1>4, <1>5, <1>6, <1>7, <1>8 DEF S, n

\* Where the parts of a program are.
LEMMA ProgramIs ==
  ASSUME NEW list, Sequence(list)
  PROVE  \E at : /\ at \in [1..(Len(list) + 1) -> Nat] /\ at[1] = 0
                 /\ Len(Program(list)) = at[Len(list) + 1] + 5
                 /\ Program(list)[1] = Ldx(2, "major") /\ Program(list)[2] = Ldx(3, "minor")
                 /\ Program(list)[3] = Ldx(4, "access_type")
                 /\ Program(list)[at[Len(list) + 1] + 4] = Set(0, Word0)
                 /\ Program(list)[at[Len(list) + 1] + 5] = Exit
                 /\ \A n \in 1..Len(list) :
                      /\ at[n + 1] = at[n] + InsnCount(list[n])
                      /\ at[n + 1] + 4 \in 1..Len(Program(list))
                      /\ Block(Program(list), at[n] + 4, EntryInsns(list[n]))
<1> DEFINE a == <<Ldx(2, "major"), Ldx(3, "minor"), Ldx(4, "access_type")>>
           c == <<Set(0, Word0), Exit>>
           seqs == [n \in DOMAIN list |-> EntryInsns(list[n])]
           b == FlattenSeq(seqs)
           S == {Ldx(2, "major"), Ldx(3, "minor"), Ldx(4, "access_type"), Set(0, Word0), Exit}
                  \cup UNION {InsnsOf(list[n]) : n \in DOMAIN list}
           N == Len(list)
           prog == Program(list)
<1>1. prog = (a \o b) \o c
  BY DEF Program
<1>2. N \in Nat /\ DOMAIN list = 1..N
  BY DEF Sequence
<1>3. \A n \in 1..N : EntryInsns(list[n]) \in Seq(S) /\ Len(EntryInsns(list[n])) = InsnCount(list[n])
  <2> SUFFICES ASSUME NEW n \in 1..N
               PROVE  EntryInsns(list[n]) \in Seq(S) /\ Len(EntryInsns(list[n])) = InsnCount(list[n])
    OBVIOUS
  <2>1. InsnsOf(list[n]) \subseteq S
    BY <1>2
  <2> HIDE DEF S
  <2> QED
    BY <2>1, EntryIsInsns, SeqMonotonic
<1>4. /\ a \in Seq(S) /\ Len(a) = 3 /\ a[1] = Ldx(2, "major") /\ a[2] = Ldx(3, "minor")
      /\ a[3] = Ldx(4, "access_type")
  <2> DEFINE x == Ldx(2, "major")
             y == Ldx(3, "minor")
             z == Ldx(4, "access_type")
  <2>1. x \in S /\ y \in S /\ z \in S
    OBVIOUS
  <2> HIDE DEF x, y, z, S
  <2>2. /\ <<x, y, z>> \in Seq(S) /\ Len(<<x, y, z>>) = 3 /\ <<x, y, z>>[1] = x
        /\ <<x, y, z>>[2] = y /\ <<x, y, z>>[3] = z
    BY <2>1
  <2> QED
    BY <2>2 DEF x, y, z
<1>5. c \in Seq(S) /\ Len(c) = 2 /\ c[1] = Set(0, Word0) /\ c[2] = Exit
  <2>1. Set(0, Word0) \in S /\ Exit \in S
    OBVIOUS
  <2> HIDE DEF S
  <2> QED
    BY <2>1, Two
<1> HIDE DEF S
<1>6. seqs \in Seq(Seq(S)) /\ Len(seqs) = N
  BY <1>2, <1>3
<1>7. \A n \in 1..N : seqs[n] = EntryInsns(list[n])
  BY <1>2
<1> HIDE DEF seqs
<1>8. b \in Seq(S) /\ \E at : Flat(seqs, b, at)
  BY <1>6, Flattened
<1>9. PICK at : Flat(seqs, b, at)
  BY <1>8
<1> HIDE DEF a, b, c, prog, N
<1>10. /\ at \in [1..(N + 1) -> Nat] /\ at[1] = 0 /\ Len(b) = at[N + 1]
       /\ \A n \in 1..N : /\ at[n + 1] = at[n] + InsnCount(list[n]) /\ at[n + 1] <= Len(b)
                          /\ \A k \in 1..Len(EntryInsns(list[n])) :
                               b[at[n] + k] = EntryInsns(list[n])[k]
  BY <1>3, <1>6, <1>7, <1>9 DEF Flat
<1>11. Len(b) \in Nat
  BY <1>8
<1>12. /\ Len(prog) = Len(a) + Len(b) + Len(c)
       /\ \A n \in 1..Len(a) : prog[n] = a[n]
       /\ \A n \in 1..Len(b) : prog[Len(a) + n] = b[n]
       /\ \A n \in 1..Len(c) : prog[Len(a) + Len(b) + n] = c[n]
  <2>1. a \in Seq(S) /\ b \in Seq(S) /\ c \in Seq(S)
    BY <1>4, <1>5, <1>8
  <2>2. Len((a \o b) \o c) = Len(a) + Len(b) + Len(c)
    BY ONLY <2>1, ThreeParts
  <2>3. /\ \A n \in 1..Len(a) : ((a \o b) \o c)[n] = a[n]
        /\ \A n \in 1..Len(b) : ((a \o b) \o c)[Len(a) + n] = b[n]
        /\ \A n \in 1..Len(c) : ((a \o b) \o c)[Len(a) + Len(b) + n] = c[n]
    BY ONLY <2>1, ThreeParts
  <2> QED
    BY <1>1, <2>2, <2>3
<1>13. Len(prog) = at[N + 1] + 5
  BY <1>4, <1>5, <1>10, <1>11, <1>12
<1>14. prog[1] = Ldx(2, "major") /\ prog[2] = Ldx(3, "minor") /\ prog[3] = Ldx(4, "access_type")
  <2>1. 1 \in 1..3 /\ 2 \in 1..3 /\ 3 \in 1..3
    OBVIOUS
  <2> QED
    BY <1>4, <1>12, <2>1
<1>15. prog[at[N + 1] + 4] = Set(0, Word0) /\ prog[at[N + 1] + 5] = Exit
  <2>1. 1 \in 1..2 /\ 2 \in 1..2
    OBVIOUS
  <2>2. Len(a) + Len(b) + 1 = at[N + 1] + 4 /\ Len(a) + Len(b) + 2 = at[N + 1] + 5
    BY <1>4, <1>10, <1>11
  <2>3. prog[Len(a) + Len(b) + 1] = c[1] /\ prog[Len(a) + Len(b) + 2] = c[2]
    BY <1>5, <1>12, <2>1
  <2> QED
    BY <1>5, <2>2, <2>3
<1>16. ASSUME NEW n \in 1..N
       PROVE  /\ at[n + 1] = at[n] + InsnCount(list[n])
              /\ at[n + 1] + 4 \in 1..Len(prog)
              /\ Block(prog, at[n] + 4, EntryInsns(list[n]))
  <2>1. n \in 1..(N + 1) /\ n + 1 \in 1..(N + 1)
    BY <1>2 DEF N
  <2>2. /\ at[n] \in Nat /\ at[n + 1] \in Nat /\ at[n + 1] <= Len(b)
        /\ at[n + 1] = at[n] + InsnCount(list[n])
    BY <1>10, <2>1
  <2>3. at[n + 1] + 4 \in 1..Len(prog)
    BY <1>4, <1>5, <1>11, <1>12, <2>2
  <2>4. ASSUME NEW k \in DOMAIN EntryInsns(list[n])
        PROVE  prog[(at[n] + 4) + (k - 1)] = EntryInsns(list[n])[k]
    <3>1. k \in 1..Len(EntryInsns(list[n])) /\ Len(EntryInsns(list[n])) = InsnCount(list[n])
      BY <1>3
    <3>2. b[at[n] + k] = EntryInsns(list[n])[k]
      BY <1>10, <3>1
    <3>3. k \in 1..InsnCount(list[n]) /\ InsnCount(list[n]) \in Nat
      BY <3>1 DEF InsnCount
    <3>4. at[n] + k \in 1..Len(b)
      BY <1>11, <2>2, <3>3
    <3>5. prog[Len(a) + (at[n] + k)] = b[at[n] + k]
      BY <1>12, <3>4
    <3>6. Len(a) + (at[n] + k) = (at[n] + 4) + (k - 1)
      <4>1. Len(a) = 3 /\ at[n] \in Nat /\ k \in Nat
        BY <1>4, <2>2, <3>3
      <4> QED
        BY ONLY <4>1
    <3> QED
      BY <3>2, <3>5, <3>6
  <2> QED
    BY <2>2, <2>3, <2>4 DEF Block
<1> QED
  BY <1>10, <1>13, <1>14, <1>15, <1>16 DEF prog, N

\* The first three instructions.
LEMMA StartRuns ==
  ASSUME NEW prog, NEW ctx, NEW f, Len(prog) \in Nat, Runs(prog, ctx, f), 4 \in 1..Len(prog),
         prog[1] = Ldx(2, "major"), prog[2] = Ldx(3, "minor"), prog[3] = Ldx(4, "access_type")
  PROVE  \E reg : Loaded(reg, ctx) /\ At(prog, f, 4, reg)
<1> DEFINE reg0 == [r \in 0..5 |-> Word0]
           reg1 == [reg0 EXCEPT ![2] = ctx["major"]]
           reg2 == [reg1 EXCEPT ![3] = ctx["minor"]]
           reg3 == [reg2 EXCEPT ![4] = ctx["access_type"]]
           one == 1
           two == 2
           three == 3
           four == 4
<1>1. At(prog, f, one, reg0)
  BY DEF At, Runs, Start
<1>2. /\ two = one + 1 /\ three = two + 1 /\ four = three + 1
      /\ two \in 1..Len(prog) /\ three \in 1..Len(prog) /\ four \in 1..Len(prog)
  OBVIOUS
<1>3. prog[one] = Ldx(2, "major") /\ prog[two] = Ldx(3, "minor") /\ prog[three] = Ldx(4, "access_type")
  OBVIOUS
<1>4. Loaded(reg3, ctx)
  <2>1. 2 \in 0..5 /\ 3 \in 0..5 /\ 4 \in 0..5 /\ DOMAIN reg0 = 0..5
    OBVIOUS
  <2> DEFINE major == ctx["major"]
             minor == ctx["minor"]
             access == ctx["access_type"]
  <2> HIDE DEF reg0, major, minor, access
  <2>2. reg3 = [r \in 0..5 |-> reg3[r]]
    BY <2>1
  <2>3. DOMAIN reg1 = 0..5 /\ DOMAIN reg2 = 0..5
    BY <2>1
  <2>4. reg1[2] = major
    BY <2>1 DEF major
  <2>5. reg2[3] = minor /\ reg2[2] = reg1[2]
    <3> HIDE DEF reg1
    <3> QED
      BY <2>1, <2>3 DEF minor
  <2>6. reg3[4] = access /\ reg3[3] = reg2[3] /\ reg3[2] = reg2[2]
    <3> HIDE DEF reg2
    <3> QED
      BY <2>1, <2>3 DEF access
  <2> QED
    <3> HIDE DEF reg3
    <3> QED
      BY <2>2, <2>4, <2>5, <2>6 DEF Loaded, major, minor, access
<1>5. /\ reg1 = [reg0 EXCEPT ![2] = ctx["major"]] /\ reg2 = [reg1 EXCEPT ![3] = ctx["minor"]]
      /\ reg3 = [reg2 EXCEPT ![4] = ctx["access_type"]]
  OBVIOUS
<1> HIDE DEF reg0, reg1, reg2, reg3, one, two, three, four
<1>6. At(prog, f, two, reg1)
  <2>1. one + 1 \in 1..Len(prog)
    BY <1>2
  <2>2. At(prog, f, one + 1, [reg0 EXCEPT ![2] = ctx["major"]])
    BY <1>1, <1>3, <2>1, Proceeds
  <2> QED
    BY <1>2, <1>5, <2>2
<1>7. At(prog, f, three, reg2)
  <2>1. two + 1 \in 1..Len(prog)
    BY <1>2
  <2>2. At(prog, f, two + 1, [reg1 EXCEPT ![3] = ctx["minor"]])
    BY <1>3, <1>6, <2>1, Proceeds
  <2> QED
    BY <1>2, <1>5, <2>2
<1>8. At(prog, f, four, reg3)
  <2>1. three + 1 \in 1..Len(prog)
    BY <1>2
  <2>2. At(prog, f, three + 1, [reg2 EXCEPT ![4] = ctx["access_type"]])
    BY <1>3, <1>7, <2>1, Proceeds
  <2> QED
    BY <1>2, <1>5, <2>2
<1> QED
  BY <1>4, <1>8 DEF four

\* For any list of entries and any access, the program made of the list, run by the
\* machine, allows the access if and only if some entry fits it: every jump off an entry
\* lands on the next, and past the last one on the denial (cgroup_device.c:123-178).
THEOREM ProgramAllows ==
  ASSUME NEW list, Sequence(list), NEW req, Asks(req),
         \A n \in 1..Len(list) : /\ list[n].type \in DevTypes
                                 /\ Range(list[n].access) \subseteq Letters
  PROVE  Allows(Program(list), req) <=> \E e \in Range(list) : Fits(e, req)
<1> DEFINE prog == Program(list)
           ctx == Context(req)
           N == Len(list)
<1>1. N \in Nat /\ DOMAIN list = 1..N
  BY DEF Sequence
<1>2. PICK at : /\ at \in [1..(N + 1) -> Nat] /\ at[1] = 0 /\ Len(prog) = at[N + 1] + 5
                /\ prog[1] = Ldx(2, "major") /\ prog[2] = Ldx(3, "minor")
                /\ prog[3] = Ldx(4, "access_type")
                /\ prog[at[N + 1] + 4] = Set(0, Word0) /\ prog[at[N + 1] + 5] = Exit
                /\ \A n \in 1..N : /\ at[n + 1] = at[n] + InsnCount(list[n])
                                   /\ at[n + 1] + 4 \in 1..Len(prog)
                                   /\ Block(prog, at[n] + 4, EntryInsns(list[n]))
  BY ProgramIs
<1> HIDE DEF prog, ctx, N
<1>3. at[N + 1] \in Nat /\ Len(prog) \in Nat /\ 4 \in 1..Len(prog)
  <2>1. at[N + 1] \in Nat
    BY <1>1, <1>2
  <2> QED
    BY <1>2, <2>1
<1>4. PICK f : Runs(prog, ctx, f) /\ (Allows(prog, req) <=> f[Len(prog)].reg[0] = Word1)
  BY <1>3, AllowsSteps DEF ctx
<1> DEFINE Fit(n) == \E m \in 1..n : Fits(list[m], req)
           Past(n) == IF Fit(n) THEN Ended(prog, f, Word1)
                      ELSE \E reg : Loaded(reg, ctx) /\ At(prog, f, at[n + 1] + 4, reg)
           T == {n \in 0..N : Past(n)}
<1>5. 0 \in T
  <2>1. \E reg : Loaded(reg, ctx) /\ At(prog, f, 4, reg)
    BY <1>2, <1>3, <1>4, StartRuns
  <2>2. at[0 + 1] + 4 = 4 /\ ~Fit(0) /\ 0 \in 0..N
    BY <1>1, <1>2
  <2> QED
    BY <2>1, <2>2
<1>6. ASSUME NEW n \in 0..(N - 1), n \in T PROVE n + 1 \in T
  <2> DEFINE e == list[n + 1]
             place == at[n + 1] + 4
  <2>1. n + 1 \in 1..N /\ n + 1 \in 0..N
    BY <1>1
  <2>2. Past(n)
    BY <1>6
  <2>3. CASE Fit(n)
    <3>1. Fit(n + 1)
      BY <1>1, <2>3
    <3>2. Ended(prog, f, Word1)
      BY <2>2, <2>3
    <3> QED
      BY <2>1, <3>1, <3>2
  <2>4. CASE ~Fit(n)
    <3>1. PICK reg : Loaded(reg, ctx) /\ At(prog, f, place, reg)
      BY <2>2, <2>4
    <3>2. /\ Block(prog, place, EntryInsns(e)) /\ at[(n + 1) + 1] + 4 \in 1..Len(prog)
          /\ at[(n + 1) + 1] = at[n + 1] + InsnCount(e)
      BY <1>2, <2>1
    <3>3. e.type \in DevTypes /\ Range(e.access) \subseteq Letters
      BY <2>1 DEF N
    <3>4. at[n + 1] \in Nat /\ InsnCount(e) \in Nat
      <4>1. n + 1 \in 1..(N + 1)
        BY <1>1
      <4> QED
        BY <1>2, <4>1 DEF InsnCount
    <3>5. place + InsnCount(e) = at[(n + 1) + 1] + 4
      BY <3>2, <3>4
    <3>6. Fit(n + 1) <=> Fits(e, req)
      <4>1. 1..(n + 1) = (1..n) \cup {n + 1}
        OBVIOUS
      <4> QED
        BY <2>4, <4>1
    <3> HIDE DEF e, place, Fit
    <3>7. IF Fits(e, req) THEN Ended(prog, f, Word1)
          ELSE \E new : Loaded(new, ctx) /\ At(prog, f, place + InsnCount(e), new)
      <4>1. place + InsnCount(e) \in 1..Len(prog)
        BY <3>2, <3>5
      <4> QED
        BY <1>3, <1>4, <3>1, <3>2, <3>3, <4>1, EntryRuns DEF ctx
    <3> QED
      BY <2>1, <3>5, <3>6, <3>7
  <2> QED
    BY <2>3, <2>4
<1>7. N \in T
  <2> HIDE DEF T
  <2>1. 0..N \subseteq T
    BY <1>1, <1>5, <1>6, InductionTo
  <2> QED
    BY <1>1, <2>1
<1>8. Past(N)
  BY <1>7
<1>9. Fit(N) <=> \E e \in Range(list) : Fits(e, req)
  BY <1>1 DEF Range
<1> HIDE DEF Fit
<1>10. CASE Fit(N)
  <2>1. f[Len(prog)].reg[0] = Word1
    BY <1>3, <1>4, <1>8, <1>10, EndStays
  <2> QED
    BY <1>4, <1>9, <1>10, <2>1 DEF prog
<1>11. CASE ~Fit(N)
  <2> DEFINE place == at[N + 1] + 4
             last == at[N + 1] + 5
  <2>1. PICK reg : Loaded(reg, ctx) /\ At(prog, f, place, reg)
    BY <1>8, <1>11
  <2>2. last = place + 1 /\ last \in 1..Len(prog) /\ prog[place] = Set(0, Word0)
        /\ prog[last] = Exit
    <3>1. prog[place] = Set(0, Word0) /\ prog[last] = Exit /\ Len(prog) = at[N + 1] + 5
      BY <1>2
    <3>2. last = place + 1 /\ last \in 1..Len(prog)
      BY ONLY <1>3, <3>1
    <3> QED
      BY <3>1, <3>2
  <2> HIDE DEF place, last
  <2>3. PICK new : At(prog, f, last, new) /\ new[0] = Word0
    BY <1>3, <1>4, <2>1, <2>2, SetLoads
  <2>4. Ended(prog, f, new[0])
    BY <1>3, <1>4, <2>2, <2>3, Exits
  <2>5. f[Len(prog)].reg[0] = Word0
    BY <1>3, <1>4, <2>3, <2>4, EndStays
  <2>6. Word0 # Word1
    BY DEF Word0, Word1
  <2> QED
    BY <1>4, <1>9, <1>11, <2>5, <2>6 DEF prog
<1> QED
  BY <1>10, <1>11

-----------------------------------------------------------------------------
(* What a policy grants, and the entries it becomes.                        *)

LEMMA ClassIs ==
  ASSUME Sequence(ProcDevices), NEW spec, NEW access
  PROVE  Range(OfClass(spec, access)) =
           {DeviceEntry(spec.type, l.major, AnyMinor, access) :
              l \in {x \in Range(ProcDevices) : x.type = spec.type /\ x.name = spec.name}}
<1> DEFINE entry(l) == DeviceEntry(spec.type, l.major, AnyMinor, access)
           named(l) == l.type = spec.type /\ l.name = spec.name
           S == {entry(l) : l \in Range(ProcDevices)}
           part(l) == IF named(l) THEN <<entry(l)>> ELSE <<>>
           seqs == [n \in DOMAIN ProcDevices |-> part(ProcDevices[n])]
<1>1. OfClass(spec, access) = FlattenSeq(seqs)
  BY DEF OfClass
<1>2. DOMAIN ProcDevices = 1..Len(ProcDevices) /\ Len(ProcDevices) \in Nat
  BY DEF Sequence
<1>3. \A l \in Range(ProcDevices) : entry(l) \in S
  OBVIOUS
<1> HIDE DEF S, entry, named
<1>4. \A l \in Range(ProcDevices) : part(l) \in Seq(S)
  <2> SUFFICES ASSUME NEW l \in Range(ProcDevices) PROVE part(l) \in Seq(S)
    OBVIOUS
  <2>1. <<entry(l)>> \in Seq(S)
    BY <1>3, One
  <2>2. <<>> \in Seq(S)
    OBVIOUS
  <2> QED
    BY <2>1, <2>2
<1>5. \A l : Range(part(l)) = IF named(l) THEN {entry(l)} ELSE {}
  BY DEF Range
<1>6. \A n \in DOMAIN ProcDevices : ProcDevices[n] \in Range(ProcDevices)
  BY DEF Range
<1> HIDE DEF part
<1>7. seqs \in Seq(Seq(S))
  BY <1>2, <1>4, <1>6
<1>8. DOMAIN seqs = DOMAIN ProcDevices /\ \A n \in DOMAIN seqs : seqs[n] = part(ProcDevices[n])
  OBVIOUS
<1> HIDE DEF seqs
<1>9. Range(FlattenSeq(seqs)) = UNION {Range(seqs[n]) : n \in DOMAIN seqs}
  BY <1>7, FlatRange
<1>10. UNION {Range(seqs[n]) : n \in DOMAIN seqs} = {entry(l) : l \in {x \in Range(ProcDevices) : named(x)}}
  <2>1. \A l \in Range(ProcDevices) : \E n \in DOMAIN seqs : ProcDevices[n] = l
    BY <1>8 DEF Range
  <2> QED
    BY <1>5, <1>6, <1>8, <2>1
<1> QED
  BY <1>1, <1>9, <1>10 DEF entry, named

LEMMA AccessIs ==
  ASSUME NEW access, Sequence(access)
  PROVE  AccessIsValid(access) <=> Len(access) \in 1..3 /\ Range(access) \subseteq Letters
BY DEF AccessIsValid, Range, Letters

LEMMA PathIs ==
  ASSUME NEW spec, NEW access
  PROVE  Range(OfPath(spec, access)) =
           {DeviceEntry(Nodes[p].type, Nodes[p].major, Nodes[p].minor, access) :
              p \in {x \in DOMAIN Nodes : x = spec.path}}
<1> DEFINE n == Nodes[spec.path]
           e == DeviceEntry(n.type, n.major, n.minor, access)
<1>1. CASE spec.path \in DOMAIN Nodes
  <2>1. OfPath(spec, access) = <<e>>
    BY <1>1 DEF OfPath
  <2>2. Range(<<e>>) = {e}
    <3> HIDE DEF e
    <3> QED
      BY DEF Range
  <2> QED
    BY <1>1, <2>1, <2>2
<1>2. CASE spec.path \notin DOMAIN Nodes
  <2>1. OfPath(spec, access) = <<>>
    BY <1>2 DEF OfPath
  <2> QED
    BY <1>2, <2>1 DEF Range
<1> QED
  BY <1>1, <1>2

\* The entries of an item let through what it grants.
LEMMA ItemFits ==
  ASSUME NEW o \in Options \cup HelperOptions, OptionsAreValid(o), NEW item \in Range(Items(o)),
         NEW req, Asks(req)
  PROVE  /\ \A e \in Range(Resolve(item)) : e.type \in DevTypes /\ AccessIsValid(e.access)
         /\ (\E e \in Range(Resolve(item)) : Fits(e, req)) <=> Grants(item, req)
<1>1. /\ Sequence(ProcDevices) /\ Sequence(item.access)
      /\ item.spec.kind = "class" => item.spec.type \in DevTypes
      /\ \A p \in DOMAIN Nodes :
           /\ Nodes[p] = [type |-> Nodes[p].type, major |-> Nodes[p].major, minor |-> Nodes[p].minor]
           /\ Nodes[p].type \in DevTypes /\ Nodes[p].minor # AnyMinor
  BY DevicesAssumption DEF DevTypes
<1>2. Range(<<"r", "w", "m">>) = Letters
  BY DEF Range, Letters
<1>3. AccessIsValid(item.access) <=>
        Len(item.access) \in 1..3 /\ Range(item.access) \subseteq Range(<<"r", "w", "m">>)
  BY <1>1, <1>2, AccessIs
<1>4. Range(<<>>) = {}
  BY DEF Range
<1>5. CASE ~AccessIsValid(item.access)
  BY <1>3, <1>4, <1>5 DEF Resolve, Grants
<1>6. CASE AccessIsValid(item.access) /\ item.spec.kind = "class"
  <2> DEFINE lines == {x \in Range(ProcDevices) : x.type = item.spec.type /\ x.name = item.spec.name}
             entry(l) == DeviceEntry(item.spec.type, l.major, AnyMinor, item.access)
  <2>1. Resolve(item) = OfClass(item.spec, item.access)
    BY <1>6 DEF Resolve
  <2>2. Range(Resolve(item)) = {entry(l) : l \in lines}
    BY <1>1, <2>1, ClassIs
  <2>3. \A l : /\ entry(l).type = item.spec.type /\ entry(l).major = l.major
               /\ entry(l).minor = AnyMinor /\ entry(l).access = item.access
    BY DEF DeviceEntry
  <2>4. Grants(item, req) <=>
          /\ req.access \subseteq Range(item.access)
          /\ item.spec.type = req.type
          /\ \E l \in Range(ProcDevices) :
               l.type = req.type /\ l.name = item.spec.name /\ l.major = req.major
    BY <1>3, <1>6 DEF Grants, Matches
  <2> HIDE DEF entry
  <2>5. (\E e \in Range(Resolve(item)) : Fits(e, req)) <=> \E l \in lines : Fits(entry(l), req)
    BY <2>2
  <2>6. \A l : Fits(entry(l), req) <=>
          item.spec.type = req.type /\ l.major = req.major /\ req.access \subseteq Range(item.access)
    BY <2>3 DEF Fits
  <2>7. \A e \in Range(Resolve(item)) : e.type \in DevTypes /\ AccessIsValid(e.access)
    BY <1>1, <1>6, <2>2, <2>3
  <2> QED
    BY <2>4, <2>5, <2>6, <2>7
<1>7. CASE AccessIsValid(item.access) /\ item.spec.kind = "path"
  <2> DEFINE paths == {x \in DOMAIN Nodes : x = item.spec.path}
             entry(p) == DeviceEntry(Nodes[p].type, Nodes[p].major, Nodes[p].minor, item.access)
  <2>1. Resolve(item) = OfPath(item.spec, item.access)
    BY <1>7 DEF Resolve
  <2>2. Range(Resolve(item)) = {entry(p) : p \in paths}
    BY <2>1, PathIs
  <2>3. \A p : /\ entry(p).type = Nodes[p].type /\ entry(p).major = Nodes[p].major
               /\ entry(p).minor = Nodes[p].minor /\ entry(p).access = item.access
    BY DEF DeviceEntry
  <2>4. Grants(item, req) <=>
          /\ req.access \subseteq Range(item.access)
          /\ item.spec.path \in DOMAIN Nodes
          /\ Nodes[item.spec.path] = [type |-> req.type, major |-> req.major, minor |-> req.minor]
    BY <1>3, <1>7 DEF Grants, Matches
  <2>5. ASSUME NEW p \in DOMAIN Nodes
        PROVE  Nodes[p] = [type |-> req.type, major |-> req.major, minor |-> req.minor] <=>
                 Nodes[p].type = req.type /\ Nodes[p].major = req.major /\ Nodes[p].minor = req.minor
    <3> DEFINE n == Nodes[p]
    <3>1. n = [type |-> n.type, major |-> n.major, minor |-> n.minor]
      BY <1>1
    <3> HIDE DEF n
    <3>2. n = [type |-> req.type, major |-> req.major, minor |-> req.minor] <=>
            n.type = req.type /\ n.major = req.major /\ n.minor = req.minor
      BY <3>1
    <3> QED
      BY <3>2 DEF n
  <2> HIDE DEF entry
  <2>6. (\E e \in Range(Resolve(item)) : Fits(e, req)) <=> \E p \in paths : Fits(entry(p), req)
    BY <2>2
  <2>7. \A p \in DOMAIN Nodes : Fits(entry(p), req) <=>
          /\ Nodes[p].type = req.type /\ Nodes[p].major = req.major /\ Nodes[p].minor = req.minor
          /\ req.access \subseteq Range(item.access)
    BY <1>1, <2>3 DEF Fits
  <2>8. \A e \in Range(Resolve(item)) : e.type \in DevTypes /\ AccessIsValid(e.access)
    BY <1>1, <1>7, <2>2, <2>3
  <2> QED
    BY <2>4, <2>5, <2>6, <2>7, <2>8
<1>8. CASE item.spec.kind \notin {"class", "path"}
  BY <1>4, <1>8 DEF Resolve, Grants, Matches
<1> QED
  BY <1>5, <1>6, <1>7, <1>8

\* The entries of a list let through what one of its items grants.
LEMMA ListFits ==
  ASSUME NEW o \in Options \cup HelperOptions, OptionsAreValid(o), ~Uncontained(o)
  PROVE  /\ DeviceAllow(o) \in Seq(DeviceEntries(o)) /\ DeviceAllow(o) # AllowAll
         /\ \A e \in Range(DeviceAllow(o)) : e.type \in DevTypes /\ AccessIsValid(e.access)
         /\ \A req : Asks(req) =>
              ((\E e \in Range(DeviceAllow(o)) : Fits(e, req)) <=>
                 \E item \in Range(Items(o)) : Grants(item, req))
<1> DEFINE items == Items(o)
           seqs == [n \in DOMAIN items |-> Resolve(items[n])]
           list == DeviceAllow(o)
           E == DeviceEntries(o)
<1>1. list # AllowAll
  BY DevicesAssumption
<1>2. list \in Seq(E)
  BY <1>1, DeviceList
<1>3. list = FlattenSeq(seqs)
  BY DEF DeviceAllow
<1>4. DOMAIN items = 1..Len(items) /\ Len(items) \in Nat
  BY ItemsOf DEF Sequence
<1>5. \A n \in DOMAIN items : items[n] \in Range(items)
  BY DEF Range
<1>6. \A item \in Range(items) : Resolve(item) \in Seq(E)
  BY ResolvedItem
<1> HIDE DEF items, list, E
<1>7. seqs \in Seq(Seq(E))
  BY <1>4, <1>5, <1>6
<1>8. DOMAIN seqs = DOMAIN items /\ \A n \in DOMAIN items : seqs[n] = Resolve(items[n])
  OBVIOUS
<1> HIDE DEF seqs
<1>9. Range(list) = UNION {Range(seqs[n]) : n \in DOMAIN seqs}
  BY <1>3, <1>7, FlatRange
<1>10. \A e : e \in Range(list) <=> \E item \in Range(items) : e \in Range(Resolve(item))
  <2>1. \A item \in Range(items) : \E n \in DOMAIN items : items[n] = item
    BY DEF Range
  <2> QED
    BY <1>5, <1>8, <1>9, <2>1
<1>0. \E req : Asks(req)
  <2>1. Asks([type |-> "b", access |-> {}])
    BY DEF Asks, DevTypes
  <2> QED
    BY <2>1
<1>11. \A e \in Range(list) : e.type \in DevTypes /\ AccessIsValid(e.access)
  BY <1>0, <1>10, ItemFits DEF items
<1>12. ASSUME NEW req, Asks(req)
       PROVE  (\E e \in Range(list) : Fits(e, req)) <=> \E item \in Range(items) : Grants(item, req)
  <2>1. \A item \in Range(items) : (\E e \in Range(Resolve(item)) : Fits(e, req)) <=> Grants(item, req)
    BY <1>12, ItemFits DEF items
  <2> QED
    BY <1>10, <2>1
<1> QED
  BY <1>1, <1>2, <1>11, <1>12 DEF items, list, E

-----------------------------------------------------------------------------
(* The list of devices that arrives is the one that was sent.               *)

\* What stands behind others that have other keys.
LEMMA BehindOthers ==
  ASSUME NEW S, NEW q \in Seq(S), NEW b \in Seq(S), UniqueKeys(b), NEW n \in 1..Len(b),
         \A m \in 1..Len(q) : q[m].key # b[n].key
  PROVE  /\ KvGet(q \o b, b[n].key) = b[n].val
         /\ \A type : KvHas(q \o b, b[n].key, type) <=> b[n].type = type
<1> DEFINE key == b[n].key
           sent == q \o b
           at == KvFind(sent, key)
<1>1. /\ sent \in Seq(S) /\ Len(sent) = Len(q) + Len(b) /\ Len(q) \in Nat /\ Len(b) \in Nat
      /\ \A j \in 1..(Len(q) + Len(b)) : sent[j] = IF j <= Len(q) THEN q[j] ELSE b[j - Len(q)]
  BY ConcatProperties
<1>2. DOMAIN b = 1..Len(b)
  OBVIOUS
<1> HIDE DEF sent, key
<1>3. DOMAIN sent = 1..Len(sent)
  BY <1>1
<1>4. Len(q) + n \in 1..Len(sent) /\ sent[Len(q) + n] = b[n]
  <2>1. Len(q) + n \in 1..(Len(q) + Len(b)) /\ ~(Len(q) + n <= Len(q)) /\ (Len(q) + n) - Len(q) = n
    BY <1>1
  <2> QED
    BY <1>1, <2>1
<1>5. key \in Keys(sent)
  BY <1>3, <1>4 DEF Keys, key
<1>6. at \in 1..Len(sent) /\ sent[at].key = key
  BY <1>1, <1>5, KvFindFirst
<1> HIDE DEF at
<1>7. ~(at <= Len(q))
  <2> SUFFICES ASSUME at <= Len(q) PROVE FALSE
    OBVIOUS
  <2>1. at \in 1..Len(q) /\ sent[at] = q[at]
    BY <1>1, <1>6
  <2> QED
    BY <1>6, <2>1 DEF key
<1>8. at - Len(q) \in 1..Len(b) /\ sent[at] = b[at - Len(q)]
  BY <1>1, <1>6, <1>7
<1>9. at - Len(q) = n
  BY <1>2, <1>6, <1>8 DEF UniqueKeys, key
<1>10. sent[at] = b[n]
  BY <1>8, <1>9
<1>11. KvGet(sent, key) = b[n].val
  BY <1>10 DEF KvGet, at
<1>12. \A type : KvHas(sent, key, type) <=> b[n].type = type
  BY <1>5, <1>10 DEF KvHas, at
<1> QED
  BY <1>11, <1>12 DEF sent, key

\* sscanf takes an entry apart as entry_encode printed it.
LEMMA ValueMeansEntry ==
  ASSUME NEW W, NEW t \in W, NEW x \in W, NEW y \in W, NEW access \in Seq(W), Len(access) \in 1..3
  PROVE  ValEntry(EntryVal(DeviceEntry(t, x, y, access))) = DeviceEntry(t, x, y, access)
<1> DEFINE e == DeviceEntry(t, x, y, access)
           pre == <<t, x, y>>
           val == pre \o access
           N == Len(access)
<1>1. EntryVal(e) = val
  BY DEF EntryVal, DeviceEntry
<1>2. pre \in Seq(W) /\ Len(pre) = 3 /\ pre[1] = t /\ pre[2] = x /\ pre[3] = y
  OBVIOUS
<1> HIDE DEF pre
<1>3. /\ val \in Seq(W) /\ Len(val) = 3 + N
      /\ \A n \in 1..(3 + N) : val[n] = IF n <= 3 THEN pre[n] ELSE access[n - 3]
  <2>1. /\ pre \o access \in Seq(W) /\ Len(pre \o access) = Len(pre) + Len(access)
        /\ \A n \in 1..(Len(pre) + Len(access)) :
             (pre \o access)[n] = IF n <= Len(pre) THEN pre[n] ELSE access[n - Len(pre)]
    BY <1>2, ConcatProperties
  <2> QED
    BY <1>2, <2>1
<1> HIDE DEF val
<1>4. N \in 1..3 /\ N \in Nat /\ DOMAIN access = 1..N
  OBVIOUS
<1> HIDE DEF N
<1>5. val[1] = t /\ val[2] = x /\ val[3] = y
  <2>1. 1 \in 1..(3 + N) /\ 2 \in 1..(3 + N) /\ 3 \in 1..(3 + N) /\ 1 <= 3 /\ 2 <= 3 /\ 3 <= 3
    BY <1>4
  <2> QED
    BY <1>2, <1>3, <2>1
<1>6. Min({6, Len(val)}) = 3 + N
  <2>1. 3 + N \in {6, Len(val)} /\ \A k \in {6, Len(val)} : 3 + N <= k
    BY <1>3, <1>4
  <2>2. \A k \in {6, Len(val)} : (\A j \in {6, Len(val)} : k <= j) => k = 3 + N
    BY <1>3, <1>4
  <2>3. Min({6, Len(val)}) = CHOOSE k \in {6, Len(val)} : \A j \in {6, Len(val)} : k <= j
    BY DEF Min
  <2> QED
    BY <2>1, <2>2, <2>3
<1>7. ValAccess(val) = access
  <2> DEFINE sub == SubSeq(val, 4, 3 + N)
  <2>1. \A n \in 4..(3 + N) : val[n] \in W
    BY <1>3
  <2>2. 4 \in Int /\ 3 + N \in Int /\ 4 <= (3 + N) + 1 /\ (3 + N) - 4 + 1 = N
    BY <1>4
  <2>3. /\ sub \in Seq(W) /\ Len(sub) = N
        /\ \A n \in 1..N : sub[n] = val[4 + n - 1]
    BY <1>4, <2>1, <2>2, SubSeqProperties
  <2>4. \A n \in 1..N : /\ 4 + n - 1 \in 1..(3 + N) /\ ~(4 + n - 1 <= 3)
                        /\ (4 + n - 1) - 3 = n
    BY <1>4
  <2> HIDE DEF sub
  <2>5. \A n \in 1..N : sub[n] = access[n]
    BY <1>3, <2>3, <2>4
  <2>6. sub = access
    BY <1>4, <2>3, <2>5 DEF N
  <2> QED
    BY <1>6, <2>6 DEF ValAccess, sub
<1> QED
  BY <1>1, <1>5, <1>7 DEF ValEntry

LEMMA DevicesArrive ==
  ASSUME NEW a \in Argvs, NEW o \in Options \cup HelperOptions, OptionsAreValid(o)
  PROVE  DeviceDecode(ExecSent(a, o)) = DeviceAllow(o)
<1> DEFINE sent == ExecSent(a, o)
           list == DeviceAllow(o)
           E == ExecEntries(a, o)
           N == Len(list)
           dev == "device."
<1>1. PICK q \in Seq(E), b \in Seq(E) :
        /\ sent = q \o b /\ DevicesIn(b, list)
        /\ \A n \in 1..Len(q) : q[n].key[1] # dev
  BY ExecSentIs
<1>2. CountKey[1] = dev /\ \A n : DevKey(n)[1] = dev
  BY DEF CountKey, DevKey
<1> HIDE DEF sent, E, dev
<1>3. CASE list = AllowAll
  <2>1. b = <<>>
    BY <1>1, <1>3 DEF DevicesIn
  <2>2. sent = q
    BY <1>1, <2>1, ConcatEmptySeq
  <2>3. \A n \in 1..Len(q) : q[n].key # CountKey
    BY <1>1, <1>2
  <2>4. CountKey \notin Keys(sent)
    BY <2>2, <2>3, NotAmongKeys
  <2> QED
    BY <1>3, <2>4 DEF DeviceDecode, HasCount, KvHas, sent
<1>4. CASE list # AllowAll
  <2>1. list \in Seq(DeviceEntries(o)) /\ 0..N \subseteq DOMAIN Numerals
    BY <1>4, DeviceList
  <2>2. N \in Nat /\ DOMAIN list = 1..N
    BY <2>1
  <2>3. /\ Len(b) = N + 1 /\ UniqueKeys(b) /\ b[1] = Entry(CountKey, "i", <<Num(N)>>)
        /\ \A n \in 1..N : b[1 + n] = Entry(DevKey(n - 1), "s", EntryVal(list[n]))
    BY <1>1, <1>4 DEF DevicesIn
  <2>4. \A e \in Range(list) : AccessIsValid(e.access)
    <3>1. ~Uncontained(o)
      BY <1>4 DEF DeviceAllow
    <3> QED
      BY <3>1, ListFits
  <2> HIDE DEF list, N
  <2>5. ASSUME NEW n \in 1..(N + 1), NEW key, NEW type, NEW val, b[n] = Entry(key, type, val),
               key[1] = dev
        PROVE  KvGet(sent, key) = val /\ KvHas(sent, key, type)
    <3>1. b[n].key = key /\ b[n].type = type /\ b[n].val = val
      BY <2>5 DEF Entry
    <3>2. \A m \in 1..Len(q) : q[m].key # b[n].key
      BY <1>1, <2>5, <3>1
    <3>3. n \in 1..Len(b)
      BY <2>3
    <3>4. q \in Seq(E) /\ b \in Seq(E) /\ UniqueKeys(b)
      BY <2>3
    <3>5. KvGet(q \o b, b[n].key) = b[n].val
      BY <3>2, <3>3, <3>4, BehindOthers
    <3>6. \A x : KvHas(q \o b, b[n].key, x) <=> b[n].type = x
      BY <3>2, <3>3, <3>4, BehindOthers
    <3> QED
      BY <1>1, <3>1, <3>5, <3>6
  <2>6. KvGet(sent, CountKey) = <<Num(N)>> /\ KvHas(sent, CountKey, "i")
    <3>1. 1 \in 1..(N + 1)
      BY <2>2
    <3> QED
      BY <1>2, <2>3, <2>5, <3>1
  <2>7. \A n \in 1..N : KvGet(sent, DevKey(n - 1)) = EntryVal(list[n])
    <3> SUFFICES ASSUME NEW n \in 1..N PROVE KvGet(sent, DevKey(n - 1)) = EntryVal(list[n])
      OBVIOUS
    <3>1. 1 + n \in 1..(N + 1)
      BY <2>2
    <3> QED
      BY <1>2, <2>3, <2>5, <3>1
  <2>8. N \in DOMAIN Numerals
    <3>1. N \in 0..N
      BY <2>2
    <3> QED
      BY <2>1, <3>1
  <2>9. HasCount(sent) /\ DeviceCount(sent) = N
    <3>1. HasCount(sent)
      BY <2>6, <2>8 DEF HasCount
    <3>2. \A n \in DOMAIN Numerals : <<Num(N)>> = <<Num(n)>> => n = N
      BY <2>8, DeviceAssumption DEF Num
    <3>3. DeviceCount(sent) = CHOOSE n \in DOMAIN Numerals : <<Num(N)>> = <<Num(n)>>
      BY <2>6 DEF DeviceCount
    <3>4. DeviceCount(sent) \in DOMAIN Numerals /\ <<Num(N)>> = <<Num(DeviceCount(sent))>>
      BY <2>8, <3>3
    <3> QED
      BY <3>1, <3>2, <3>4
  <2>10. ASSUME NEW n \in 1..N PROVE ValEntry(EntryVal(list[n])) = list[n]
    <3> DEFINE e == list[n]
               W == DeviceWords(o) \cup Letters
    <3>1. e \in DeviceEntries(o)
      BY <2>1, <2>2
    <3>2. e \in Range(list)
      BY <2>2 DEF Range
    <3>3. Len(e.access) \in 1..3
      BY <2>4, <3>2 DEF AccessIsValid
    <3> HIDE DEF e
    <3>4. /\ e = [type |-> e.type, major |-> e.major, minor |-> e.minor, access |-> e.access]
          /\ e.type \in DeviceWords(o) /\ e.major \in DeviceWords(o) /\ e.minor \in DeviceWords(o)
          /\ e.access \in Seq(Letters)
      BY <3>1 DEF DeviceEntries
    <3>5. e = DeviceEntry(e.type, e.major, e.minor, e.access)
      BY <3>4 DEF DeviceEntry
    <3>6. e.type \in W /\ e.major \in W /\ e.minor \in W
      BY <3>4
    <3>7. e.access \in Seq(W)
      BY <3>4, SeqMonotonic
    <3> HIDE DEF W
    <3>8. ValEntry(EntryVal(e)) = e
      BY <3>3, <3>5, <3>6, <3>7, ValueMeansEntry
    <3> QED
      BY <3>8 DEF e
  <2>11. DeviceDecode(sent) = [n \in 1..N |-> ValEntry(KvGet(sent, DevKey(n - 1)))]
    BY <2>9 DEF DeviceDecode, EntriesRead
  <2>12. [n \in 1..N |-> ValEntry(KvGet(sent, DevKey(n - 1)))] = [n \in 1..N |-> list[n]]
    BY <2>7, <2>10
  <2>13. list = [n \in 1..N |-> list[n]]
    BY <2>1, <2>2 DEF N
  <2> QED
    BY <2>11, <2>12, <2>13 DEF sent, list
<1> QED
  BY <1>3, <1>4

-----------------------------------------------------------------------------
(* The verdicts of the program are those of the policy.                     *)

DeviceInv ==
  pc = "exec" /\ sender = "child" =>
    /\ options \in Options \cup HelperOptions /\ OptionsAreValid(options)
    /\ da = DeviceAllow(options)

LEMMA DeviceStarts ==
  ASSUME InputInv, CarryInv, ExecStarts
  PROVE  DeviceInv'
<1>1. /\ pc = "received" /\ pc' = "exec" /\ UNCHANGED request /\ da' = DeviceDecode(kv)
      /\ KvGet(kv, <<"cmd">>) = <<"exec">>
      /\ sender = "child" => AsSent(kv)
  BY DEF ExecStarts, ExecAsked, Names, CarryInv, input
<1>2. UNCHANGED <<sender, options>>
  BY <1>1 DEF request
<1>3. ASSUME sender = "child"
      PROVE  /\ options \in Options \cup HelperOptions /\ OptionsAreValid(options)
             /\ da' = DeviceAllow(options)
  <2>1. <<"run">> # <<"exec">> /\ pc \in Taken
    BY <1>1 DEF Taken
  <2>2. argv # <<>>
    BY <1>1, <1>3, <2>1, SentIs
  <2>3. /\ kv = ExecSent(argv, options) /\ argv \in Argvs
        /\ options \in Options \cup HelperOptions /\ OptionsAreValid(options)
    BY <1>1, <1>3, <2>1, <2>2 DEF AsSent, InputInv
  <2>4. DeviceDecode(ExecSent(argv, options)) = DeviceAllow(options)
    BY <2>3, DevicesArrive
  <2> QED
    BY <1>1, <2>3, <2>4
<1> QED
  BY <1>1, <1>2, <1>3 DEF DeviceInv

LEMMA NextDeviceInv == InputInv /\ CarryInv /\ DeviceInv /\ [Next]_vars => DeviceInv'
<1> SUFFICES ASSUME InputInv, CarryInv, DeviceInv, [Next]_vars PROVE DeviceInv'
  OBVIOUS
<1>1. CASE ExecStarts
  BY <1>1, DeviceStarts
<1>2. CASE ~ExecStarts
  <2>1. pc' # "exec" \/ UNCHANGED <<pc, request, da>>
    BY <1>2 DEF Next, PutCommand, PutEnv, PutEnvEnds, Listen, Popen, PopenFails, PopenEnds,
         HearInput, HearEnd, CheckInput, CheckInputFails, WaitForHelper, Refuse, HelperStep,
         HelperStops, PutExec, Write, Read, ReadFails, GetRunEnv, SplitEnv, SplitEnvEnds, FilterEnv,
         FilterEnvEnds, PutOwn, RunStarts, ReceivedFails, Blocked, Over, vars, input, data
  <2> QED
    BY <2>1 DEF DeviceInv, request
<1> QED
  BY <1>1, <1>2

LEMMA PolicyHolds == DeviceInv => VerdictIsPolicy
<1> SUFFICES ASSUME DeviceInv, pc = "exec", sender = "child", NEW req \in Requests
             PROVE  (da = AllowAll \/ Allows(Program(da), req)) <=> Permitted(req)
  BY DEF VerdictIsPolicy
<1>1. /\ options \in Options \cup HelperOptions /\ OptionsAreValid(options)
      /\ da = DeviceAllow(options)
  BY DEF DeviceInv
<1>2. Asks(req)
  BY DEF Requests, Asks, DevTypes, Letters
<1>3. CASE Uncontained(options)
  <2>1. da = AllowAll
    BY <1>1, <1>3 DEF DeviceAllow
  <2> QED
    BY <1>3, <2>1 DEF Permitted, Uncontained
<1>4. CASE ~Uncontained(options)
  <2>1. /\ da \in Seq(DeviceEntries(options)) /\ da # AllowAll
        /\ \A e \in Range(da) : e.type \in DevTypes /\ AccessIsValid(e.access)
        /\ (\E e \in Range(da) : Fits(e, req)) <=> \E item \in Range(Items(options)) : Grants(item, req)
    BY <1>1, <1>2, <1>4, ListFits
  <2>2. Sequence(da) /\ DOMAIN da = 1..Len(da)
    BY <2>1, SeqOfRange DEF Sequence
  <2>3. ASSUME NEW n \in 1..Len(da)
        PROVE  da[n].type \in DevTypes /\ Range(da[n].access) \subseteq Letters
    <3>1. da[n] \in Range(da)
      BY <2>2 DEF Range
    <3>2. AccessIsValid(da[n].access) /\ da[n].type \in DevTypes
      BY <2>1, <3>1
    <3> QED
      BY <3>2 DEF AccessIsValid, Range, Letters
  <2>4. Allows(Program(da), req) <=> \E e \in Range(da) : Fits(e, req)
    BY <1>2, <2>2, <2>3, ProgramAllows
  <2>5. (\E item \in Range(Items(options)) : Grants(item, req)) <=> Permitted(req)
    BY <1>1, <1>4, ItemsOf DEF Permitted, Uncontained
  <2> QED
    BY <2>1, <2>4, <2>5
<1> QED
  BY <1>3, <1>4

\* Of any request of exec that its child puts together, the program attached to the
\* job's cgroup allows what the options grant and nothing else, after the list of devices
\* was resolved, numbered, encoded, decoded and compiled with its jumps (device.c,
\* cgroup_device.c:123-178).
THEOREM VerdictsFollowPolicy == Spec => []VerdictIsPolicy
<1>1. Init => DeviceInv
  BY DEF Init, DeviceInv
<1>2. DeviceInv /\ InputInv /\ CarryInv /\ [Next]_vars => DeviceInv'
  BY NextDeviceInv
<1> QED
  BY <1>1, <1>2, RequestCarried, PolicyHolds, PTL DEF Spec
=============================================================================
