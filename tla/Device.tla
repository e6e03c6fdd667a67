------------------------------- MODULE Device -------------------------------
(***************************************************************************)
(* Device containment of a job: what DevicePolicy and DeviceAllow become   *)
(* (src/imp/exec/device.c), how the list crosses the pipe in a kv, and the *)
(* BPF program made of it (src/imp/cgroup_device.c), with a machine to run *)
(* it.  Device numbers are symbols: they are only compared.                *)
(***************************************************************************)
EXTENDS Kv, FiniteSetsExt

CONSTANTS Nodes,        \* the special files: path -> its entry without access
          ProcDevices,  \* the lines of /proc/devices: [type, major, name]
          Standard,     \* standard_devices: what auto and closed add
          MaxEntries,   \* DEVICE_ALLOW_MAX_ENTRIES
          Numerals,     \* decimal numerals: number -> symbol, as far as they are needed
          AllowAll,     \* the NULL list: no containment
          Malformed     \* JSON that is not what json_unpack asks for

ASSUME DeviceAssumption ==
  /\ MaxEntries \in Nat
  /\ DOMAIN Numerals \subseteq Nat
  /\ \A m, n \in DOMAIN Numerals : Numerals[m] = Numerals[n] => m = n
  /\ "count" \notin Range(Numerals)

AnyMinor == "-1"

-----------------------------------------------------------------------------
AccessIsValid(access) ==
  Len(access) \in 1..3 /\ \A i \in DOMAIN access : access[i] \in {"r", "w", "m"}

DeviceEntry(type, major, minor, access) ==
  [type |-> type, major |-> major, minor |-> minor, access |-> access]

\* device_class_append: one entry for each line of the section with the name.
OfClass(spec, access) ==
  FlattenSeq([n \in DOMAIN ProcDevices |->
                LET l == ProcDevices[n]
                IN IF l.type = spec.type /\ l.name = spec.name
                   THEN <<DeviceEntry(spec.type, l.major, AnyMinor, access)>>
                   ELSE <<>>])

\* device_path_append: what is no special file is ignored.
OfPath(spec, access) ==
  IF spec.path \in DOMAIN Nodes
  THEN LET n == Nodes[spec.path] IN <<DeviceEntry(n.type, n.major, n.minor, access)>>
  ELSE <<>>

\* device_append: an invalid access or specifier is warned of and adds nothing.
Resolve(item) ==
  IF ~AccessIsValid(item.access) THEN <<>>
  ELSE CASE item.spec.kind = "class" -> OfClass(item.spec, item.access)
         [] item.spec.kind = "path"  -> OfPath(item.spec, item.access)
         [] OTHER                    -> <<>>

\* device_parse_options and the json_unpack of the items.
OptionsAreValid(options) ==
  /\ options.policy \in {"auto", "closed", "strict"}
  /\ options.allow # Malformed
  /\ \A i \in DOMAIN options.allow : options.allow[i] # Malformed

Uncontained(options) == options.policy = "auto" /\ options.allow = <<>>

\* The items of a policy, in the order device_allow_from_options appends them.
Items(options) ==
  (IF options.policy = "strict" THEN <<>> ELSE Standard) \o options.allow

\* device_allow_from_options of valid options.  The absent list is empty too.
DeviceAllow(options) ==
  IF Uncontained(options) THEN AllowAll
  ELSE FlattenSeq([i \in DOMAIN Items(options) |-> Resolve(Items(options)[i])])

-----------------------------------------------------------------------------
Num(n) == Numerals[n]

DevKey(n) == <<"device.", Num(n)>>

CountKey == <<"device.", "count">>

\* entry_encode: c:major:minor:access.
EntryVal(e) == <<e.type, e.major, e.minor>> \o e.access

\* device_allow_encode; there is no limit here.
DeviceEncode(kv, da) ==
  IF da = AllowAll THEN kv
  ELSE PutAll(KvPut(kv, CountKey, "i", <<Num(Len(da))>>),
              [i \in DOMAIN da |-> Entry(DevKey(i - 1), "s", EntryVal(da[i]))])

\* entry_decode's sscanf takes at most three letters of access.
ValAccess(val) == SubSeq(val, 4, Min({6, Len(val)}))

ValIsEntry(val) ==
  Len(val) > 3 /\ val[1] \in {"c", "b"} /\ AccessIsValid(ValAccess(val))

ValEntry(val) == DeviceEntry(val[1], val[2], val[3], ValAccess(val))

HasCount(kv) ==
  /\ KvHas(kv, CountKey, "i")
  /\ \E n \in DOMAIN Numerals : KvGet(kv, CountKey) = <<Num(n)>>

DeviceCount(kv) == CHOOSE n \in DOMAIN Numerals : KvGet(kv, CountKey) = <<Num(n)>>

EntriesRead(kv) == 1..DeviceCount(kv)

\* device_allow_decode returns -1: too many entries, or one missing or invalid.
DecodeFails(kv) ==
  /\ HasCount(kv)
  /\ \/ DeviceCount(kv) > MaxEntries
     \/ \E i \in EntriesRead(kv) : ~KvHas(kv, DevKey(i - 1), "s")
                                   \/ ~ValIsEntry(KvGet(kv, DevKey(i - 1)))

\* What else it sets *dap to: no count that can be read means no containment.
DeviceDecode(kv) ==
  IF HasCount(kv) THEN [i \in EntriesRead(kv) |-> ValEntry(KvGet(kv, DevKey(i - 1)))]
  ELSE AllowAll

-----------------------------------------------------------------------------
\* A word of the BPF machine is the set of its bits that are 1.
\* BPF_DEVCG_ACC_* (1, 2, 4) and BPF_DEVCG_DEV_* (1, 2), by their bit.
AccBit == [m |-> 0, r |-> 1, w |-> 2]

DevBit == [b |-> 0, c |-> 1]

AccessToMask(access) == {AccBit[a] : a \in Range(access)}

Word0 == {}
Word1 == {0}

Ldx(dst, field) == [op |-> "ldx", dst |-> dst, arg |-> field]
Mov(dst, src)   == [op |-> "mov", dst |-> dst, arg |-> src]
Rsh(dst, imm)   == [op |-> "rsh", dst |-> dst, arg |-> imm]
And(dst, imm)   == [op |-> "and", dst |-> dst, arg |-> imm]
Jne(dst, imm, off) == [op |-> "jne", dst |-> dst, arg |-> imm, off |-> off]
Set(dst, imm)   == [op |-> "set", dst |-> dst, arg |-> imm]
Exit            == [op |-> "exit"]

\* entry_insn_count
InsnCount(e) == IF e.minor = AnyMinor THEN 10 ELSE 11

\* A bug: the jump past an entry whose device type differs falls one short.
BugTypeJump(n) == n - 4

TypeJump(n) == n - 3

DenyMask(access) == 0..2 \ AccessToMask(access)

\* The instructions for one entry; a jump off an entry lands on the next one.
EntryInsns(e) ==
  LET n == InsnCount(e)
  IN <<Mov(5, 4), And(5, 0..15), Jne(5, {DevBit[e.type]}, TypeJump(n)),
       Jne(2, e.major, n - 4)>>
     \o (IF e.minor = AnyMinor THEN <<>> ELSE <<Jne(3, e.minor, n - 5)>>)
     \o <<Mov(5, 4), Rsh(5, 16), And(5, DenyMask(e.access)), Jne(5, Word0, 2),
          Set(0, Word1), Exit>>

\* bpf_prog_build
Program(da) ==
  <<Ldx(2, "major"), Ldx(3, "minor"), Ldx(4, "access_type")>>
    \o FlattenSeq([i \in DOMAIN da |-> EntryInsns(da[i])])
    \o <<Set(0, Word0), Exit>>

\* The kernel's context of an access (struct bpf_cgroup_dev_ctx).
Context(req) ==
  [major |-> req.major, minor |-> req.minor,
   access_type |-> {16 + AccBit[a] : a \in req.access} \cup {DevBit[req.type]}]

ShiftedRight(word, n) == {b - n : b \in {c \in word : c >= n}}

\* One step of the machine on [pc, reg]; pc 0 is the end.
Execute(insn, m, ctx) ==
  LET reg(v) == [m.reg EXCEPT ![insn.dst] = v]
      to(off, r) == [pc |-> m.pc + 1 + off, reg |-> r]
  IN CASE insn.op = "ldx"  -> to(0, reg(ctx[insn.arg]))
       [] insn.op = "mov"  -> to(0, reg(m.reg[insn.arg]))
       [] insn.op = "rsh"  -> to(0, reg(ShiftedRight(m.reg[insn.dst], insn.arg)))
       [] insn.op = "and"  -> to(0, reg(m.reg[insn.dst] \cap insn.arg))
       [] insn.op = "set"  -> to(0, reg(insn.arg))
       [] insn.op = "jne"  -> to(IF m.reg[insn.dst] # insn.arg THEN insn.off ELSE 0, m.reg)
       [] insn.op = "exit" -> [pc |-> 0, reg |-> m.reg]

Start == [pc |-> 1, reg |-> [r \in 0..5 |-> Word0]]

\* Jumps only go forward, so a program takes at most as many steps as it is long.
Allows(prog, req) ==
  LET after[n \in 0..Len(prog)] ==
        IF n = 0 THEN Start
        ELSE LET m == after[n - 1]
             IN IF m.pc = 0 THEN m ELSE Execute(prog[m.pc], m, Context(req))
  IN after[Len(prog)].reg[0] = Word1
=============================================================================
