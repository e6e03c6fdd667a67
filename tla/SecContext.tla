------------------------------ MODULE SecContext ------------------------------
(***************************************************************************)
(* The life of a security context: flux_security_create to                 *)
(* flux_security_destroy, its configuration and its aux list               *)
(* (src/lib/context.c, src/libutil/aux.c), and what flux_sign_wrap and     *)
(* flux_sign_unwrap keep in it: the state of the signing library and of    *)
(* the mechanisms, the pointers into the configuration, and the buffers    *)
(* that are handed to the caller (src/lib/sign.c, sign_munge.c,            *)
(* sign_curve.c).  Whether a signature verifies is the subject of Sign:    *)
(* here a mechanism accepts or refuses freely.                             *)
(*                                                                         *)
(* One program calls the library, from one thread.  A call to wrap or      *)
(* unwrap is a sequence of steps, each of which may end it with an error.  *)
(* A step that reads memory that has been freed may find anything there,   *)
(* or end the program, as freeing it again does.  Memory does not run out. *)
(*                                                                         *)
(* A Bug definition is the one that follows it with a mistake in it.       *)
(***************************************************************************)
EXTENDS Cf

CONSTANTS Patterns,    \* what glob(3) finds for the patterns given to configure
          ImpPatterns, \* the same for the configuration of security_set_config
          UserKeys,    \* names under which the program keeps data of its own
          UserData,    \* that data
          MaxConfigs,  \* how many configurations are put in force
          MaxCalls,    \* how often wrap and unwrap are called
          MaxSize      \* the largest payload

NoKey == ""
Mechs == {"none", "munge", "curve"}
LibData == {"sign", "munge", "curve"}
Cached == {"cert", "ca"}
NoCall == [op |-> "none", mech |-> "none", check |-> FALSE, verify |-> FALSE, size |-> 0]
NoBuf == [at |-> 0, size |-> 0, holds |-> 0]

\* An item that says it is a boolean is one.
IsTable(t) == \A k \in DOMAIN t : t[k].type = "bool" => t[k] \in [type: {"bool"}, v: BOOLEAN]

ASSUME FilesAssumption ==
  \A found \in Patterns \cup ImpPatterns :
    /\ Len(found.files) \in Nat
    /\ \A n \in 1..Len(found.files) : IsTable(found.files[n].table)

ASSUME ContextAssumption ==
  /\ LibData \cap UserKeys = {} /\ NoKey \notin UserKeys
  /\ UserData \cap (LibData \cup Cached) = {}
  /\ MaxConfigs \in Nat /\ MaxCalls \in Nat /\ MaxSize \in Nat

VARIABLES phase,     \* of the context: none, live, ending, gone
          flags,     \* ctx->flags
          config,    \* ctx->config: which configuration, 0 for none
          tree,      \* the table it holds
          loaded,    \* history: the table it started from and the files read
          made,      \* the configurations put in force so far
          configs,   \* the configurations that are allocated
          aux,       \* ctx->aux: names and data, the head first
          heap,      \* the data that is allocated
          signCf,    \* sign->config: the configuration it points into
          curveCf,   \* sc->curve_config: likewise
          buf,       \* sign->wrapbuf and unwrapbuf
          given,     \* history: what the caller was told is there, at = 0 for nothing
          pc, call,  \* where a call to wrap or unwrap is, and its arguments
          calls,     \* how many there were
          fault      \* none, or what of memory ended the program

confVars == <<flags, config, tree, loaded, made, configs>>
auxVars == <<aux, heap>>
signVars == <<signCf, curveCf, buf>>
callVars == <<pc, call, calls, given>>
vars == <<phase, confVars, auxVars, signVars, callVars, fault>>

Init ==
  /\ phase = "none" /\ flags = "none"
  /\ config = 0 /\ tree = EmptyTable /\ made = 0 /\ configs = {}
  /\ loaded = [base |-> EmptyTable, files |-> <<>>]
  /\ aux = <<>> /\ heap = {}
  /\ signCf = 0 /\ curveCf = 0
  /\ buf = [wrap |-> NoBuf, unwrap |-> NoBuf]
  /\ given = [wrap |-> NoBuf, unwrap |-> NoBuf]
  /\ pc = "idle" /\ call = NoCall /\ calls = 0
  /\ fault = "none"

Ready == phase = "live" /\ pc = "idle" /\ fault = "none"

\* flux_security_create; valid_flags lets no two flags be set.
Create ==
  /\ phase = "none"
  /\ phase' = "live"
  /\ flags' \in {"none", "disable", "force"}
  /\ UNCHANGED <<config, tree, loaded, made, configs, auxVars, signVars, callVars, fault>>

-----------------------------------------------------------------------------
\* What flux_security_configure packs before it reads files.
FlagsTable ==
  CASE flags = "disable" -> [k \in {"disable-path-paranoia"} |-> True]
    [] flags = "force" -> [k \in {"enable-path-paranoia"} |-> True]
    [] OTHER -> EmptyTable

\* A table takes the place of ctx->config, which is destroyed.
Replace(base, found) ==
  LET new == UpdateGlob(base, found) IN
  /\ new.count > 0
  /\ config' = made + 1
  /\ made' = made + 1
  /\ configs' = (configs \ {config}) \cup {made + 1}
  /\ tree' = new.cf
  /\ loaded' = [base |-> base, files |-> found.files]
  /\ UNCHANGED <<phase, flags, auxVars, signVars, callVars, fault>>

\* flux_security_configure; when it fails its own table goes and nothing changes.
Configure ==
  /\ Ready /\ made < MaxConfigs
  /\ \E found \in Patterns : Replace(FlagsTable, found)

\* security_set_config takes a copy of what imp_conf_load has read.
SetConfig ==
  /\ Ready /\ made < MaxConfigs
  /\ \E found \in ImpPatterns : Replace(EmptyTable, found)

-----------------------------------------------------------------------------
Item(key, val) == [key |-> key, val |-> val]

Has(key) == \E i \in DOMAIN aux : aux[i].key = key

\* aux_item_insert
AuxInsert(list, item) ==
  [i \in 1..(Len(list) + 1) |-> IF i = 1 THEN item ELSE list[i - 1]]

\* A bug: the item that is destroyed stays in the list.
BugAuxDelete(list, key) == list

\* aux_item_delete takes the first item of that name; no name finds what has none.
AuxDelete(list, key) ==
  LET named == {i \in DOMAIN list : key # NoKey /\ list[i].key = key}
      first == CHOOSE i \in named : \A j \in named : i <= j
  IN IF named = {} THEN list
     ELSE [i \in 1..(Len(list) - 1) |-> IF i < first THEN list[i] ELSE list[i + 1]]

\* The data whose destructor aux_set(key) calls.
Dropped(key) == {aux[i].val : i \in {j \in DOMAIN aux : key # NoKey /\ aux[j].key = key}}

\* flux_security_aux_set of the program's own data, with a destructor.
AuxSet ==
  /\ Ready
  /\ \E key \in UserKeys \cup {NoKey}, val \in UserData \ heap :
       /\ aux' = AuxInsert(AuxDelete(aux, key), Item(key, val))
       /\ heap' = (heap \ Dropped(key)) \cup {val}
  /\ UNCHANGED <<phase, confVars, signVars, callVars, fault>>

\* The same of NULL.
AuxClear ==
  /\ Ready
  /\ \E key \in UserKeys :
       /\ Has(key)
       /\ aux' = AuxDelete(aux, key)
       /\ heap' = heap \ Dropped(key)
  /\ UNCHANGED <<phase, confVars, signVars, callVars, fault>>

-----------------------------------------------------------------------------
\* flux_sign_wrap_as begins; the string it returned last is no longer good.
Wrap ==
  /\ Ready /\ calls < MaxCalls
  /\ \E mech \in Mechs \cup {"default", "bogus"}, size \in 0..MaxSize :
       call' = [op |-> "wrap", mech |-> mech, check |-> FALSE, verify |-> TRUE, size |-> size]
  /\ pc' = "init"
  /\ calls' = calls + 1
  /\ given' = [given EXCEPT !.wrap = NoBuf]
  /\ UNCHANGED <<phase, confVars, auxVars, signVars, fault>>

\* flux_sign_unwrap, or flux_sign_unwrap_anymech, which does not check what is
\* allowed; mech is the one the header names.
Unwrap ==
  /\ Ready /\ calls < MaxCalls
  /\ \E mech \in Mechs \cup {"bogus"}, check, verify \in BOOLEAN, size \in 0..MaxSize :
       call' = [op |-> "unwrap", mech |-> mech, check |-> check, verify |-> verify, size |-> size]
  /\ pc' = "init"
  /\ calls' = calls + 1
  /\ given' = [given EXCEPT !.unwrap = NoBuf]
  /\ UNCHANGED <<phase, confVars, auxVars, signVars, fault>>

EndCall == pc' = "idle" /\ call' = NoCall

\* The configurations the next step of the call reads through a pointer it kept.
ConfigsRead ==
  CASE pc = "choose" /\ call.mech = "default" -> {signCf}
    [] pc = "allowed" -> {signCf}
    [] pc = "mech" /\ call.mech \in {"munge", "curve"} /\ ~Has(call.mech) -> {signCf}
    [] pc = "prep" /\ call.mech = "curve" /\ "cert" \notin heap -> {curveCf}
    [] pc = "verify" /\ call.mech = "curve" -> {curveCf}
    [] OTHER -> {}

\* The mechanism's own state, which signing and verifying use.
StateUsed ==
  IF \/ pc \in {"sign", "verify"} /\ call.mech # "none"
     \/ pc = "prep" /\ call.mech = "curve"
  THEN {call.mech} ELSE {}

Sound == ConfigsRead \subseteq configs /\ StateUsed \subseteq heap

\* What a step may read where value was stored: that, or anything once it is freed.
Read(value, anything) == IF Sound THEN {value} ELSE anything

\* Or the program ends there.
TouchFreed ==
  /\ fault = "none" /\ ~Sound
  /\ fault' = "use-after-free"
  /\ UNCHANGED <<phase, confVars, auxVars, signVars, callVars>>

At(step) == pc = step /\ fault = "none"

-----------------------------------------------------------------------------
SignOpts == {Option("max-ttl", "int64", TRUE), Option("default-type", "string", TRUE),
             Option("allowed-types", "array", TRUE)}

SignTable == GetIn(tree, "sign").v
AllowedTypes == AsArray(GetIn(SignTable, "allowed-types"))
DefaultType == AsString(GetIn(SignTable, "default-type"))

\* sign_create and validate_mech_array are content with the configuration.
SignConfigGood ==
  /\ config # 0
  /\ "sign" \in DOMAIN tree
  /\ CfCheck(GetIn(tree, "sign"), SignOpts, TRUE)
  /\ AsInt64(GetIn(SignTable, "max-ttl")) \in {-100} \cup (Nat \ {0})
  /\ AllowedTypes # <<>>
  /\ \A i \in DOMAIN AllowedTypes : AllowedTypes[i].type = "string" /\ AllowedTypes[i].v \in Mechs
  /\ DefaultType \in Mechs

Initialised == pc' = IF call.op = "wrap" THEN "choose" ELSE "header"

\* sign_init the first time; what sign_create has made is freed if it fails.
SignInit ==
  /\ At("init") /\ ~Has("sign")
  /\ IF SignConfigGood
     THEN /\ aux' = AuxInsert(AuxDelete(aux, "sign"), Item("sign", "sign"))
          /\ heap' = heap \cup {"sign"}
          /\ signCf' = config
          /\ Initialised /\ UNCHANGED call
     ELSE EndCall /\ UNCHANGED <<auxVars, signCf>>
  /\ UNCHANGED <<phase, confVars, curveCf, buf, calls, given, fault>>

\* sign_init finds what it has made before.
SignFound ==
  /\ At("init") /\ Has("sign")
  /\ Initialised
  /\ UNCHANGED <<phase, confVars, auxVars, signVars, call, calls, given, fault>>

\* flux_sign_wrap_as picks the mechanism.
ChooseMech ==
  /\ At("choose")
  /\ \E mech \in IF call.mech = "default" THEN Read(DefaultType, Mechs \cup {"bogus"}) ELSE {call.mech} :
       IF mech \in Mechs
       THEN pc' = "mech" /\ call' = [call EXCEPT !.mech = mech]
       ELSE EndCall
  /\ UNCHANGED <<phase, confVars, auxVars, signVars, calls, given, fault>>

\* sign_unwrap reads the header, which may be no header at all.
HeaderDecode ==
  /\ At("header")
  /\ \/ EndCall
     \/ /\ call.mech \in Mechs
        /\ pc' = IF call.check THEN "allowed" ELSE "payload"
        /\ UNCHANGED call
  /\ UNCHANGED <<phase, confVars, auxVars, signVars, calls, given, fault>>

Allowed(mech) == \E i \in DOMAIN AllowedTypes : AllowedTypes[i].v = mech

\* mech_allowed
MechAllowed ==
  /\ At("allowed")
  /\ \E allowed \in Read(Allowed(call.mech), BOOLEAN) :
       IF allowed THEN pc' = "payload" /\ UNCHANGED call ELSE EndCall
  /\ UNCHANGED <<phase, confVars, auxVars, signVars, calls, given, fault>>

\* grow_buf; memory that grows moves.
GrowBuf(b, need) == IF b.size < need THEN [at |-> b.at + 1, size |-> need, holds |-> b.holds] ELSE b

\* A bug: the payload is decoded into the buffer of flux_sign_wrap.
BugDecodeTo == "wrap"

\* Where sign_unwrap has the payload decoded to.
DecodeTo == "unwrap"

\* payload_decode_cpy; of a payload that is no base64 some may have been written.
PayloadDecode ==
  /\ At("payload")
  /\ IF call.size = 0 THEN UNCHANGED buf
     ELSE buf' = [buf EXCEPT ![DecodeTo] = [GrowBuf(@, call.size) EXCEPT !.holds = calls]]
  /\ \/ pc' = (IF call.verify THEN "mech" ELSE "accepted") /\ UNCHANGED call
     \/ call.size > 0 /\ EndCall
  /\ UNCHANGED <<phase, confVars, auxVars, signCf, curveCf, calls, given, fault>>

-----------------------------------------------------------------------------
MechDone == pc' = IF call.op = "wrap" THEN "prep" ELSE "verify"

\* The mechanism has no init, or finds what it has made before.
MechReady ==
  /\ At("mech") /\ (call.mech = "none" \/ Has(call.mech))
  /\ MechDone
  /\ UNCHANGED <<phase, confVars, auxVars, signVars, call, calls, given, fault>>

MungeOpts == {Option("socket-path", "string", FALSE)}
MungeTable == GetIn(SignTable, "munge")
MungeConfigGood == ~Present(MungeTable) \/ CfCheck(MungeTable, MungeOpts, FALSE)
MungeHasSocket == Present(MungeTable) /\ "socket-path" \in DOMAIN MungeTable.v

\* op_init of munge puts its state in the aux list, then looks at its
\* configuration; if that is bad the state is freed and stays in the list.
MungeInit ==
  /\ At("mech") /\ call.mech = "munge" /\ ~Has("munge")
  /\ aux' = AuxInsert(AuxDelete(aux, "munge"), Item("munge", "munge"))
  /\ \E good \in Read(MungeConfigGood, BOOLEAN), socket \in Read(MungeHasSocket, BOOLEAN) :
       \/ good /\ heap' = heap \cup {"munge"} /\ MechDone /\ UNCHANGED call
       \/ (~good \/ socket) /\ EndCall /\ UNCHANGED heap
  /\ UNCHANGED <<phase, confVars, signVars, calls, given, fault>>

CurveOpts == {Option("require-ca", "bool", TRUE), Option("cert-path", "string", FALSE)}
CurveTable == GetIn(SignTable, "curve")
CurveConfigGood == Present(CurveTable) /\ CfCheck(CurveTable, CurveOpts, FALSE)

\* op_init of curve looks at its configuration first.
CurveInit ==
  /\ At("mech") /\ call.mech = "curve" /\ ~Has("curve")
  /\ \E good \in Read(CurveConfigGood, BOOLEAN) :
       IF good
       THEN /\ aux' = AuxInsert(AuxDelete(aux, "curve"), Item("curve", "curve"))
            /\ heap' = heap \cup {"curve"}
            /\ curveCf' = signCf
            /\ MechDone /\ UNCHANGED call
       ELSE EndCall /\ UNCHANGED <<auxVars, curveCf>>
  /\ UNCHANGED <<phase, confVars, signCf, buf, calls, given, fault>>

-----------------------------------------------------------------------------
\* The mechanism's prep: curve loads its certificate on first use, if it is there.
Prep ==
  /\ At("prep")
  /\ \/ /\ heap' = heap \cup (IF call.mech = "curve" THEN {"cert"} ELSE {})
        /\ pc' = "encode" /\ UNCHANGED call
     \/ call.mech = "curve" /\ "cert" \notin heap /\ EndCall /\ UNCHANGED heap
  /\ UNCHANGED <<phase, confVars, aux, signVars, calls, given, fault>>

\* header_encode_cpy and payload_encode_cat.
Encode ==
  /\ At("encode")
  /\ buf' = [buf EXCEPT !.wrap = [GrowBuf(@, call.size + 1) EXCEPT !.holds = calls]]
  /\ pc' = "sign"
  /\ UNCHANGED <<phase, confVars, auxVars, signCf, curveCf, call, calls, given, fault>>

\* The mechanism signs, signature_cat appends, and the caller is given the buffer;
\* munge and curve may fail.
MechSign ==
  /\ At("sign")
  /\ \/ LET b == GrowBuf(buf.wrap, call.size + 2)
        IN buf' = [buf EXCEPT !.wrap = b] /\ given' = [given EXCEPT !.wrap = b]
     \/ call.mech # "none" /\ UNCHANGED <<buf, given>>
  /\ EndCall
  /\ UNCHANGED <<phase, confVars, auxVars, signCf, curveCf, calls, fault>>

RequireCa == AsBool(GetIn(CurveTable.v, "require-ca"))

\* The mechanism verifies, and may find the header or the signature wanting before it
\* looks at its configuration; curve loads the CA on first use, from the configuration
\* then in force.
MechVerify ==
  /\ At("verify")
  /\ \/ EndCall /\ UNCHANGED heap
     \/ \E ca \in IF call.mech = "curve" THEN Read(RequireCa, BOOLEAN) ELSE {FALSE} :
          IF ca
          THEN /\ "ca" \in heap \/ "ca" \in DOMAIN tree
               /\ heap' = heap \cup {"ca"}
               /\ \/ pc' = "accepted" /\ UNCHANGED call
                  \/ EndCall
          ELSE pc' = "accepted" /\ UNCHANGED <<call, heap>>
  /\ UNCHANGED <<phase, confVars, aux, signVars, calls, given, fault>>

\* sign_unwrap returns the payload; none if it is empty.
Accept ==
  /\ At("accepted")
  /\ EndCall
  /\ given' = [given EXCEPT !.unwrap = IF call.size > 0 THEN buf[DecodeTo] ELSE NoBuf]
  /\ UNCHANGED <<phase, confVars, auxVars, signVars, calls, fault>>

-----------------------------------------------------------------------------
\* flux_security_destroy begins.
Destroy ==
  /\ Ready
  /\ phase' = "ending"
  /\ given' = [wrap |-> NoBuf, unwrap |-> NoBuf]
  /\ UNCHANGED <<confVars, auxVars, signVars, pc, call, calls, fault>>

\* A bug: the certificate is forgotten.
BugOwned(val) == IF val = "curve" THEN {"curve", "ca"} ELSE {val}

\* What the destructor of an item's data frees: sc_destroy takes the certificate
\* and the CA along.
Owned(val) == IF val = "curve" THEN {"curve", "cert", "ca"} ELSE {val}

\* aux_destroy destroys the items from the head on.
DestroyItem ==
  /\ phase = "ending" /\ fault = "none" /\ aux # <<>>
  /\ IF Head(aux).val \in heap
     THEN heap' = heap \ Owned(Head(aux).val) /\ aux' = Tail(aux) /\ UNCHANGED fault
     ELSE fault' = "double-free" /\ UNCHANGED auxVars
  /\ UNCHANGED <<phase, confVars, signVars, callVars>>

\* The configuration goes, then the context.
DestroyEnd ==
  /\ phase = "ending" /\ fault = "none" /\ aux = <<>>
  /\ phase' = "gone"
  /\ configs' = configs \ {config}
  /\ UNCHANGED <<flags, config, tree, loaded, made, auxVars, signVars, callVars, fault>>

Next ==
  \/ Create \/ Configure \/ SetConfig \/ AuxSet \/ AuxClear \/ Wrap \/ Unwrap
  \/ SignInit \/ SignFound \/ ChooseMech \/ HeaderDecode \/ MechAllowed \/ PayloadDecode
  \/ MechReady \/ MungeInit \/ CurveInit \/ Prep \/ Encode \/ MechSign
  \/ MechVerify \/ Accept \/ TouchFreed
  \/ Destroy \/ DestroyItem \/ DestroyEnd

Spec == Init /\ [][Next]_vars

-----------------------------------------------------------------------------
Buf == [at: Nat, size: Nat, holds: 0..MaxCalls]

\* Every variable has its type; of each name the aux list holds one item.
TypeOK ==
  /\ phase \in {"none", "live", "ending", "gone"}
  /\ flags \in {"none", "disable", "force"}
  /\ made \in 0..MaxConfigs /\ config \in 0..made /\ configs \in SUBSET (1..made)
  /\ aux \in Seq([key: LibData \cup UserKeys \cup {NoKey}, val: LibData \cup UserData])
  /\ \A i, j \in DOMAIN aux : i # j => aux[i].val # aux[j].val /\ (aux[i].key = aux[j].key => aux[i].key = NoKey)
  /\ heap \in SUBSET (LibData \cup Cached \cup UserData)
  /\ signCf \in 0..made /\ curveCf \in 0..made
  /\ buf \in [{"wrap", "unwrap"} -> Buf] /\ given \in [{"wrap", "unwrap"} -> Buf]
  /\ pc \in {"idle", "init", "choose", "header", "allowed", "payload", "mech", "prep",
             "encode", "sign", "verify", "accepted"}
  /\ calls \in 0..MaxCalls
  /\ fault \in {"none", "use-after-free", "double-free"}

\* The configuration was replaced after the signing library had looked at it.
Reconfigured == Has("sign") /\ signCf # config

\* The state of munge was freed when its op_init failed.
MungeDangles == Has("munge") /\ "munge" \notin heap

Listed == {aux[i].val : i \in DOMAIN aux}

\* Memory: only these two ways lead to freed memory.  While neither was taken, what
\* the aux list holds is allocated and nothing else is but what the mechanism curve
\* owns; ctx->config is the only configuration allocated; the pointers kept into it
\* are good; and the end of the context frees everything, once (context.c:82, 144,
\* aux.c:131 and 151, sign.c:148, sign_curve.c:44 and 167).
MemoryIsSound ==
  ~Reconfigured /\ ~MungeDangles =>
    /\ fault = "none"
    /\ heap \ Cached = Listed
    /\ heap \cap Cached # {} => "curve" \in heap
    /\ configs = {config} \ {0} \/ phase = "gone"
    /\ Has("sign") => signCf \in configs
    /\ Has("curve") => curveCf = signCf /\ Has("sign")
    /\ phase = "gone" => heap = {} /\ configs = {}

\* What a table holds is what the last of the files to name a key says, or the
\* context's flags if none does; all the files parse; and a file that somebody else
\* can change, or put another in place of, is read only if the flags or an earlier
\* file have the check turned off (cf.c:259, 304, 368, path.c:42, 92, context.c:117).
ConfigIsWhatFilesSay ==
  LET n == Len(loaded.files)
      file(i) == loaded.files[i]
      Naming(k, upto) == {i \in 1..upto : k \in DOMAIN file(i).table}
      SaidBy(k, upto) == LET is == Naming(k, upto) IN
        IF is = {} THEN GetIn(loaded.base, k)
        ELSE file(CHOOSE i \in is : \A j \in is : j <= i).table[k]
      Checked(i) == \/ SaidBy("enable-path-paranoia", i - 1) = True
                    \/ Euid = 0 /\ SaidBy("disable-path-paranoia", i - 1) # True
      Others(st) == \* who may write what st describes, besides root and the caller
        \/ "iwoth" \in st.mode
        \/ "iwgrp" \in st.mode /\ st.gid \notin {0, Egid}
        \/ st.uid \notin {0, Euid}
      Changeable(p) == \/ Others(p)
                       \/ Others(p.dir) /\ ("isvtx" \notin p.dir.mode \/ p.dir.uid \notin {0, Euid})
  IN config # 0 =>
       /\ n > 0
       /\ DOMAIN tree = DOMAIN loaded.base \cup UNION {DOMAIN file(i).table : i \in 1..n}
       /\ \A k \in DOMAIN tree : tree[k] = SaidBy(k, n)
       /\ \A i \in 1..n : file(i).parses /\ (Checked(i) => ~Changeable(file(i).path))

\* A string that was returned stays what it was until the next flux_sign_wrap, a
\* payload until the next flux_sign_unwrap, whatever else is called and fails
\* (sign.h:58 and 83; sign.c:61, 286 and 486).
ResultsAreKept ==
  \A b \in {"wrap", "unwrap"} : given[b].at # 0 => given[b] = buf[b]

\* "Local context is stored in 'ctx', with destructor" (sign_mech.h:28): what a
\* mechanism stores there is allocated.
MechStateIsLive ==
  \A i \in DOMAIN aux : aux[i].key \in Mechs => aux[i].val \in heap
=============================================================================
