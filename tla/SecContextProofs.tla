-------------------------- MODULE SecContextProofs --------------------------
(* Proofs of the safety properties of SecContext for every configuration,  *)
(* every sequence of calls and every size of payload.                      *)
EXTENDS SecContext, DataProofs

Bufs == {"wrap", "unwrap"}
SomeBuf == [at: Nat, size: Nat, holds: Nat]

\* The arguments of a call that is under way; its mechanism is known once the
\* configuration or the header has been looked at.
CallInv ==
  /\ call \in [op: {"none"} \cup Bufs, mech: Mechs \cup {"default", "bogus", "none"},
               check: BOOLEAN, verify: BOOLEAN, size: Nat]
  /\ calls \in Nat
  /\ pc \in {"idle", "init", "choose", "header", "allowed", "payload", "mech", "prep",
             "encode", "sign", "verify", "accepted"}
  /\ pc # "idle" => call.op \in Bufs /\ phase = "live"
  /\ pc \in {"choose", "prep", "encode", "sign"} => call.op = "wrap"
  /\ pc \in {"header", "allowed", "payload", "verify", "accepted"} => call.op = "unwrap"
  /\ pc \notin {"idle", "init", "choose", "header"} => call.mech \in Mechs

\* While a call is under way its caller holds no result of an earlier one.
BufInv ==
  /\ buf \in [Bufs -> SomeBuf] /\ given \in [Bufs -> SomeBuf]
  /\ pc # "idle" => given[call.op] = NoBuf

IInv == CallInv /\ BufInv /\ ResultsAreKept

-----------------------------------------------------------------------------
LEMMA InitIInv == Init => IInv
  BY DEF Init, IInv, CallInv, BufInv, ResultsAreKept, Bufs, SomeBuf, NoBuf,
         NoCall, Mechs

LEMMA GrowBufType ==
  ASSUME NEW b \in SomeBuf, NEW need \in Nat
  PROVE  GrowBuf(b, need) \in SomeBuf
  BY DEF GrowBuf, SomeBuf

\* A call begins.
LEMMA CallBegins == IInv /\ (Wrap \/ Unwrap) => IInv'
<1> SUFFICES ASSUME IInv, Wrap \/ Unwrap PROVE IInv'
  OBVIOUS
<1> USE ContextAssumption DEF IInv, CallInv, BufInv, Ready, Bufs, SomeBuf, NoBuf
<1>1. CallInv'
  <2>1. call' \in [op: {"none"} \cup Bufs, mech: Mechs \cup {"default", "bogus", "none"},
                   check: BOOLEAN, verify: BOOLEAN, size: Nat]
    <3>1. CASE Wrap
      <4>1. PICK mech \in Mechs \cup {"default", "bogus"}, size \in 0..MaxSize :
              call' = [op |-> "wrap", mech |-> mech, check |-> FALSE, verify |-> TRUE,
                       size |-> size]
        BY <3>1 DEF Wrap
      <4> QED
        BY <4>1
    <3>2. CASE Unwrap
      <4>1. PICK mech \in Mechs \cup {"bogus"}, check, verify \in BOOLEAN, size \in 0..MaxSize :
              call' = [op |-> "unwrap", mech |-> mech, check |-> check, verify |-> verify,
                       size |-> size]
        BY <3>2 DEF Unwrap
      <4> QED
        BY <4>1
    <3> QED
      BY <3>1, <3>2
  <2>2. call'.op \in Bufs /\ pc' = "init" /\ phase' = "live"
    BY DEF Wrap, Unwrap
  <2>3. calls' \in Nat
    BY DEF Wrap, Unwrap
  <2> QED
    BY <2>1, <2>2, <2>3
<1>2. BufInv'
  BY DEF Wrap, Unwrap, signVars
<1>3. ResultsAreKept'
  BY DEF Wrap, Unwrap, ResultsAreKept, signVars
<1> QED
  BY <1>1, <1>2, <1>3

\* Nothing of the call, its buffers and the configuration changes.
LEMMA Outside ==
  ASSUME IInv, UNCHANGED <<buf, given, calls, pc, call>>,
         UNCHANGED phase \/ pc = "idle"
  PROVE  IInv'
  BY DEF IInv, CallInv, BufInv, ResultsAreKept

\* A call ends.
LEMMA EndsCall == CallInv /\ EndCall /\ UNCHANGED <<calls, phase>> => CallInv'
  BY DEF CallInv, EndCall, NoCall, Mechs

\* The call ends and no buffer changes.
LEMMA Ends ==
  ASSUME IInv, EndCall, UNCHANGED <<buf, given, calls, phase>>
  PROVE  IInv'
<1> USE DEF IInv, EndCall, NoCall
<1>1. CallInv'
  BY EndsCall
<1>2. BufInv'
  BY DEF BufInv
<1>3. ResultsAreKept'
  BY DEF ResultsAreKept
<1> QED
  BY <1>1, <1>2, <1>3

\* The call goes on, with no change to what it was called with nor to a buffer.
LEMMA GoesOn ==
  ASSUME IInv, UNCHANGED <<buf, given, calls, phase, call>>, pc # "idle",
         \/ pc = "init" /\ Initialised
         \/ pc = "header" /\ call.mech \in Mechs
            /\ pc' = IF call.check THEN "allowed" ELSE "payload"
         \/ pc = "allowed" /\ pc' = "payload"
         \/ pc = "mech" /\ MechDone
         \/ pc = "prep" /\ pc' = "encode"
         \/ pc = "verify" /\ pc' = "accepted"
  PROVE  IInv'
<1> USE DEF IInv, CallInv, BufInv, Initialised, MechDone, Bufs
<1>1. CallInv'
  OBVIOUS
<1>2. BufInv'
  OBVIOUS
<1>3. ResultsAreKept'
  BY DEF ResultsAreKept
<1> QED
  BY <1>1, <1>2, <1>3

\* flux_sign_wrap_as picks a mechanism.
LEMMA ChooseStep == IInv /\ ChooseMech => IInv'
<1> SUFFICES ASSUME IInv, ChooseMech PROVE IInv'
  OBVIOUS
<1>1. UNCHANGED <<buf, given, calls, phase>> /\ pc = "choose"
  BY DEF ChooseMech, At, confVars, signVars
<1>2. CASE EndCall
  BY <1>1, <1>2, Ends
<1>3. CASE ~EndCall
  <2>1. PICK m \in Mechs : pc' = "mech" /\ call' = [call EXCEPT !.mech = m]
    BY <1>3 DEF ChooseMech
  <2> USE <1>1, <2>1 DEF IInv
  <2>2. CallInv'
    BY DEF CallInv, Bufs
  <2>3. BufInv'
    BY DEF BufInv, CallInv, Bufs
  <2>4. ResultsAreKept'
    BY DEF ResultsAreKept
  <2> QED
    BY <2>2, <2>3, <2>4
<1> QED
  BY <1>2, <1>3

\* A call ends or goes on after it has written to its own buffer, of which its
\* caller holds nothing.
LEMMA WritesOwn ==
  ASSUME IInv, pc # "idle", NEW b \in SomeBuf,
         buf' = [buf EXCEPT ![call.op] = b],
         UNCHANGED <<given, calls, phase>>,
         \/ EndCall
         \/ UNCHANGED call /\ pc = "payload" /\ pc' \in {"mech", "accepted"}
         \/ UNCHANGED call /\ pc = "encode" /\ pc' = "sign"
  PROVE  IInv'
<1> USE DEF IInv, CallInv, BufInv, Bufs
<1>1. CallInv'
  <2>1. CASE EndCall
    BY <2>1, EndsCall
  <2>2. CASE ~EndCall
    BY <2>2
  <2> QED
    BY <2>1, <2>2
<1>2. BufInv'
  BY DEF EndCall, NoCall
<1>3. ResultsAreKept'
  BY DEF ResultsAreKept, NoBuf
<1> QED
  BY <1>1, <1>2, <1>3

\* The call ends and its caller is given the buffer, as it is now, or nothing.
LEMMA HandsOver ==
  ASSUME IInv, pc # "idle", NEW b \in SomeBuf,
         buf' = [buf EXCEPT ![call.op] = b],
         given' = [given EXCEPT ![call.op] = b] \/ given' = [given EXCEPT ![call.op] = NoBuf],
         EndCall, UNCHANGED <<calls, phase>>
  PROVE  IInv'
<1> USE DEF IInv, CallInv, BufInv, Bufs, EndCall, NoCall
<1>1. CallInv'
  BY DEF Mechs
<1>2. BufInv'
  BY DEF SomeBuf, NoBuf
<1>3. ResultsAreKept'
  BY DEF ResultsAreKept, NoBuf
<1> QED
  BY <1>1, <1>2, <1>3

LEMMA PayloadStep == IInv /\ PayloadDecode => IInv'
<1> SUFFICES ASSUME IInv, PayloadDecode PROVE IInv'
  OBVIOUS
<1>1. /\ UNCHANGED <<given, calls, phase>> /\ pc = "payload" /\ call.op = DecodeTo
      /\ \/ EndCall
         \/ UNCHANGED call /\ pc' \in {"mech", "accepted"}
  BY DEF PayloadDecode, At, confVars, IInv, CallInv, DecodeTo
<1>2. buf[DecodeTo] \in SomeBuf /\ buf \in [Bufs -> SomeBuf]
  BY DEF IInv, BufInv, Bufs, DecodeTo
<1>3. PICK b \in SomeBuf : buf' = [buf EXCEPT ![DecodeTo] = b]
  <2>1. CASE UNCHANGED buf
    BY <2>1, <1>2 DEF Bufs, DecodeTo
  <2>2. CASE ~UNCHANGED buf
    <3> DEFINE g == GrowBuf(buf[DecodeTo], call.size)
               b == [g EXCEPT !.holds = calls]
    <3>1. buf' = [buf EXCEPT ![DecodeTo] = b]
      BY <2>2, <1>2 DEF PayloadDecode, Bufs, DecodeTo
    <3>2. g \in SomeBuf
      BY <1>2, GrowBufType DEF IInv, CallInv
    <3>3. b \in SomeBuf
      BY <3>2 DEF SomeBuf, IInv, CallInv
    <3> QED
      BY <3>1, <3>3
  <2> QED
    BY <2>1, <2>2
<1> QED
  BY <1>1, <1>3, WritesOwn

LEMMA EncodeStep == IInv /\ Encode => IInv'
<1> SUFFICES ASSUME IInv, Encode PROVE IInv'
  OBVIOUS
<1>1. /\ UNCHANGED <<given, calls, phase, call>> /\ pc = "encode" /\ pc' = "sign"
      /\ call.op = "wrap"
  BY DEF Encode, At, confVars, IInv, CallInv
<1>2. buf["wrap"] \in SomeBuf /\ buf \in [Bufs -> SomeBuf]
  BY DEF IInv, BufInv, Bufs
<1> DEFINE g == GrowBuf(buf["wrap"], call.size + 1)
           b == [g EXCEPT !.holds = calls]
<1>3. buf' = [buf EXCEPT !["wrap"] = b]
  BY <1>2 DEF Encode, Bufs
<1>4. g \in SomeBuf
  <2>1. call.size + 1 \in Nat
    BY DEF IInv, CallInv
  <2> QED
    BY <1>2, <2>1, GrowBufType
<1>5. b \in SomeBuf
  BY <1>4 DEF SomeBuf, IInv, CallInv
<1> HIDE DEF b, g
<1> QED
  BY <1>1, <1>3, <1>5, WritesOwn

LEMMA SignStep == IInv /\ MechSign => IInv'
<1> SUFFICES ASSUME IInv, MechSign PROVE IInv'
  OBVIOUS
<1>1. /\ UNCHANGED <<calls, phase>> /\ pc = "sign" /\ EndCall /\ call.op = "wrap"
  BY DEF MechSign, At, confVars, IInv, CallInv
<1>2. CASE UNCHANGED <<buf, given>>
  BY <1>1, <1>2, Ends
<1>3. CASE ~UNCHANGED <<buf, given>>
  <2> DEFINE b == GrowBuf(buf.wrap, call.size + 2)
  <2>1. buf' = [buf EXCEPT !["wrap"] = b] /\ given' = [given EXCEPT !["wrap"] = b]
    BY <1>3 DEF MechSign
  <2>2. b \in SomeBuf
    <3>1. buf.wrap \in SomeBuf /\ call.size + 2 \in Nat
      BY DEF IInv, CallInv, BufInv, Bufs
    <3> QED
      BY <3>1, GrowBufType
  <2> HIDE DEF b
  <2> QED
    BY <1>1, <2>1, <2>2, HandsOver
<1> QED
  BY <1>2, <1>3

LEMMA AcceptStep == IInv /\ Accept => IInv'
<1> SUFFICES ASSUME IInv, Accept PROVE IInv'
  OBVIOUS
<1>1. /\ UNCHANGED <<calls, phase, buf>> /\ pc = "accepted" /\ EndCall
      /\ call.op = "unwrap"
  BY DEF Accept, At, confVars, signVars, IInv, CallInv
<1> DEFINE b == buf["unwrap"]
<1>2. b \in SomeBuf /\ buf' = [buf EXCEPT !["unwrap"] = b]
  BY <1>1 DEF IInv, BufInv, Bufs
<1>3. \/ given' = [given EXCEPT !["unwrap"] = b]
      \/ given' = [given EXCEPT !["unwrap"] = NoBuf]
  BY DEF Accept, DecodeTo
<1> HIDE DEF b
<1> QED
  BY <1>1, <1>2, <1>3, HandsOver

\* The steps of a call that touch no buffer.
LEMMA CallSteps ==
  IInv /\ (\/ SignInit \/ SignFound \/ HeaderDecode \/ MechAllowed \/ MechReady \/ MungeInit
           \/ CurveInit \/ Prep \/ MechVerify) => IInv'
<1> SUFFICES ASSUME IInv,
                    \/ SignInit \/ SignFound \/ HeaderDecode \/ MechAllowed \/ MechReady
                    \/ MungeInit \/ CurveInit \/ Prep \/ MechVerify
             PROVE  IInv'
  OBVIOUS
<1>1. UNCHANGED <<buf, given, calls, phase>> /\ pc # "idle"
  BY DEF SignInit, SignFound, HeaderDecode, MechAllowed, MechReady, MungeInit, CurveInit,
         Prep, MechVerify, At, confVars, signVars, auxVars
<1>2. CASE EndCall
  BY <1>1, <1>2, Ends
<1>3. CASE ~EndCall
  <2>1. /\ UNCHANGED call
        /\ \/ pc = "init" /\ Initialised
           \/ pc = "header" /\ call.mech \in Mechs
              /\ pc' = IF call.check THEN "allowed" ELSE "payload"
           \/ pc = "allowed" /\ pc' = "payload"
           \/ pc = "mech" /\ MechDone
           \/ pc = "prep" /\ pc' = "encode"
           \/ pc = "verify" /\ pc' = "accepted"
    BY <1>3 DEF SignInit, SignFound, HeaderDecode, MechAllowed, MechReady, MungeInit,
                CurveInit, Prep, MechVerify, At
  <2> QED
    BY <1>1, <2>1, GoesOn
<1> QED
  BY <1>2, <1>3

LEMMA NextIInv == IInv /\ [Next]_vars => IInv'
<1> SUFFICES ASSUME IInv, [Next]_vars PROVE IInv'
  OBVIOUS
<1> USE DEF confVars, signVars, auxVars, callVars
<1>1. CASE Create \/ Configure \/ SetConfig \/ AuxSet \/ AuxClear \/ TouchFreed
           \/ DestroyItem \/ DestroyEnd \/ UNCHANGED vars
  <2>1. /\ UNCHANGED <<buf, given, calls, pc, call>>
        /\ UNCHANGED phase \/ pc = "idle"
    BY <1>1 DEF Create, Configure, SetConfig, Replace, AuxSet, AuxClear, TouchFreed,
                DestroyItem, DestroyEnd, vars, Ready, IInv, CallInv
  <2> QED
    BY <2>1, Outside
<1>2. CASE Destroy
  <2> USE <1>2 DEF Destroy, IInv, Ready
  <2>1. CallInv'
    BY DEF CallInv
  <2>2. BufInv'
    BY DEF BufInv, Bufs, SomeBuf, NoBuf
  <2>3. ResultsAreKept'
    BY DEF ResultsAreKept, NoBuf
  <2> QED
    BY <2>1, <2>2, <2>3
<1>3. CASE Wrap \/ Unwrap
  BY <1>3, CallBegins
<1>4. CASE \/ SignInit \/ SignFound \/ HeaderDecode \/ MechAllowed \/ MechReady \/ MungeInit
           \/ CurveInit \/ Prep \/ MechVerify
  BY <1>4, CallSteps
<1>5. CASE ChooseMech \/ PayloadDecode \/ Encode \/ MechSign \/ Accept
  BY <1>5, ChooseStep, PayloadStep, EncodeStep, SignStep, AcceptStep
<1> QED
  BY <1>1, <1>2, <1>3, <1>4, <1>5 DEF Next

-----------------------------------------------------------------------------
THEOREM Invariance == Spec => []IInv
  BY InitIInv, NextIInv, PTL DEF Spec

\* A string that was returned stays what it was until the next flux_sign_wrap, a
\* payload until the next flux_sign_unwrap, whatever else is called and fails: a call
\* writes to its own buffer only, and its caller's claim to that ended when it began.
THEOREM ResultsStay == Spec => []ResultsAreKept
<1>1. IInv => ResultsAreKept
  BY DEF IInv
<1> QED
  BY Invariance, <1>1, PTL

-----------------------------------------------------------------------------
(* Memory.                                                                 *)

Items == [key: LibData, val: LibData] \cup [key: UserKeys \cup {NoKey}, val: UserData]
Vals(list) == {list[i].val : i \in DOMAIN list}
HasKey(list, key) == \E i \in DOMAIN list : list[i].key = key

\* Of every datum and every name there is one item; the library's data is under its
\* own name; curve came after sign, and so is destroyed before it.
ListInv(list) ==
  /\ list \in Seq(Items)
  /\ \A i \in DOMAIN list : list[i].key \in LibData => list[i].val = list[i].key
  /\ \A i, j \in DOMAIN list : i # j =>
       list[i].val # list[j].val /\ (list[i].key = list[j].key => list[i].key = NoKey)
  /\ \A i, j \in DOMAIN list : list[i].key = "curve" /\ list[j].key = "sign" => i < j

\* What is allocated, whatever the program did: munge alone may be in the list and
\* freed, and nothing but curve's certificates is outside of it.
HeapInv ==
  /\ ListInv(aux)
  /\ \A v : v \notin Cached \cup {"munge"} => (v \in heap <=> v \in Vals(aux))
  /\ "munge" \in heap => "munge" \in Vals(aux)
  /\ \A v \in Cached : v \in heap => "curve" \in heap
  /\ phase = "gone" => aux = <<>>

\* The configuration, and the pointers into one that was in force.
ConfInv ==
  /\ made \in Nat
  /\ configs = IF phase = "gone" THEN {} ELSE {config} \ {0}
  /\ HasKey(aux, "curve") => HasKey(aux, "sign") /\ curveCf = signCf
  /\ HasKey(aux, "sign") => signCf # 0

\* A call uses what it has found or made in the list.
UseInv ==
  /\ pc \notin {"idle", "init"} => HasKey(aux, "sign")
  /\ pc \in {"prep", "encode", "sign", "verify"} /\ call.mech \in {"munge", "curve"}
       => HasKey(aux, call.mech)

FaultInv == fault # "none" => Reconfigured \/ MungeDangles

MemInv == HeapInv /\ ConfInv /\ UseInv /\ FaultInv

-----------------------------------------------------------------------------
(* The aux list. *)

LEMMA InsertedList ==
  ASSUME NEW list, NEW item, ListInv(list), item \in Items,
         item.key \in LibData => item.val = item.key,
         item.val \notin Vals(list),
         item.key = NoKey \/ ~HasKey(list, item.key),
         item.key = "sign" => ~HasKey(list, "curve")
  PROVE  /\ ListInv(AuxInsert(list, item))
         /\ Vals(AuxInsert(list, item)) = Vals(list) \cup {item.val}
         /\ \A k : HasKey(AuxInsert(list, item), k) <=> k = item.key \/ HasKey(list, k)
<1> DEFINE new == AuxInsert(list, item)
<1> USE DEF ListInv
<1>1. Len(list) \in Nat /\ DOMAIN list = 1..Len(list)
  OBVIOUS
<1>2. /\ DOMAIN new = 1..(Len(list) + 1)
      /\ new[1] = item
      /\ \A i \in DOMAIN new : i # 1 => i - 1 \in DOMAIN list /\ new[i] = list[i - 1]
      /\ \A i \in DOMAIN list : i + 1 \in DOMAIN new /\ i + 1 # 1 /\ new[i + 1] = list[i]
      /\ 1 \in DOMAIN new
  BY <1>1 DEF AuxInsert
<1>3. new \in Seq(Items)
  <2>1. \A i \in 1..(Len(list) + 1) : (IF i = 1 THEN item ELSE list[i - 1]) \in Items
    BY <1>1
  <2> QED
    BY <2>1, <1>1 DEF AuxInsert
<1>4. DOMAIN list \subseteq Nat /\ DOMAIN new \subseteq Nat
  BY <1>1, <1>2
<1> HIDE DEF new
<1>5. Vals(new) = Vals(list) \cup {item.val}
  <2>1. ASSUME NEW v \in Vals(new) PROVE v \in Vals(list) \cup {item.val}
    <3>1. PICK i \in DOMAIN new : v = new[i].val
      BY DEF Vals
    <3>2. i = 1 \/ (i - 1 \in DOMAIN list /\ v = list[i - 1].val)
      BY <3>1, <1>2
    <3>3. i = 1 => v = item.val
      BY <3>1, <1>2
    <3> QED
      BY <3>2, <3>3 DEF Vals
  <2>2. ASSUME NEW v \in Vals(list) PROVE v \in Vals(new)
    <3>1. PICK i \in DOMAIN list : v = list[i].val
      BY DEF Vals
    <3>2. i + 1 \in DOMAIN new /\ v = new[i + 1].val
      BY <3>1, <1>2
    <3> QED
      BY <3>2 DEF Vals
  <2>3. item.val \in Vals(new)
    BY <1>2 DEF Vals
  <2> QED
    BY <2>1, <2>2, <2>3
<1>6. \A k : HasKey(new, k) <=> k = item.key \/ HasKey(list, k)
  <2>1. ASSUME NEW k, HasKey(new, k) PROVE k = item.key \/ HasKey(list, k)
    <3>1. PICK i \in DOMAIN new : new[i].key = k
      BY <2>1 DEF HasKey
    <3>2. i = 1 \/ (i - 1 \in DOMAIN list /\ list[i - 1].key = k)
      BY <3>1, <1>2
    <3>3. i = 1 => k = item.key
      BY <3>1, <1>2
    <3> QED
      BY <3>2, <3>3 DEF HasKey
  <2>2. ASSUME NEW k, HasKey(list, k) PROVE HasKey(new, k)
    <3>1. PICK i \in DOMAIN list : list[i].key = k
      BY <2>2 DEF HasKey
    <3>2. i + 1 \in DOMAIN new /\ new[i + 1].key = k
      BY <3>1, <1>2
    <3> QED
      BY <3>2 DEF HasKey
  <2>3. HasKey(new, item.key)
    BY <1>2 DEF HasKey
  <2> QED
    BY <2>1, <2>2, <2>3
<1>7. \A i \in DOMAIN list : list[i].val # item.val
                            /\ (list[i].key = item.key => item.key = NoKey)
  BY DEF Vals, HasKey
<1>8. ListInv(new)
  <2>1. \A i \in DOMAIN new : new[i].key \in LibData => new[i].val = new[i].key
    BY <1>2
  <2>2. \A i, j \in DOMAIN new : i # j =>
          new[i].val # new[j].val /\ (new[i].key = new[j].key => new[i].key = NoKey)
    <3> SUFFICES ASSUME NEW i \in DOMAIN new, NEW j \in DOMAIN new, i # j
                 PROVE  /\ new[i].val # new[j].val
                        /\ new[i].key = new[j].key => new[i].key = NoKey
      OBVIOUS
    <3>1. CASE i = 1
      BY <3>1, <1>2, <1>7
    <3>2. CASE j = 1
      BY <3>2, <1>2, <1>7
    <3>3. CASE i # 1 /\ j # 1
      <4>1. i - 1 # j - 1
        BY <1>4
      <4> QED
        BY <3>3, <4>1, <1>2
    <3> QED
      BY <3>1, <3>2, <3>3
  <2>3. \A i, j \in DOMAIN new : new[i].key = "curve" /\ new[j].key = "sign" => i < j
    <3> SUFFICES ASSUME NEW i \in DOMAIN new, NEW j \in DOMAIN new,
                        new[i].key = "curve", new[j].key = "sign"
                 PROVE  i < j
      OBVIOUS
    <3>1. j # 1
      <4> SUFFICES ASSUME j = 1 PROVE FALSE
        OBVIOUS
      <4>1. item.key = "sign" /\ ~HasKey(list, "curve")
        BY <1>2
      <4>2. i # 1 /\ i - 1 \in DOMAIN list /\ list[i - 1].key = "curve"
        BY <4>1, <1>2
      <4> QED
        BY <4>1, <4>2 DEF HasKey
    <3>2. i \in 1..(Len(list) + 1) /\ j \in 1..(Len(list) + 1)
      BY <1>2
    <3>3. CASE i = 1
      BY <3>1, <3>2, <3>3, <1>1
    <3>4. CASE i # 1
      <4>1. /\ i - 1 \in DOMAIN list /\ list[i - 1].key = "curve"
            /\ j - 1 \in DOMAIN list /\ list[j - 1].key = "sign"
        BY <3>1, <3>4, <1>2
      <4>2. i - 1 < j - 1
        BY <4>1
      <4> QED
        BY <4>2, <3>2, <1>1
    <3> QED
      BY <3>3, <3>4
  <2> QED
    BY <1>3, <2>1, <2>2, <2>3
<1> QED
  BY <1>5, <1>6, <1>8 DEF new

\* A part of the list, in the same order.
LEMMA PartOfList ==
  ASSUME NEW list, NEW part, ListInv(list), part \in Seq(Items),
         NEW f \in [DOMAIN part -> DOMAIN list],
         \A i \in DOMAIN part : part[i] = list[f[i]],
         \A i, j \in DOMAIN part : i < j => f[i] < f[j]
  PROVE  ListInv(part)
<1> USE DEF ListInv
<1>1. DOMAIN part \subseteq Nat /\ DOMAIN list \subseteq Nat
  OBVIOUS
<1>2. \A i, j \in DOMAIN part : i # j => f[i] # f[j]
  BY <1>1
<1>3. \A i, j \in DOMAIN part : f[i] < f[j] => i < j
  BY <1>1
<1>4. \A i \in DOMAIN part : part[i].key \in LibData => part[i].val = part[i].key
  OBVIOUS
<1>5. \A i, j \in DOMAIN part : i # j =>
        part[i].val # part[j].val /\ (part[i].key = part[j].key => part[i].key = NoKey)
  BY <1>2
<1>6. \A i, j \in DOMAIN part : part[i].key = "curve" /\ part[j].key = "sign" => i < j
  BY <1>3
<1> QED
  BY <1>4, <1>5, <1>6

LEMMA DeletedList ==
  ASSUME NEW list, ListInv(list), NEW key \in UserKeys \cup {NoKey}
  PROVE  /\ ListInv(AuxDelete(list, key))
         /\ Vals(AuxDelete(list, key)) =
              Vals(list) \ {list[i].val : i \in {j \in DOMAIN list : key # NoKey /\ list[j].key = key}}
         /\ \A k \in LibData : HasKey(AuxDelete(list, key), k) <=> HasKey(list, k)
         /\ key = NoKey \/ ~HasKey(AuxDelete(list, key), key)
<1> DEFINE named == {i \in DOMAIN list : key # NoKey /\ list[i].key = key}
           new == AuxDelete(list, key)
<1> USE ContextAssumption
<1>1. Len(list) \in Nat /\ DOMAIN list = 1..Len(list)
  BY DEF ListInv
<1>2. CASE named = {}
  <2>1. new = list
    BY <1>2 DEF AuxDelete
  <2> QED
    BY <2>1, <1>2 DEF HasKey
<1>3. CASE named # {}
  <2>1. PICK at \in DOMAIN list : named = {at}
    BY <1>3 DEF ListInv
  <2>2. new = [i \in 1..(Len(list) - 1) |-> IF i < at THEN list[i] ELSE list[i + 1]]
    <3>1. at \in named /\ (\A j \in named : at <= j)
      BY <2>1, <1>1
    <3>2. (CHOOSE i \in named : \A j \in named : i <= j) = at
      BY <2>1, <3>1
    <3> QED
      BY <3>2, <1>3 DEF AuxDelete
  <2> DEFINE f == [i \in 1..(Len(list) - 1) |-> IF i < at THEN i ELSE i + 1]
  <2>3. /\ at \in 1..Len(list) /\ Len(list) - 1 \in Nat
        /\ DOMAIN new = 1..(Len(list) - 1) /\ f \in [DOMAIN new -> DOMAIN list]
    BY <2>2, <1>1
  <2>4. \A i \in DOMAIN new : new[i] = list[f[i]] /\ f[i] # at
    BY <2>2, <2>3
  <2>5. \A i, j \in DOMAIN new : i < j => f[i] < f[j]
    BY <2>3
  <2>6. \A k \in DOMAIN list : k # at => \E i \in DOMAIN new : f[i] = k
    <3> SUFFICES ASSUME NEW k \in DOMAIN list, k # at PROVE \E i \in DOMAIN new : f[i] = k
      OBVIOUS
    <3>1. CASE k < at
      BY <3>1, <2>3, <1>1
    <3>2. CASE k > at
      <4>1. k - 1 \in DOMAIN new /\ f[k - 1] = k
        BY <3>2, <2>3, <1>1
      <4> QED
        BY <4>1
    <3> QED
      BY <3>1, <3>2, <1>1
  <2>7. new \in Seq(Items)
    <3>1. \A i \in 1..(Len(list) - 1) :
            (IF i < at THEN list[i] ELSE list[i + 1]) \in Items
      BY <1>1, <2>3 DEF ListInv
    <3> QED
      BY <3>1, <2>2, <2>3
  <2> HIDE DEF new, f
  <2>8. ListInv(new)
    BY <2>3, <2>4, <2>5, <2>7, PartOfList
  <2>9. \A i \in DOMAIN list : i # at =>
          list[i].val # list[at].val /\ (key # NoKey /\ list[i].key # key)
    BY <2>1 DEF ListInv
  <2>10. Vals(new) = Vals(list) \ {list[i].val : i \in named}
    <3>1. Vals(new) = {list[i].val : i \in DOMAIN list \ {at}}
      BY <2>3, <2>4, <2>6 DEF Vals
    <3>2. {list[i].val : i \in named} = {list[at].val}
      BY <2>1
    <3> QED
      BY <3>1, <3>2, <2>9 DEF Vals
  <2>11. ~HasKey(new, key)
    BY <2>3, <2>4, <2>9 DEF HasKey
  <2>12. \A k \in LibData : HasKey(new, k) <=> HasKey(list, k)
    <3>1. list[at].key = key /\ key \notin LibData
      BY <2>1
    <3> QED
      BY <3>1, <2>3, <2>4, <2>6 DEF HasKey
  <2> QED
    BY <2>8, <2>10, <2>11, <2>12 DEF new
<1> QED
  BY <1>2, <1>3

LEMMA TailOfList ==
  ASSUME NEW list, ListInv(list), list # <<>>
  PROVE  /\ ListInv(Tail(list))
         /\ Head(list) \in Items /\ Head(list).val \in Vals(list)
         /\ Head(list).key \in LibData => Head(list).val = Head(list).key
         /\ Vals(Tail(list)) = Vals(list) \ {Head(list).val}
         /\ \A k : HasKey(Tail(list), k) => HasKey(list, k)
         /\ \A k : HasKey(list, k) => HasKey(Tail(list), k) \/ k = Head(list).key
         /\ HasKey(Tail(list), "curve") /\ HasKey(list, "sign") => HasKey(Tail(list), "sign")
<1> DEFINE new == Tail(list)
           f == [i \in 1..(Len(list) - 1) |-> i + 1]
<1>1. /\ Len(list) \in Nat \ {0} /\ DOMAIN list = 1..Len(list)
      /\ new \in Seq(Items) /\ DOMAIN new = 1..(Len(list) - 1)
      /\ \A i \in DOMAIN new : i + 1 \in DOMAIN list /\ new[i] = list[i + 1]
      /\ \A i \in DOMAIN list : i # 1 => i - 1 \in DOMAIN new /\ new[i - 1] = list[i]
      /\ 1 \in DOMAIN list /\ Head(list) = list[1] /\ list[1] \in Items
  BY DEF ListInv
<1>2. DOMAIN new \subseteq Nat /\ DOMAIN list \subseteq Nat
  BY <1>1
<1>3. ListInv(new)
  <2>1. f \in [DOMAIN new -> DOMAIN list]
    BY <1>1
  <2>2. \A i \in DOMAIN new : new[i] = list[f[i]]
    BY <1>1
  <2>3. \A i, j \in DOMAIN new : i < j => f[i] < f[j]
    BY <1>1
  <2> HIDE DEF f, new
  <2> QED
    BY <1>1, <2>1, <2>2, <2>3, PartOfList
<1> HIDE DEF new
<1>4. Vals(new) = Vals(list) \ {list[1].val}
  <2>1. Vals(new) = {list[i].val : i \in DOMAIN list \ {1}}
    <3>1. ASSUME NEW v \in Vals(new) PROVE v \in {list[i].val : i \in DOMAIN list \ {1}}
      <4>1. PICK i \in DOMAIN new : v = new[i].val
        BY DEF Vals
      <4>2. i + 1 \in DOMAIN list /\ i + 1 # 1 /\ v = list[i + 1].val
        BY <4>1, <1>1, <1>2
      <4> QED
        BY <4>2
    <3>2. ASSUME NEW i \in DOMAIN list \ {1} PROVE list[i].val \in Vals(new)
      BY <1>1 DEF Vals
    <3> QED
      BY <3>1, <3>2
  <2>2. \A i \in DOMAIN list : i # 1 => list[i].val # list[1].val
    BY <1>1 DEF ListInv
  <2> QED
    BY <2>1, <2>2, <1>1 DEF Vals
<1>5. \A k : HasKey(new, k) => HasKey(list, k)
  BY <1>1 DEF HasKey
<1>6. \A k : HasKey(list, k) => HasKey(new, k) \/ k = list[1].key
  BY <1>1 DEF HasKey
<1>7. HasKey(new, "curve") /\ HasKey(list, "sign") => HasKey(new, "sign")
  <2> SUFFICES ASSUME HasKey(new, "curve"), HasKey(list, "sign") PROVE HasKey(new, "sign")
    OBVIOUS
  <2>1. PICK i \in DOMAIN new : new[i].key = "curve"
    BY DEF HasKey
  <2>2. PICK j \in DOMAIN list : list[j].key = "sign"
    BY DEF HasKey
  <2>3. i + 1 < j
    BY <2>1, <2>2, <1>1 DEF ListInv
  <2> QED
    BY <2>2, <2>3, <1>1, <1>2 DEF HasKey
<1>8. list[1].key \in LibData => list[1].val = list[1].key
  BY <1>1 DEF ListInv
<1> QED
  BY <1>1, <1>3, <1>4, <1>5, <1>6, <1>7, <1>8 DEF new, Vals

-----------------------------------------------------------------------------
LEMMA KeysAndVals ==
  ASSUME ListInv(aux)
  PROVE  /\ Listed = Vals(aux)
         /\ \A k : Has(k) <=> HasKey(aux, k)
         /\ Vals(aux) \subseteq LibData \cup UserData
         /\ \A k \in LibData : HasKey(aux, k) <=> k \in Vals(aux)
<1> USE ContextAssumption
<1>1. Listed = Vals(aux)
  BY DEF Listed, Vals
<1>2. \A k : Has(k) <=> HasKey(aux, k)
  BY DEF Has, HasKey
<1>3. \A i \in DOMAIN aux : aux[i] \in Items
  BY DEF ListInv
<1>4. Vals(aux) \subseteq LibData \cup UserData
  BY <1>3 DEF Vals, Items
<1>5. \A k \in LibData : HasKey(aux, k) <=> k \in Vals(aux)
  <2> SUFFICES ASSUME NEW k \in LibData PROVE HasKey(aux, k) <=> k \in Vals(aux)
    OBVIOUS
  <2>1. ASSUME HasKey(aux, k) PROVE k \in Vals(aux)
    BY <2>1 DEF HasKey, Vals, ListInv
  <2>2. ASSUME k \in Vals(aux) PROVE HasKey(aux, k)
    <3>1. PICK i \in DOMAIN aux : aux[i].val = k
      BY <2>2 DEF Vals
    <3>2. aux[i].key \in LibData
      BY <3>1, <1>3 DEF Items
    <3> QED
      BY <3>1, <3>2 DEF HasKey, ListInv
  <2> QED
    BY <2>1, <2>2
<1> QED
  BY <1>1, <1>2, <1>4, <1>5

LEMMA InitMem == Init => MemInv
<1> SUFFICES ASSUME Init PROVE MemInv
  OBVIOUS
<1> USE DEF Init
<1>1. HeapInv
  BY DEF HeapInv, ListInv, Vals
<1>2. ConfInv
  BY DEF ConfInv, HasKey
<1>3. UseInv
  BY DEF UseInv
<1>4. FaultInv
  BY DEF FaultInv
<1> QED
  BY <1>1, <1>2, <1>3, <1>4 DEF MemInv

LEMMA NothingDeleted ==
  ASSUME NEW list, NEW key, ~HasKey(list, key)
  PROVE  AuxDelete(list, key) = list
  BY DEF AuxDelete, HasKey

\* A name of the library's is put in the list when it was not there.
LEMMA LibInserted ==
  ASSUME HeapInv, NEW key \in LibData, ~Has(key), key = "sign" => ~HasKey(aux, "curve"),
         aux' = AuxInsert(AuxDelete(aux, key), Item(key, key))
  PROVE  /\ ListInv(aux)'
         /\ Vals(aux)' = Vals(aux) \cup {key} /\ key \notin Vals(aux)
         /\ \A k : HasKey(aux, k)' <=> k = key \/ HasKey(aux, k)
<1> USE ContextAssumption
<1>1. ListInv(aux) /\ ~HasKey(aux, key) /\ key \notin Vals(aux)
  BY KeysAndVals DEF HeapInv
<1>2. aux' = AuxInsert(aux, Item(key, key))
  BY <1>1, NothingDeleted
<1> DEFINE item == Item(key, key)
<1>3. item \in Items /\ item.key = key /\ item.val = key
  BY DEF Item, Items
<1> HIDE DEF item
<1>4. /\ ListInv(AuxInsert(aux, item))
      /\ Vals(AuxInsert(aux, item)) = Vals(aux) \cup {item.val}
      /\ \A k : HasKey(AuxInsert(aux, item), k) <=> k = item.key \/ HasKey(aux, k)
  BY <1>1, <1>3, InsertedList
<1>5. /\ ListInv(aux)' <=> ListInv(aux')
      /\ Vals(aux)' = Vals(aux')
      /\ \A k : HasKey(aux, k)' <=> HasKey(aux', k)
  BY DEF ListInv, Vals, HasKey
<1> QED
  BY <1>1, <1>2, <1>3, <1>4, <1>5 DEF item

\* What aux_set of the program's own data does to the list.
LEMMA UserDeleted ==
  ASSUME HeapInv, NEW key \in UserKeys \cup {NoKey}
  PROVE  /\ ListInv(AuxDelete(aux, key))
         /\ Vals(AuxDelete(aux, key)) = Vals(aux) \ Dropped(key)
         /\ Dropped(key) \subseteq UserData
         /\ \A k \in LibData : HasKey(AuxDelete(aux, key), k) <=> HasKey(aux, k)
         /\ key = NoKey \/ ~HasKey(AuxDelete(aux, key), key)
<1>1. ListInv(aux)
  BY DEF HeapInv
<1>2. Dropped(key) \subseteq UserData
  BY <1>1, ContextAssumption DEF Dropped, ListInv, Items
<1> QED
  BY <1>1, <1>2, DeletedList DEF Dropped

LEMMA AuxSetList ==
  ASSUME HeapInv, AuxSet
  PROVE  HeapInv' /\ \A k \in LibData : HasKey(aux, k)' <=> HasKey(aux, k)
<1>1. PICK key \in UserKeys \cup {NoKey}, val \in UserData \ heap :
        /\ aux' = AuxInsert(AuxDelete(aux, key), Item(key, val))
        /\ heap' = (heap \ Dropped(key)) \cup {val}
  BY DEF AuxSet
<1> DEFINE list == AuxDelete(aux, key)
           item == Item(key, val)
<1>2. /\ ListInv(list) /\ Vals(list) = Vals(aux) \ Dropped(key)
      /\ Dropped(key) \subseteq UserData
      /\ \A k \in LibData : HasKey(list, k) <=> HasKey(aux, k)
      /\ key = NoKey \/ ~HasKey(list, key)
  BY UserDeleted
<1>3. item \in Items /\ item.key = key /\ item.val = val /\ key \notin LibData
  BY ContextAssumption DEF Item, Items, LibData, NoKey
<1>4. val \notin Vals(aux)
  BY ContextAssumption DEF HeapInv, LibData, Cached
<1>5. item.key # "sign"
  BY <1>3 DEF LibData
<1> HIDE DEF list, item
<1>6. /\ ListInv(AuxInsert(list, item))
      /\ Vals(AuxInsert(list, item)) = Vals(list) \cup {item.val}
      /\ \A k : HasKey(AuxInsert(list, item), k) <=> k = item.key \/ HasKey(list, k)
  BY <1>2, <1>3, <1>4, <1>5, InsertedList
<1>7. /\ ListInv(aux)' <=> ListInv(aux')
      /\ Vals(aux)' = Vals(aux')
      /\ \A k : HasKey(aux, k)' <=> HasKey(aux', k)
  BY DEF ListInv, Vals, HasKey
<1>8. aux' = AuxInsert(list, item)
  BY <1>1 DEF list, item
<1>9. /\ ListInv(aux)' /\ Vals(aux)' = (Vals(aux) \ Dropped(key)) \cup {val}
      /\ \A k \in LibData : HasKey(aux, k)' <=> HasKey(aux, k)
  BY <1>2, <1>3, <1>6, <1>7, <1>8
<1>10. HeapInv'
  BY <1>1, <1>2, <1>9, ContextAssumption DEF HeapInv, AuxSet, Ready, LibData, Cached
<1> QED
  BY <1>9, <1>10

LEMMA AuxClearList ==
  ASSUME HeapInv, AuxClear
  PROVE  HeapInv' /\ \A k \in LibData : HasKey(aux, k)' <=> HasKey(aux, k)
<1>1. PICK key \in UserKeys :
        aux' = AuxDelete(aux, key) /\ heap' = heap \ Dropped(key)
  BY DEF AuxClear
<1>2. /\ ListInv(aux') /\ Vals(aux') = Vals(aux) \ Dropped(key)
      /\ Dropped(key) \subseteq UserData
      /\ \A k \in LibData : HasKey(aux', k) <=> HasKey(aux, k)
  BY <1>1, UserDeleted
<1>3. /\ ListInv(aux)' <=> ListInv(aux')
      /\ Vals(aux)' = Vals(aux')
      /\ \A k : HasKey(aux, k)' <=> HasKey(aux', k)
  BY DEF ListInv, Vals, HasKey
<1>4. HeapInv'
  BY <1>1, <1>2, <1>3, ContextAssumption DEF HeapInv, AuxClear, Ready, LibData, Cached
<1> QED
  BY <1>2, <1>3, <1>4

\* aux_destroy frees the data of the head.
LEMMA DestroyList ==
  ASSUME HeapInv, DestroyItem, UNCHANGED fault
  PROVE  /\ HeapInv'
         /\ aux' = Tail(aux) /\ ListInv(aux) /\ aux # <<>>
<1>1. /\ Head(aux).val \in heap /\ heap' = heap \ Owned(Head(aux).val) /\ aux' = Tail(aux)
      /\ ListInv(aux) /\ aux # <<>> /\ phase' = "ending"
  BY DEF DestroyItem, HeapInv
<1>2. /\ ListInv(aux') /\ Vals(aux') = Vals(aux) \ {Head(aux).val}
      /\ Head(aux).val \in Vals(aux)
  BY <1>1, TailOfList
<1>3. Vals(aux) \subseteq LibData \cup UserData
  BY <1>1, KeysAndVals
<1>4. ListInv(aux)' /\ Vals(aux)' = Vals(aux')
  BY <1>2 DEF ListInv, Vals
<1>5. HeapInv'
  BY <1>1, <1>2, <1>3, <1>4, ContextAssumption DEF HeapInv, Owned, LibData, Cached
<1> QED
  BY <1>1, <1>5

LEMMA HeapStep == IInv /\ MemInv /\ [Next]_vars => HeapInv'
<1> SUFFICES ASSUME IInv, MemInv, [Next]_vars PROVE HeapInv'
  OBVIOUS
<1> USE DEF MemInv, auxVars
<1>1. CASE \/ Create \/ Configure \/ SetConfig \/ Wrap \/ Unwrap \/ SignFound \/ ChooseMech
           \/ HeaderDecode \/ MechAllowed \/ PayloadDecode \/ MechReady \/ Encode \/ MechSign
 \/ Accept \/ TouchFreed \/ Destroy \/ DestroyEnd \/ UNCHANGED vars
  <2>1. UNCHANGED <<aux, heap>> /\ (phase' = "gone" => phase = "gone" \/ aux = <<>>)
    BY <1>1 DEF Create, Configure, SetConfig, Replace, Wrap, Unwrap, SignFound, ChooseMech,
                HeaderDecode, MechAllowed, PayloadDecode, MechReady, Encode, MechSign,
                Accept, TouchFreed, Destroy, DestroyEnd, vars, Ready
  <2> QED
    BY <2>1 DEF HeapInv, ListInv, Vals
<1>2. CASE AuxSet
  BY <1>2, AuxSetList
<1>3. CASE AuxClear
  BY <1>3, AuxClearList
<1>4. CASE SignInit \/ CurveInit
  <2>1. UNCHANGED phase /\ phase = "live"
    BY <1>4 DEF SignInit, CurveInit, At, IInv, CallInv
  <2>2. CASE UNCHANGED <<aux, heap>>
    BY <2>1, <2>2 DEF HeapInv, ListInv, Vals
  <2>3. CASE ~UNCHANGED <<aux, heap>>
    <3>1. PICK key \in {"sign", "curve"} :
            /\ ~Has(key) /\ aux' = AuxInsert(AuxDelete(aux, key), Item(key, key))
            /\ heap' = heap \cup {key}
      BY <1>4, <2>3 DEF SignInit, CurveInit
    <3>2. key = "sign" => ~HasKey(aux, "curve")
      BY <3>1 DEF ConfInv, Has, HasKey
    <3>3. ListInv(aux)' /\ Vals(aux)' = Vals(aux) \cup {key}
      BY <3>1, <3>2, LibInserted DEF LibData
    <3> QED
      BY <2>1, <3>1, <3>3 DEF HeapInv, Cached
  <2> QED
    BY <2>2, <2>3
<1>5. CASE MungeInit
  <2>1. /\ UNCHANGED phase /\ phase = "live" /\ ~Has("munge")
        /\ aux' = AuxInsert(AuxDelete(aux, "munge"), Item("munge", "munge"))
        /\ heap' = heap \cup {"munge"} \/ UNCHANGED heap
    BY <1>5 DEF MungeInit, At, IInv, CallInv
  <2>2. ListInv(aux)' /\ Vals(aux)' = Vals(aux) \cup {"munge"}
    BY <2>1, LibInserted DEF LibData
  <2> QED
    BY <2>1, <2>2 DEF HeapInv, Cached
<1>6. CASE Prep \/ MechVerify
  <2>1. UNCHANGED <<phase, aux>>
    BY <1>6 DEF Prep, MechVerify
  <2>2. heap' = heap \/ ("curve" \in heap /\ \E v \in Cached : heap' = heap \cup {v})
    <3>1. pc \in {"prep", "verify"}
      BY <1>6 DEF Prep, MechVerify, At
    <3>2. call.mech = "curve" => "curve" \in heap
      BY <3>1, KeysAndVals DEF UseInv, HeapInv, LibData, Cached
    <3>3. heap' = heap \/ (call.mech = "curve" /\ \E v \in Cached : heap' = heap \cup {v})
      BY <1>6 DEF Prep, MechVerify, Cached
    <3> QED
      BY <3>2, <3>3
  <2>3. ListInv(aux)' /\ Vals(aux)' = Vals(aux)
    BY <2>1 DEF HeapInv, ListInv, Vals
  <2> QED
    BY <2>1, <2>2, <2>3 DEF HeapInv, Cached
<1>7. CASE DestroyItem
  <2>1. CASE UNCHANGED fault
    BY <1>7, <2>1, DestroyList
  <2>2. CASE UNCHANGED <<aux, heap, phase>>
    BY <2>2 DEF HeapInv, ListInv, Vals
  <2> QED
    BY <1>7, <2>1, <2>2 DEF DestroyItem
<1> QED
  BY <1>1, <1>2, <1>3, <1>4, <1>5, <1>6, <1>7 DEF Next

LEMMA ConfStep == IInv /\ MemInv /\ [Next]_vars => ConfInv'
<1> SUFFICES ASSUME IInv, MemInv, [Next]_vars PROVE ConfInv'
  OBVIOUS
<1> USE DEF MemInv, auxVars, confVars, signVars
<1>1. CASE \/ Create \/ Wrap \/ Unwrap \/ SignFound \/ ChooseMech \/ HeaderDecode
           \/ MechAllowed \/ PayloadDecode \/ MechReady \/ Prep \/ Encode \/ MechSign
           \/ MechVerify \/ Accept \/ TouchFreed \/ Destroy \/ UNCHANGED vars
  <2>1. /\ UNCHANGED <<aux, config, made, configs, signCf, curveCf>>
        /\ phase' = "gone" <=> phase = "gone"
    BY <1>1 DEF Create, Wrap, Unwrap, SignFound, ChooseMech, HeaderDecode, MechAllowed,
                PayloadDecode, MechReady, Prep, Encode, MechSign, MechVerify,
                Accept, TouchFreed, Destroy, vars, Ready
  <2> QED
    BY <2>1 DEF ConfInv, HasKey
<1>2. CASE Configure \/ SetConfig
  <2>1. /\ config' = made + 1 /\ made' = made + 1
        /\ configs' = (configs \ {config}) \cup {made + 1}
        /\ UNCHANGED <<aux, signCf, curveCf, phase>> /\ phase = "live"
    BY <1>2 DEF Configure, SetConfig, Replace, Ready
  <2> QED
    BY <2>1 DEF ConfInv, HasKey
<1>3. CASE AuxSet \/ AuxClear
  <2>1. UNCHANGED <<phase, config, made, configs, signCf, curveCf>>
    BY <1>3 DEF AuxSet, AuxClear
  <2>2. \A k \in LibData : HasKey(aux, k)' <=> HasKey(aux, k)
    BY <1>3, AuxSetList, AuxClearList
  <2> QED
    BY <2>1, <2>2 DEF ConfInv, LibData
<1>4. CASE SignInit
  <2>1. UNCHANGED <<phase, config, made, configs, curveCf>> /\ ~HasKey(aux, "sign")
    BY <1>4 DEF SignInit, Has, HasKey
  <2>2. CASE UNCHANGED <<aux, signCf>>
    BY <2>1, <2>2 DEF ConfInv, HasKey
  <2>3. CASE ~UNCHANGED <<aux, signCf>>
    <3>1. /\ signCf' = config /\ config # 0 /\ ~Has("sign")
          /\ aux' = AuxInsert(AuxDelete(aux, "sign"), Item("sign", "sign"))
      BY <1>4, <2>3 DEF SignInit, SignConfigGood
    <3>2. ~HasKey(aux, "curve")
      BY <2>1 DEF ConfInv
    <3>3. \A k : HasKey(aux, k)' <=> k = "sign" \/ HasKey(aux, k)
      BY <3>1, <3>2, LibInserted DEF LibData
    <3> QED
      BY <2>1, <3>1, <3>2, <3>3 DEF ConfInv
  <2> QED
    BY <2>2, <2>3
<1>5. CASE MungeInit
  <2>1. UNCHANGED <<phase, config, made, configs, signCf, curveCf>>
    BY <1>5 DEF MungeInit
  <2>2. \A k : HasKey(aux, k)' <=> k = "munge" \/ HasKey(aux, k)
    BY <1>5, LibInserted DEF LibData, MungeInit
  <2> QED
    BY <2>1, <2>2 DEF ConfInv
<1>6. CASE CurveInit
  <2>1. UNCHANGED <<phase, config, made, configs, signCf>> /\ HasKey(aux, "sign")
    BY <1>6 DEF CurveInit, At, UseInv
  <2>2. CASE UNCHANGED <<aux, curveCf>>
    BY <2>1, <2>2 DEF ConfInv, HasKey
  <2>3. CASE ~UNCHANGED <<aux, curveCf>>
    <3>1. /\ curveCf' = signCf /\ ~Has("curve")
          /\ aux' = AuxInsert(AuxDelete(aux, "curve"), Item("curve", "curve"))
      BY <1>6, <2>3 DEF CurveInit
    <3>2. \A k : HasKey(aux, k)' <=> k = "curve" \/ HasKey(aux, k)
      BY <3>1, LibInserted DEF LibData
    <3> QED
      BY <2>1, <3>1, <3>2 DEF ConfInv
  <2> QED
    BY <2>2, <2>3
<1>7. CASE DestroyItem
  <2>1. UNCHANGED <<phase, config, made, configs, signCf, curveCf>>
    BY <1>7 DEF DestroyItem
  <2>2. CASE UNCHANGED aux
    BY <2>1, <2>2 DEF ConfInv, HasKey
  <2>3. CASE ~UNCHANGED aux
    <3>1. ListInv(aux) /\ aux # <<>> /\ aux' = Tail(aux)
      BY <1>7, <2>3 DEF DestroyItem, HeapInv
    <3>2. /\ \A k : HasKey(Tail(aux), k) => HasKey(aux, k)
          /\ HasKey(Tail(aux), "curve") /\ HasKey(aux, "sign") => HasKey(Tail(aux), "sign")
      BY <3>1, TailOfList
    <3>3. \A k : HasKey(aux, k)' <=> HasKey(Tail(aux), k)
      BY <3>1 DEF HasKey
    <3> QED
      BY <2>1, <3>2, <3>3 DEF ConfInv
  <2> QED
    BY <2>2, <2>3
<1>8. CASE DestroyEnd
  <2>1. /\ phase = "ending" /\ phase' = "gone" /\ configs' = configs \ {config}
        /\ UNCHANGED <<aux, config, made, signCf, curveCf>>
    BY <1>8 DEF DestroyEnd
  <2> QED
    BY <2>1 DEF ConfInv, HasKey
<1> QED
  BY <1>1, <1>2, <1>3, <1>4, <1>5, <1>6, <1>7, <1>8 DEF Next

LEMMA UseStep == IInv /\ MemInv /\ [Next]_vars => UseInv'
<1> SUFFICES ASSUME IInv, MemInv, [Next]_vars PROVE UseInv'
  OBVIOUS
<1> USE DEF MemInv, auxVars, callVars
<1>1. CASE pc' \in {"idle", "init"}
  BY <1>1 DEF UseInv
<1>2. CASE \/ Create \/ Configure \/ SetConfig \/ AuxSet \/ AuxClear \/ Wrap \/ Unwrap
           \/ Destroy \/ DestroyItem \/ DestroyEnd \/ MechSign \/ Accept
  <2>1. pc' \in {"idle", "init"} \/ UNCHANGED <<pc, call, aux>>
    BY <1>2 DEF Create, Configure, SetConfig, Replace, AuxSet, AuxClear, Wrap, Unwrap, Destroy,
                DestroyItem, DestroyEnd, MechSign, Accept, Ready, EndCall, IInv,
                CallInv
  <2> QED
    BY <1>1, <2>1 DEF UseInv, HasKey
<1>3. CASE TouchFreed \/ UNCHANGED vars
  <2>1. UNCHANGED <<pc, call, aux>>
    BY <1>3 DEF TouchFreed, vars
  <2> QED
    BY <2>1 DEF UseInv, HasKey
<1>4. CASE \/ SignFound \/ ChooseMech \/ HeaderDecode \/ MechAllowed \/ PayloadDecode
           \/ MechVerify
  <2>1. /\ UNCHANGED aux /\ HasKey(aux, "sign")
        /\ pc' \in {"idle", "choose", "header", "mech", "allowed", "payload", "accepted"}
    BY <1>4 DEF SignFound, ChooseMech, HeaderDecode, MechAllowed, PayloadDecode, MechVerify,
                At, Initialised, EndCall, UseInv, Has, HasKey
  <2> QED
    BY <2>1 DEF UseInv, HasKey
<1>5. CASE MechReady
  <2>1. /\ UNCHANGED <<aux, call>> /\ HasKey(aux, "sign")
        /\ call.mech = "none" \/ HasKey(aux, call.mech)
    BY <1>5 DEF MechReady, At, UseInv, Has, HasKey
  <2>2. \A k : HasKey(aux, k)' <=> HasKey(aux, k)
    BY <2>1 DEF HasKey
  <2> QED
    BY <2>1, <2>2 DEF UseInv
<1>6. CASE Prep \/ Encode
  <2>1. /\ UNCHANGED aux /\ pc \in {"prep", "encode"}
        /\ EndCall \/ (UNCHANGED call /\ pc' \in {"encode", "sign"})
    BY <1>6 DEF Prep, Encode, At
  <2>2. \A k : HasKey(aux, k)' <=> HasKey(aux, k)
    BY <2>1 DEF HasKey
  <2>3. CASE EndCall
    BY <1>1, <2>3 DEF EndCall
  <2>4. CASE UNCHANGED call
    BY <2>1, <2>2, <2>4 DEF UseInv
  <2> QED
    BY <2>1, <2>3, <2>4
<1>7. CASE SignInit \/ MungeInit \/ CurveInit
  <2>1. CASE EndCall
    BY <1>1, <2>1 DEF EndCall
  <2>2. CASE ~EndCall
    <3>1. PICK key \in LibData :
            /\ ~Has(key) /\ aux' = AuxInsert(AuxDelete(aux, key), Item(key, key))
            /\ UNCHANGED call
            /\ \/ key = "sign" /\ pc' \in {"choose", "header"}
               \/ key = call.mech /\ key # "sign" /\ HasKey(aux, "sign")
      <4>1. CASE SignInit
        BY <2>2, <4>1 DEF SignInit, LibData, Initialised
      <4>2. CASE MungeInit
        BY <2>2, <4>2 DEF MungeInit, LibData, At, UseInv
      <4>3. CASE CurveInit
        BY <2>2, <4>3 DEF CurveInit, LibData, At, UseInv
      <4> QED
        BY <1>7, <4>1, <4>2, <4>3
    <3>2. key = "sign" => ~HasKey(aux, "curve")
      BY <3>1 DEF ConfInv, Has, HasKey
    <3>3. \A k : HasKey(aux, k)' <=> k = key \/ HasKey(aux, k)
      BY <3>1, <3>2, LibInserted
    <3> QED
      BY <3>1, <3>3 DEF UseInv
  <2> QED
    BY <2>1, <2>2
<1> QED
  BY <1>2, <1>3, <1>4, <1>5, <1>6, <1>7 DEF Next

\* What is freed and used is the configuration that was replaced, or munge's state.
LEMMA FaultStep == IInv /\ MemInv /\ [Next]_vars => FaultInv'
<1> SUFFICES ASSUME IInv, MemInv, [Next]_vars PROVE FaultInv'
  OBVIOUS
<1> USE DEF MemInv, auxVars, confVars, signVars
<1>1. ListInv(aux)
  BY DEF HeapInv
<1>2. CASE TouchFreed
  <2>1. UNCHANGED <<aux, heap, signCf, config>> /\ ~Sound
    BY <1>2 DEF TouchFreed
  <2>2. Reconfigured \/ MungeDangles
    <3>1. CASE ~(ConfigsRead \subseteq configs)
      <4>1. ConfigsRead \subseteq {signCf} /\ pc \notin {"idle", "init"}
        <5>1. pc \in {"prep", "verify"} /\ call.mech = "curve" => curveCf = signCf
          BY DEF UseInv, ConfInv
        <5> QED
          BY <3>1, <5>1 DEF ConfigsRead
      <4>2. phase # "gone"
        BY <4>1 DEF IInv, CallInv
      <4>3. HasKey(aux, "sign") /\ signCf # 0 /\ configs = {config} \ {0}
        BY <4>1, <4>2 DEF UseInv, ConfInv
      <4> QED
        BY <3>1, <4>1, <4>3 DEF Reconfigured, Has, HasKey
    <3>2. CASE ~(StateUsed \subseteq heap)
      <4>1. call.mech \in {"munge", "curve"} /\ call.mech \notin heap
            /\ pc \in {"prep", "sign", "verify"}
        BY <3>2 DEF StateUsed, IInv, CallInv, Mechs
      <4>2. HasKey(aux, call.mech)
        BY <4>1 DEF UseInv
      <4>3. call.mech \in Vals(aux)
        BY <1>1, <4>1, <4>2, KeysAndVals DEF LibData
      <4>4. call.mech = "munge"
        BY <4>1, <4>3 DEF HeapInv, Cached
      <4> QED
        BY <4>1, <4>2, <4>4 DEF MungeDangles, Has, HasKey
    <3> QED
      BY <2>1, <3>1, <3>2 DEF Sound
  <2> QED
    BY <2>1, <2>2 DEF FaultInv, Reconfigured, MungeDangles, Has
<1>3. CASE DestroyItem
  <2>1. CASE fault' = "none"
    BY <2>1 DEF FaultInv
  <2>2. CASE fault' # "none"
    <3>1. aux # <<>> /\ Head(aux).val \notin heap /\ UNCHANGED <<aux, heap>>
      BY <1>3, <2>2 DEF DestroyItem
    <3>2. Head(aux).val \in Vals(aux) /\ Vals(aux) \subseteq LibData \cup UserData
      BY <1>1, <3>1, TailOfList, KeysAndVals
    <3>3. Head(aux).val = "munge"
      BY <3>1, <3>2, ContextAssumption DEF HeapInv, LibData, Cached
    <3>4. Has("munge")
      BY <1>1, <3>2, <3>3, KeysAndVals DEF LibData
    <3> QED
      BY <3>1, <3>3, <3>4 DEF FaultInv, MungeDangles, Has
  <2> QED
    BY <2>1, <2>2
<1>4. CASE Create \/ UNCHANGED vars
  <2>1. UNCHANGED <<aux, heap, signCf, config, fault>>
    BY <1>4 DEF Create, vars
  <2> QED
    BY <2>1 DEF FaultInv, Reconfigured, MungeDangles, Has
<1>5. CASE \/ Configure \/ SetConfig \/ AuxSet \/ AuxClear \/ Wrap \/ Unwrap \/ SignInit
           \/ SignFound \/ ChooseMech \/ HeaderDecode \/ MechAllowed \/ PayloadDecode
           \/ MechReady \/ MungeInit \/ CurveInit \/ Prep \/ Encode \/ MechSign
           \/ MechVerify \/ Accept \/ Destroy \/ DestroyEnd
  <2>1. fault' = "none"
    BY <1>5 DEF Configure, SetConfig, Replace, AuxSet, AuxClear, Wrap, Unwrap, SignInit,
                SignFound, ChooseMech, HeaderDecode, MechAllowed, PayloadDecode, MechReady,
                MungeInit, CurveInit, Prep, Encode, MechSign, MechVerify,
                Accept, Destroy, DestroyEnd, Ready, At
  <2> QED
    BY <2>1 DEF FaultInv
<1> QED
  BY <1>2, <1>3, <1>4, <1>5 DEF Next

\* As long as the configuration was not replaced behind the signing library's back and
\* munge's op_init has not failed, nothing that was freed is used or freed again, what
\* the context lists is what is allocated, and its end frees all.
THEOREM MemoryStaysSound == Spec => []MemoryIsSound
<1>1. MemInv => MemoryIsSound
  <2> SUFFICES ASSUME MemInv, ~Reconfigured, ~MungeDangles
               PROVE  /\ fault = "none"
                      /\ heap \ Cached = Listed
                      /\ heap \cap Cached # {} => "curve" \in heap
                      /\ configs = {config} \ {0} \/ phase = "gone"
                      /\ Has("sign") => signCf \in configs
                      /\ Has("curve") => curveCf = signCf /\ Has("sign")
                      /\ phase = "gone" => heap = {} /\ configs = {}
    BY DEF MemoryIsSound
  <2> USE DEF MemInv
  <2>1. ListInv(aux)
    BY DEF HeapInv
  <2>2. /\ Listed = Vals(aux)
        /\ \A k : Has(k) <=> HasKey(aux, k)
        /\ Vals(aux) \subseteq LibData \cup UserData
        /\ \A k \in LibData : HasKey(aux, k) <=> k \in Vals(aux)
    BY <2>1, KeysAndVals
  <2>3. fault = "none"
    BY DEF FaultInv
  <2>4. heap \ Cached = Listed
    <3>1. "munge" \in Vals(aux) => "munge" \in heap
      BY <2>2 DEF MungeDangles, LibData
    <3>2. Vals(aux) \cap Cached = {}
      BY <2>2, ContextAssumption DEF LibData, Cached
    <3> QED
      BY <2>2, <3>1, <3>2 DEF HeapInv
  <2>5. heap \cap Cached # {} => "curve" \in heap
    BY DEF HeapInv
  <2>6. configs = {config} \ {0} \/ phase = "gone"
    BY DEF ConfInv
  <2>7. Has("sign") => signCf \in configs
    <3> SUFFICES ASSUME Has("sign") PROVE signCf \in configs
      OBVIOUS
    <3>1. phase # "gone"
      BY DEF HeapInv, Has
    <3> QED
      BY <2>2, <3>1 DEF ConfInv, Reconfigured
  <2>8. Has("curve") => curveCf = signCf /\ Has("sign")
    BY <2>2 DEF ConfInv
  <2>9. phase = "gone" => heap = {} /\ configs = {}
    <3> SUFFICES ASSUME phase = "gone" PROVE heap = {} /\ configs = {}
      OBVIOUS
    <3>1. Vals(aux) = {} /\ configs = {}
      BY DEF HeapInv, ConfInv, Vals
    <3>2. heap \subseteq Cached /\ "curve" \notin heap
      BY <2>2, <2>4, <3>1 DEF Cached
    <3> QED
      BY <2>5, <3>1, <3>2
  <2> QED
    BY <2>3, <2>4, <2>5, <2>6, <2>7, <2>8, <2>9
<1>2. IInv /\ MemInv /\ [Next]_vars => MemInv'
  BY HeapStep, ConfStep, UseStep, FaultStep DEF MemInv
<1> QED
  BY Invariance, InitMem, <1>1, <1>2, PTL DEF Spec
-----------------------------------------------------------------------------
(* Types.                                                                  *)

BoundInv ==
  /\ phase \in {"none", "live", "ending", "gone"} /\ flags \in {"none", "disable", "force"}
  /\ made \in Nat /\ config \in Nat /\ signCf \in Nat /\ curveCf \in Nat /\ calls \in Nat
  /\ made <= MaxConfigs /\ config <= made /\ signCf <= made /\ curveCf <= made
  /\ calls <= MaxCalls
  /\ fault \in {"none", "use-after-free", "double-free"}

HoldInv == buf \in [Bufs -> Buf] /\ given \in [Bufs -> Buf]

LEMMA Maxima == MaxConfigs \in Nat /\ MaxCalls \in Nat
  BY ContextAssumption

LEMMA SizeIsNat == IInv => call.size \in Nat
  BY DEF IInv, CallInv

LEMMA NoBufBound == NoBuf \in Buf
<1>1. 0 \in 0..MaxCalls
  BY ContextAssumption
<1> QED
  BY <1>1 DEF NoBuf, Buf

LEMMA GrowBufBound ==
  ASSUME NEW b \in Buf, NEW need \in Nat, calls \in 0..MaxCalls
  PROVE  GrowBuf(b, need) \in Buf /\ [GrowBuf(b, need) EXCEPT !.holds = calls] \in Buf
  BY DEF GrowBuf, Buf

LEMMA InitBound == Init => BoundInv /\ HoldInv
<1> SUFFICES ASSUME Init PROVE BoundInv /\ HoldInv
  OBVIOUS
<1>1. BoundInv
  BY Maxima DEF Init, BoundInv
<1>2. HoldInv
  BY NoBufBound DEF Init, HoldInv, Bufs
<1> QED
  BY <1>1, <1>2

LEMMA BoundStep == BoundInv /\ [Next]_vars => BoundInv'
<1> SUFFICES ASSUME BoundInv, [Next]_vars PROVE BoundInv'
  OBVIOUS
<1> USE Maxima DEF BoundInv, confVars, signVars, auxVars, callVars
<1>1. CASE UNCHANGED vars
  BY <1>1 DEF vars
<1>2. CASE Create
  BY <1>2 DEF Create
<1>3. CASE Configure \/ SetConfig
  <2>1. /\ made < MaxConfigs /\ config' = made + 1 /\ made' = made + 1
        /\ UNCHANGED <<phase, flags, signCf, curveCf, calls, fault>>
    BY <1>3 DEF Configure, SetConfig, Replace
  <2> QED
    BY <2>1
<1>4. CASE Wrap \/ Unwrap
  <2>1. /\ calls < MaxCalls /\ calls' = calls + 1
        /\ UNCHANGED <<phase, flags, made, config, signCf, curveCf, fault>>
    BY <1>4 DEF Wrap, Unwrap
  <2> QED
    BY <2>1
<1>5. CASE PayloadDecode \/ Encode \/ MechSign \/ Accept
  BY <1>5 DEF PayloadDecode, Encode, MechSign, Accept
<1>6. CASE SignInit \/ CurveInit
  <2>1. /\ UNCHANGED <<phase, flags, made, config, calls, fault>>
        /\ signCf' \in {signCf, config} /\ curveCf' \in {curveCf, signCf}
    BY <1>6 DEF SignInit, CurveInit
  <2> QED
    BY <2>1
<1>7. CASE \/ AuxSet \/ AuxClear \/ SignFound \/ ChooseMech \/ HeaderDecode \/ MechAllowed
           \/ MechReady \/ MungeInit \/ Prep \/ MechVerify
  BY <1>7 DEF AuxSet, AuxClear, SignFound, ChooseMech, HeaderDecode, MechAllowed, MechReady,
              MungeInit, Prep, MechVerify
<1>8. CASE Destroy \/ TouchFreed \/ DestroyItem \/ DestroyEnd
  BY <1>8 DEF Destroy, TouchFreed, DestroyItem, DestroyEnd
<1> QED
  BY <1>1, <1>2, <1>3, <1>4, <1>5, <1>6, <1>7, <1>8 DEF Next

LEMMA HoldStep == IInv /\ BoundInv /\ HoldInv /\ [Next]_vars => HoldInv'
<1> SUFFICES ASSUME IInv, BoundInv, HoldInv, [Next]_vars PROVE HoldInv'
  OBVIOUS
<1>1. call.size \in Nat /\ call.size + 1 \in Nat /\ call.size + 2 \in Nat
  BY SizeIsNat
<1>2. calls \in 0..MaxCalls
  BY Maxima DEF BoundInv
<1>3. DecodeTo \in Bufs /\ "wrap" \in Bufs /\ "unwrap" \in Bufs
  BY DEF DecodeTo, Bufs
<1> DEFINE Typed(f) == f \in [Bufs -> Buf]
<1>4. Typed(buf) /\ Typed(given)
  BY DEF HoldInv
<1>5. \A f, b : \A w \in Bufs : Typed(f) /\ b \in Buf => Typed([f EXCEPT ![w] = b])
  OBVIOUS
<1>6. \A w \in Bufs : buf[w] \in Buf
  BY <1>4
<1>7. SUFFICES Typed(buf') /\ Typed(given')
  BY DEF HoldInv, Bufs, Buf
<1> HIDE DEF Typed
<1>8. CASE Wrap \/ Unwrap
  <2>1. PICK w \in Bufs : given' = [given EXCEPT ![w] = NoBuf] /\ buf' = buf
    BY <1>3, <1>8 DEF Wrap, Unwrap, signVars
  <2> QED
    BY <1>4, <1>5, <2>1, NoBufBound
<1>9. CASE PayloadDecode
  <2>1. [GrowBuf(buf[DecodeTo], call.size) EXCEPT !.holds = calls] \in Buf
    BY <1>1, <1>2, <1>3, <1>6, GrowBufBound
  <2> QED
    BY <1>3, <1>4, <1>5, <1>9, <2>1 DEF PayloadDecode
<1>10. CASE Encode
  <2>1. [GrowBuf(buf["wrap"], call.size + 1) EXCEPT !.holds = calls] \in Buf
    BY <1>1, <1>2, <1>3, <1>6, GrowBufBound
  <2> QED
    BY <1>3, <1>4, <1>5, <1>10, <2>1 DEF Encode
<1>11. CASE MechSign
  <2>1. GrowBuf(buf["wrap"], call.size + 2) \in Buf
    BY <1>1, <1>2, <1>3, <1>6, GrowBufBound
  <2> QED
    BY <1>3, <1>4, <1>5, <1>11, <2>1 DEF MechSign
<1>12. CASE Accept
  BY <1>3, <1>4, <1>5, <1>6, <1>12, NoBufBound DEF Accept, signVars
<1>13. CASE Destroy
  <2>1. Typed([wrap |-> NoBuf, unwrap |-> NoBuf])
    BY NoBufBound DEF Typed, Bufs
  <2> QED
    BY <1>4, <1>13, <2>1 DEF Destroy, signVars
<1>14. CASE \/ Create \/ Configure \/ SetConfig \/ AuxSet \/ AuxClear \/ SignInit \/ SignFound
            \/ ChooseMech \/ HeaderDecode \/ MechAllowed \/ MechReady \/ MungeInit
            \/ CurveInit \/ Prep \/ MechVerify \/ TouchFreed \/ DestroyItem
            \/ DestroyEnd \/ UNCHANGED vars
  <2>1. UNCHANGED <<buf, given>>
    BY <1>14 DEF Create, Configure, SetConfig, Replace, AuxSet, AuxClear, SignInit, SignFound,
                 ChooseMech, HeaderDecode, MechAllowed, MechReady, MungeInit, CurveInit, Prep,
                 MechVerify, TouchFreed, DestroyItem, DestroyEnd, vars,
                 signVars, callVars
  <2> QED
    BY <1>4, <2>1
<1> QED
  BY <1>8, <1>9, <1>10, <1>11, <1>12, <1>13, <1>14 DEF Next

\* Every variable of a context has its type, whatever the program calls.
THEOREM TypeCorrect == Spec => []TypeOK
<1>1. IInv /\ MemInv /\ BoundInv /\ HoldInv => TypeOK
  <2> SUFFICES ASSUME IInv, MemInv, BoundInv, HoldInv PROVE TypeOK
    OBVIOUS
  <2>1. ListInv(aux) /\ Vals(aux) \subseteq LibData \cup UserData
    BY KeysAndVals DEF MemInv, HeapInv
  <2>2. aux \in Seq([key: LibData \cup UserKeys \cup {NoKey}, val: LibData \cup UserData])
    <3> DEFINE All == [key: LibData \cup UserKeys \cup {NoKey}, val: LibData \cup UserData]
    <3>1. Items \subseteq All
      BY DEF Items
    <3>2. aux \in Seq(Items)
      BY <2>1 DEF ListInv
    <3>3. \A n \in 1..Len(aux) : aux[n] \in All
      <4> HIDE DEF All
      <4> QED
        BY <3>1, <3>2
    <3> HIDE DEF All
    <3>4. aux \in Seq(All)
      BY <3>2, <3>3
    <3> QED
      BY <3>4 DEF All
  <2>3. heap \subseteq LibData \cup Cached \cup UserData
    <3>1. "munge" \in LibData
      BY DEF LibData
    <3> QED
      BY <2>1, <3>1 DEF MemInv, HeapInv
  <2>4. configs \subseteq 1..made
    BY DEF MemInv, ConfInv, BoundInv
  <2>5. /\ made \in 0..MaxConfigs /\ config \in 0..made
        /\ signCf \in 0..made /\ curveCf \in 0..made /\ calls \in 0..MaxCalls
    BY Maxima DEF BoundInv
  <2> QED
    BY <2>1, <2>2, <2>3, <2>4, <2>5
       DEF TypeOK, ListInv, BoundInv, HoldInv, Bufs, IInv, CallInv
<1>2. IInv /\ MemInv /\ [Next]_vars => MemInv'
  BY HeapStep, ConfStep, UseStep, FaultStep DEF MemInv
<1> QED
  BY Invariance, InitMem, InitBound, BoundStep, HoldStep, <1>1, <1>2, PTL DEF Spec
-----------------------------------------------------------------------------
(* Configuration.                                                          *)

\* What cf_update_glob has when n of the files have been read, given that.
AfterStep(cf, found, after, n) ==
  IF n = 0 THEN [ok |-> found.rc = "found", cf |-> cf]
  ELSE LET before == after[n - 1]
           file == found.files[n]
       IN IF before.ok /\ FileTaken(before.cf, file)
          THEN [ok |-> TRUE, cf |-> Update(before.cf, file.table)]
          ELSE [ok |-> FALSE, cf |-> cf]

IsAfter(cf, found, N, after) == after = [n \in 0..N |-> AfterStep(cf, found, after, n)]

\* The recursive function of UpdateGlob is there.
LEMMA AfterExists ==
  ASSUME NEW cf, NEW found
  PROVE  \A N \in Nat : \E after : IsAfter(cf, found, N, after)
<1> DEFINE T == {N \in Nat : \E after : IsAfter(cf, found, N, after)}
<1>1. 0 \in T
  <2>1. IsAfter(cf, found, 0, [n \in 0..0 |-> [ok |-> found.rc = "found", cf |-> cf]])
    BY DEF IsAfter, AfterStep
  <2> QED
    BY <2>1
<1>2. ASSUME NEW N \in Nat, N \in T PROVE N + 1 \in T
  <2>1. PICK g : IsAfter(cf, found, N, g)
    BY <1>2
  <2> DEFINE h == [n \in 0..(N + 1) |-> IF n <= N THEN g[n] ELSE AfterStep(cf, found, g, N + 1)]
  <2>2. \A n \in 0..(N + 1) : h[n] = AfterStep(cf, found, h, n)
    <3> SUFFICES ASSUME NEW n \in 0..(N + 1) PROVE h[n] = AfterStep(cf, found, h, n)
      OBVIOUS
    <3>1. h[n] = AfterStep(cf, found, g, n)
      BY <2>1 DEF IsAfter
    <3>2. n # 0 => n - 1 \in 0..(N + 1) /\ n - 1 <= N /\ h[n - 1] = g[n - 1]
      OBVIOUS
    <3> HIDE DEF h
    <3> QED
      BY <3>1, <3>2 DEF AfterStep
  <2>3. IsAfter(cf, found, N + 1, h)
    BY <2>2 DEF IsAfter
  <2> QED
    BY <2>3
<1>3. Nat \subseteq T
  <2> HIDE DEF T
  <2> QED
    BY <1>1, <1>2, Induction
<1> QED
  BY <1>3

LEMMA UpdateGlobAfter ==
  ASSUME NEW cf, NEW found, Len(found.files) \in Nat
  PROVE  \E after : /\ IsAfter(cf, found, Len(found.files), after)
                    /\ UpdateGlob(cf, found) =
                         [count |-> IF after[Len(found.files)].ok THEN Len(found.files) ELSE 0,
                          cf |-> after[Len(found.files)].cf]
<1> DEFINE after == CHOOSE g : IsAfter(cf, found, Len(found.files), g)
<1>1. IsAfter(cf, found, Len(found.files), after)
  BY AfterExists
<1>2. UpdateGlob(cf, found) =
        [count |-> IF after[Len(found.files)].ok THEN Len(found.files) ELSE 0,
         cf |-> after[Len(found.files)].cf]
  BY DEF UpdateGlob, IsAfter, AfterStep
<1> QED
  BY <1>1, <1>2
\* What the last of the first upto files to name a key says, or base if none does.
NamingIn(files, k, upto) == {i \in 1..upto : k \in DOMAIN files[i].table}
SaidLast(base, files, k, is) ==
  IF is = {} THEN GetIn(base, k)
  ELSE files[CHOOSE i \in is : \A j \in is : j <= i].table[k]
SaidIn(base, files, k, upto) == SaidLast(base, files, k, NamingIn(files, k, upto))

LEMMA SaidFirst ==
  ASSUME NEW base, NEW files, NEW k
  PROVE  SaidIn(base, files, k, 0) = GetIn(base, k)
<1>1. NamingIn(files, k, 0) = {}
  BY DEF NamingIn
<1> QED
  BY <1>1 DEF SaidIn, SaidLast

LEMMA SaidNext ==
  ASSUME NEW base, NEW files, NEW k, NEW n \in Nat
  PROVE  SaidIn(base, files, k, n + 1) =
           IF k \in DOMAIN files[n + 1].table THEN files[n + 1].table[k]
           ELSE SaidIn(base, files, k, n)
<1>1. CASE k \in DOMAIN files[n + 1].table
  <2> DEFINE is == NamingIn(files, k, n + 1)
  <2>1. n + 1 \in is /\ is \subseteq 1..(n + 1)
    BY <1>1 DEF NamingIn
  <2>2. \A i \in is : (\A j \in is : j <= i) <=> i = n + 1
    BY <2>1
  <2>3. (CHOOSE i \in is : \A j \in is : j <= i) = n + 1
    <3> HIDE DEF is
    <3> QED
      BY <2>1, <2>2
  <2> QED
    BY <1>1, <2>1, <2>3 DEF SaidIn, SaidLast
<1>2. CASE k \notin DOMAIN files[n + 1].table
  <2>1. NamingIn(files, k, n + 1) = NamingIn(files, k, n)
    BY <1>2 DEF NamingIn
  <2> QED
    BY <1>2, <2>1 DEF SaidIn
<1> QED
  BY <1>1, <1>2

\* What is found out about the first n of the files.
FilesSay(base, files, n, cf) ==
  /\ DOMAIN cf = DOMAIN base \cup UNION {DOMAIN files[i].table : i \in 1..n}
  /\ \A k : GetIn(cf, k) = SaidIn(base, files, k, n)
  /\ \A i \in 1..n :
       /\ files[i].parses
       /\ \/ AsBool(SaidIn(base, files, "enable-path-paranoia", i - 1))
          \/ Euid = 0 /\ ~AsBool(SaidIn(base, files, "disable-path-paranoia", i - 1))
          => PathIsSecure(files[i].path)

LEMMA FilesSayNext ==
  ASSUME NEW base, NEW files, NEW n \in Nat, NEW cf,
         FilesSay(base, files, n, cf), FileTaken(cf, files[n + 1])
  PROVE  FilesSay(base, files, n + 1, Update(cf, files[n + 1].table))
<1> DEFINE table == files[n + 1].table
           new == Update(cf, table)
<1>1. DOMAIN new = DOMAIN cf \cup DOMAIN table
  BY DEF Update
<1>2. 1..(n + 1) = 1..n \cup {n + 1}
  OBVIOUS
<1>3. DOMAIN new = DOMAIN base \cup UNION {DOMAIN files[i].table : i \in 1..(n + 1)}
  <2>1. DOMAIN cf = DOMAIN base \cup UNION {DOMAIN files[i].table : i \in 1..n}
    BY DEF FilesSay
  <2> QED
    BY <1>1, <1>2, <2>1, Zenon
<1>4. \A k : GetIn(new, k) = SaidIn(base, files, k, n + 1)
  <2> SUFFICES ASSUME NEW k PROVE GetIn(new, k) = SaidIn(base, files, k, n + 1)
    OBVIOUS
  <2>1. GetIn(cf, k) = SaidIn(base, files, k, n)
    BY DEF FilesSay
  <2>2. GetIn(new, k) = IF k \in DOMAIN table THEN table[k] ELSE GetIn(cf, k)
    BY DEF GetIn, Update
  <2> QED
    BY <2>1, <2>2, SaidNext
<1>5. ASSUME NEW i \in 1..(n + 1)
      PROVE  /\ files[i].parses
             /\ \/ AsBool(SaidIn(base, files, "enable-path-paranoia", i - 1))
                \/ Euid = 0 /\ ~AsBool(SaidIn(base, files, "disable-path-paranoia", i - 1))
                => PathIsSecure(files[i].path)
  <2>1. CASE i \in 1..n
    BY <2>1 DEF FilesSay
  <2>2. CASE i = n + 1
    <3>1. i - 1 = n
      BY <2>2
    <3>2. \A k : GetIn(cf, k) = SaidIn(base, files, k, n)
      BY DEF FilesSay
    <3> QED
      BY <2>2, <3>1, <3>2 DEF FileTaken, CheckFilePermissions
  <2> QED
    BY <2>1, <2>2
<1> HIDE DEF new, table
<1>6. FilesSay(base, files, n + 1, new)
  BY <1>3, <1>4, <1>5 DEF FilesSay
<1> QED
  BY <1>6 DEF new, table

\* cf_update_glob takes over what the files say, or nothing.
LEMMA UpdateGlobSays ==
  ASSUME NEW cf, NEW found, Len(found.files) \in Nat, UpdateGlob(cf, found).count > 0
  PROVE  /\ Len(found.files) > 0
         /\ FilesSay(cf, found.files, Len(found.files), UpdateGlob(cf, found).cf)
<1> DEFINE N == Len(found.files)
<1>1. PICK after : /\ IsAfter(cf, found, N, after)
                   /\ UpdateGlob(cf, found) = [count |-> IF after[N].ok THEN N ELSE 0,
                                                cf |-> after[N].cf]
  BY UpdateGlobAfter
<1>2. N > 0 /\ after[N].ok
  BY <1>1
<1> DEFINE T == {n \in Nat : after[n].ok => FilesSay(cf, found.files, n, after[n].cf)}
<1>3. \A n \in 0..N : after[n] = AfterStep(cf, found, after, n)
  BY <1>1 DEF IsAfter
<1> HIDE DEF N
<1>4. 0 \in T
  <2>1. 0 \in 0..N
    BY DEF N
  <2>2. AfterStep(cf, found, after, 0).cf = cf
    BY DEF AfterStep
  <2>3. after[0].cf = cf
    BY <1>3, <2>1, <2>2
  <2>4. UNION {DOMAIN found.files[i].table : i \in 1..0} = {}
    OBVIOUS
  <2>5. FilesSay(cf, found.files, 0, cf)
    BY <2>4, SaidFirst DEF FilesSay
  <2> QED
    BY <2>3, <2>5
<1>5. ASSUME NEW n \in 0..(N - 1), n \in T PROVE n + 1 \in T
  <2> SUFFICES ASSUME after[n + 1].ok PROVE FilesSay(cf, found.files, n + 1, after[n + 1].cf)
    OBVIOUS
  <2>1. n + 1 \in 0..N /\ n + 1 # 0 /\ (n + 1) - 1 = n /\ n \in Nat
    BY DEF N
  <2>2. after[n + 1] = AfterStep(cf, found, after, n + 1)
    BY <1>3, <2>1
  <2>3. /\ after[n].ok /\ FileTaken(after[n].cf, found.files[n + 1])
        /\ after[n + 1].cf = Update(after[n].cf, found.files[n + 1].table)
    BY <2>1, <2>2 DEF AfterStep
  <2>4. FilesSay(cf, found.files, n, after[n].cf)
    BY <1>5, <2>3
  <2> QED
    BY <2>1, <2>3, <2>4, FilesSayNext
<1>6. N \in T
  <2>1. N \in Nat
    BY DEF N
  <2> HIDE DEF T
  <2>2. 0..N \subseteq T
    BY <1>4, <1>5, <2>1, InductionTo
  <2> QED
    BY <2>1, <2>2
<1> QED
  BY <1>1, <1>2, <1>6 DEF N
IsItem(x) == x.type = "bool" => x \in [type: {"bool"}, v: BOOLEAN]

\* What base or a file says is an item.
LEMMA SaidIsItem ==
  ASSUME NEW base, NEW files, NEW N \in Nat, NEW k,
         IsTable(base), \A n \in 1..N : IsTable(files[n].table)
  PROVE  \A n \in 0..N : IsItem(SaidIn(base, files, k, n))
<1> DEFINE T == {n \in Nat : IsItem(SaidIn(base, files, k, n))}
<1>1. 0 \in T
  <2>1. IsItem(GetIn(base, k))
    BY DEF IsItem, GetIn, IsTable, Absent
  <2> QED
    BY <2>1, SaidFirst
<1>2. ASSUME NEW n \in 0..(N - 1), n \in T PROVE n + 1 \in T
  <2>1. n \in Nat /\ n + 1 \in 1..N
    OBVIOUS
  <2>2. CASE k \in DOMAIN files[n + 1].table
    <3>1. IsItem(files[n + 1].table[k])
      BY <2>1, <2>2 DEF IsItem, IsTable
    <3> QED
      BY <2>1, <2>2, <3>1, SaidNext
  <2>3. CASE k \notin DOMAIN files[n + 1].table
    BY <1>2, <2>1, <2>3, SaidNext
  <2> QED
    BY <2>2, <2>3
<1> HIDE DEF T
<1>3. 0..N \subseteq T
  BY <1>1, <1>2, InductionTo
<1> QED
  BY <1>3 DEF T

\* The configuration in force was read from files, and that is what they say.
FilesInv ==
  config # 0 =>
    /\ Len(loaded.files) \in Nat \ {0}
    /\ IsTable(loaded.base)
    /\ \A n \in 1..Len(loaded.files) : IsTable(loaded.files[n].table)
    /\ FilesSay(loaded.base, loaded.files, Len(loaded.files), tree)

\* A file that is secure cannot be changed by somebody else.
LEMMA SecureIsNotChangeable ==
  ASSUME NEW p, PathIsSecure(p)
  PROVE  /\ "iwoth" \notin p.mode /\ p.uid \in {0, Euid}
         /\ "iwgrp" \in p.mode => p.gid \in {0, Egid}
         /\ p.dir.uid \in {0, Euid}
         /\ "isvtx" \notin p.dir.mode =>
              /\ "iwoth" \notin p.dir.mode
              /\ "iwgrp" \in p.dir.mode => p.dir.gid \in {0, Egid}
  BY DEF PathIsSecure, ParentDirIsSecure, Trusted

LEMMA FilesAreRight == FilesInv => ConfigIsWhatFilesSay
<1> SUFFICES ASSUME FilesInv, config # 0 PROVE ConfigIsWhatFilesSay
  BY DEF ConfigIsWhatFilesSay
<1> DEFINE n == Len(loaded.files)
           said(k, upto) == SaidIn(loaded.base, loaded.files, k, upto)
           checked(i) == \/ said("enable-path-paranoia", i - 1) = True
                         \/ Euid = 0 /\ said("disable-path-paranoia", i - 1) # True
<1>1. n \in Nat /\ n > 0 /\ FilesSay(loaded.base, loaded.files, n, tree)
  BY DEF FilesInv
<1>2. \A k \in DOMAIN tree : tree[k] = said(k, n)
  BY <1>1 DEF FilesSay, GetIn
<1>3. ASSUME NEW i \in 1..n, checked(i) PROVE PathIsSecure(loaded.files[i].path)
  <2>1. \A k : IsItem(said(k, i - 1))
    <3>1. i - 1 \in 0..n
      BY <1>1
    <3> QED
      BY <1>1, <3>1, SaidIsItem DEF FilesInv
  <2>2. \A x : IsItem(x) /\ AsBool(x) => x = True
    BY DEF IsItem, AsBool, True
  <2>3. AsBool(True)
    BY DEF AsBool, True
  <2>4. \/ AsBool(said("enable-path-paranoia", i - 1))
        \/ Euid = 0 /\ ~AsBool(said("disable-path-paranoia", i - 1))
    BY <1>3, <2>1, <2>2, <2>3
  <2> QED
    BY <1>1, <2>4 DEF FilesSay
<1>4. \A k, upto : said(k, upto) =
        LET is == {i \in 1..upto : k \in DOMAIN loaded.files[i].table} IN
        IF is = {} THEN GetIn(loaded.base, k)
        ELSE loaded.files[CHOOSE i \in is : \A j \in is : j <= i].table[k]
  BY DEF SaidIn, SaidLast, NamingIn
<1>5. DOMAIN tree = DOMAIN loaded.base \cup UNION {DOMAIN loaded.files[i].table : i \in 1..n}
  BY <1>1 DEF FilesSay
<1>6. \A i \in 1..n : loaded.files[i].parses
  BY <1>1 DEF FilesSay
<1>7. \A i \in 1..n : checked(i) => PathIsSecure(loaded.files[i].path)
  BY <1>3
<1> HIDE DEF said
<1> QED
  BY <1>1, <1>2, <1>4, <1>5, <1>6, <1>7, SecureIsNotChangeable DEF ConfigIsWhatFilesSay
\* A table takes the place of the configuration only as a whole.
LEMMA ReplaceStep ==
  ASSUME NEW base, IsTable(base), NEW found \in Patterns \cup ImpPatterns,
         Replace(base, found)
  PROVE  FilesInv'
<1>1. Len(found.files) \in Nat /\ \A n \in 1..Len(found.files) : IsTable(found.files[n].table)
  BY FilesAssumption
<1>2. /\ UpdateGlob(base, found).count > 0
      /\ tree' = UpdateGlob(base, found).cf
      /\ loaded' = [base |-> base, files |-> found.files]
  BY DEF Replace
<1>3. Len(found.files) > 0 /\ FilesSay(base, found.files, Len(found.files), tree')
  BY <1>1, <1>2, UpdateGlobSays
<1>4. loaded'.base = base /\ loaded'.files = found.files
  BY <1>2
<1>5. /\ Len(loaded'.files) \in Nat \ {0}
      /\ IsTable(loaded'.base)
      /\ \A n \in 1..Len(loaded'.files) : IsTable(loaded'.files[n].table)
      /\ FilesSay(loaded'.base, loaded'.files, Len(loaded'.files), tree')
  BY <1>1, <1>3, <1>4
<1> QED
  BY <1>5 DEF FilesInv

LEMMA FilesStep == FilesInv /\ [Next]_vars => FilesInv'
<1> SUFFICES ASSUME FilesInv, [Next]_vars PROVE FilesInv'
  OBVIOUS
<1>1. CASE Configure
  <2>1. IsTable(FlagsTable)
    BY DEF FlagsTable, IsTable, True, EmptyTable
  <2> QED
    BY <1>1, <2>1, ReplaceStep DEF Configure
<1>2. CASE SetConfig
  <2>1. IsTable(EmptyTable)
    BY DEF IsTable, EmptyTable
  <2> QED
    BY <1>2, <2>1, ReplaceStep DEF SetConfig
<1>3. CASE ~Configure /\ ~SetConfig
  <2>1. UNCHANGED <<config, tree, loaded>>
    BY <1>3 DEF Next, vars, confVars, Create, AuxSet, AuxClear, Wrap, Unwrap, SignInit,
                SignFound, ChooseMech, HeaderDecode, MechAllowed, PayloadDecode, MechReady,
                MungeInit, CurveInit, Prep, Encode, MechSign, MechVerify, Accept,
                TouchFreed, Destroy, DestroyItem, DestroyEnd
  <2> QED
    BY <2>1 DEF FilesInv
<1> QED
  BY <1>1, <1>2, <1>3

\* However the files that glob(3) finds are placed, owned and written, and however many
\* there are: the configuration in force is what the last of them to name a key says, and
\* none of those that had to be checked can be changed or replaced by somebody else.
THEOREM ConfigFollowsFiles == Spec => []ConfigIsWhatFilesSay
<1>1. Init => FilesInv
  BY DEF Init, FilesInv
<1> QED
  BY <1>1, FilesStep, FilesAreRight, PTL DEF Spec
=============================================================================
