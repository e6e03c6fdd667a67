--------------------------- MODULE SigcertProofs ---------------------------
(* Proof of what Sigcert says about the memory of encodings, for any number *)
(* of certificates, key pairs and uses.                                    *)
EXTENDS Sigcert, DataProofs

\* A certificate is a record of these fields.
Certificate(c) ==
  c = [key |-> c.key, secret |-> c.secret, sig |-> c.sig, meta |-> c.meta, enc |-> c.enc]

\* Encodings are numbered as they are made, only a certificate that is there has
\* one, and nothing has gone wrong when a store is under way.
EncodingsNumbered ==
  /\ encoded \in Nat /\ shared \in BOOLEAN
  /\ mem = [s \in Slots |-> mem[s]]
  /\ \A s \in Slots :
       /\ Certificate(mem[s])
       /\ mem[s].enc \in Nat /\ mem[s].enc <= encoded
       /\ Held(s) \/ mem[s].enc = 0
  /\ storer.pc # "idle" => ~fault

Owned ==
  /\ ~fault
  /\ encs = {mem[s].enc : s \in Slots} \ {0}
  /\ \A s, t \in Slots : mem[s].enc = mem[t].enc /\ mem[s].enc # 0 => s = t

IInv == EncodingsNumbered /\ (~shared => Owned)

-----------------------------------------------------------------------------
(* The invariant holds initially and every step preserves it.              *)

\* The one that stands for none has no encoding.
LEMMA NoCertificate == Certificate(NoCert) /\ NoCert.enc = 0
  BY DEF Certificate, NoCert

LEMMA InitIInv == Init => IInv
<1> SUFFICES ASSUME Init PROVE IInv
  OBVIOUS
<1>1. /\ mem = [s \in Slots |-> NoCert] /\ storer.pc = "idle"
      /\ encoded = 0 /\ shared = FALSE
  BY DEF Init, Idle
<1>2. \A s \in Slots : mem[s] = NoCert
  BY <1>1
<1>3. EncodingsNumbered
  <2>1. \A s \in Slots : Certificate(mem[s]) /\ mem[s].enc = 0
    BY <1>2, NoCertificate DEF Certificate
  <2>2. mem = [s \in Slots |-> mem[s]]
    BY <1>1, <1>2
  <2> QED
    <3>1. \A s \in Slots : mem[s].enc \in Nat /\ mem[s].enc <= encoded
      BY <1>1, <2>1
    <3> QED
      BY <1>1, <2>1, <2>2, <3>1, Zenon DEF EncodingsNumbered
<1>4. Owned
  BY <1>2, NoCertificate DEF Init, Owned
<1> QED
  BY <1>3, <1>4 DEF IInv

\* Steps that leave every encoding where it is.
LEMMA EncodingsRest ==
  ASSUME IInv, UNCHANGED <<encs, encoded, fault, shared>>,
         mem' = [s \in Slots |-> mem'[s]],
         \A s \in Slots : /\ Certificate(mem'[s]) /\ mem'[s].enc = mem[s].enc
                          /\ mem'[s].key # NoKey \/ mem'[s].enc = 0,
         storer'.pc # "idle" => ~fault
  PROVE  IInv'
<1>1. EncodingsNumbered'
  BY DEF IInv, EncodingsNumbered, Held
<1>2. {mem'[s].enc : s \in Slots} = {mem[s].enc : s \in Slots}
  OBVIOUS
<1>3. ~shared' => Owned'
  BY <1>2 DEF IInv, Owned
<1> QED
  BY <1>1, <1>3 DEF IInv

\* Making, signing and editing certificates and taking them out of headers.
LEMMA EditStep ==
  ASSUME IInv, NEW s \in Slots, NEW t \in Slots,
         Create(s) \/ ForgetSecret(s) \/ MetaSet(s) \/ SignCert(s, t) \/ HeaderGetCert(s)
  PROVE  IInv'
<1>1. UNCHANGED <<encs, encoded, fault, shared, storer>>
  BY DEF Create, ForgetSecret, MetaSet, SignCert, HeaderGetCert, fileVars
<1> DEFINE Edited(r, c) == /\ mem' = [mem EXCEPT ![r] = c]
                           /\ Certificate(c)
                           /\ c.enc = mem[r].enc
                           /\ c.key # NoKey \/ c.enc = 0
<1> USE DEF Certificate
<1>2. PICK r, c : r \in Slots /\ Edited(r, c)
  <2>1. CASE Create(s)
    <3>1. PICK k, m : mem' = [mem EXCEPT ![s] = [key |-> k, secret |-> k, sig |-> NoSig,
                                                 meta |-> m, enc |-> 0]]
      BY <2>1 DEF Create
    <3> DEFINE c == [key |-> k, secret |-> k, sig |-> NoSig, meta |-> m, enc |-> 0]
    <3>2. mem[s].enc = 0
      BY <2>1 DEF Create, IInv, EncodingsNumbered
    <3>3. Certificate(c) /\ c.enc = 0
      OBVIOUS
    <3>4. Edited(s, c)
      BY <3>1, <3>2, <3>3
    <3> QED
      BY <3>4
  <2>2. CASE ForgetSecret(s)
    <3> DEFINE c == [mem[s] EXCEPT !.secret = NoKey]
    <3>1. Certificate(mem[s]) /\ (Held(s) \/ mem[s].enc = 0)
      BY DEF IInv, EncodingsNumbered
    <3>2. Certificate(c) /\ c.enc = mem[s].enc /\ c.key = mem[s].key
      BY <3>1
    <3>3. mem' = [mem EXCEPT ![s] = c]
      BY <2>2 DEF ForgetSecret
    <3>4. Edited(s, c)
      BY <3>1, <3>2, <3>3 DEF Held
    <3> QED
      BY <3>4
  <2>3. CASE MetaSet(s)
    <3>1. PICK m : mem' = [mem EXCEPT ![s].meta = KvPut(mem[s].meta, m.key, m.type, m.val)]
      BY <2>3 DEF MetaSet
    <3> DEFINE c == [mem[s] EXCEPT !.meta = KvPut(mem[s].meta, m.key, m.type, m.val)]
    <3>2. Certificate(mem[s]) /\ (Held(s) \/ mem[s].enc = 0)
      BY DEF IInv, EncodingsNumbered
    <3>3. Certificate(c) /\ c.enc = mem[s].enc /\ c.key = mem[s].key
      BY <3>2
    <3>4. mem' = [mem EXCEPT ![s] = c]
      BY <3>1
    <3>5. Edited(s, c)
      BY <3>2, <3>3, <3>4 DEF Held
    <3> QED
      BY <3>5
  <2>4. CASE SignCert(s, t)
    <3>1. PICK g : mem' = [mem EXCEPT ![t].sig = g]
      BY <2>4 DEF SignCert
    <3> DEFINE c == [mem[t] EXCEPT !.sig = g]
    <3>2. Certificate(mem[t]) /\ (Held(t) \/ mem[t].enc = 0)
      BY DEF IInv, EncodingsNumbered
    <3>3. Certificate(c) /\ c.enc = mem[t].enc /\ c.key = mem[t].key
      BY <3>2
    <3>4. mem' = [mem EXCEPT ![t] = c]
      BY <3>1
    <3>5. Edited(t, c)
      BY <3>2, <3>3, <3>4 DEF Held
    <3> QED
      BY <3>5
  <2>5. CASE HeaderGetCert(s)
    <3> DEFINE c == Decoded(KvSplit(header, CertPrefix))
    <3>1. mem[s].enc = 0
      BY <2>5 DEF HeaderGetCert, IInv, EncodingsNumbered
    <3>2. Certificate(c) /\ c.enc = 0
      <4>1. PICK k, g, m : c = [NoCert EXCEPT !.meta = m, !.key = k, !.sig = g]
        BY DEF Decoded
      <4>2. c = [key |-> k, secret |-> NoKey, sig |-> g, meta |-> m, enc |-> 0]
        BY <4>1 DEF NoCert
      <4> HIDE DEF c
      <4> QED
        BY <4>2
    <3>3. mem' = [mem EXCEPT ![s] = c]
      BY <2>5 DEF HeaderGetCert
    <3>4. Edited(s, c)
      BY <3>1, <3>2, <3>3
    <3> QED
      BY <3>4
  <2> QED
    BY <2>1, <2>2, <2>3, <2>4, <2>5
<1>3. /\ mem' = [u \in Slots |-> mem'[u]]
      /\ \A u \in Slots : /\ Certificate(mem'[u]) /\ mem'[u].enc = mem[u].enc
                          /\ mem'[u].key # NoKey \/ mem'[u].enc = 0
  BY <1>2 DEF IInv, EncodingsNumbered, Held
<1>4. storer'.pc # "idle" => ~fault
  BY <1>1 DEF IInv, EncodingsNumbered
<1> QED
  BY <1>1, <1>3, <1>4, EncodingsRest

\* A copy of a certificate with an encoding is not covered any more.
LEMMA CopyStep ==
  ASSUME IInv, NEW s \in Slots, NEW t \in Slots, Copy(s, t)
  PROVE  IInv'
<1>1. /\ mem' = [mem EXCEPT ![t] = mem[s]] /\ UNCHANGED <<encs, encoded, fault, storer>>
      /\ shared' = (shared \/ mem[s].enc # 0)
  BY DEF Copy, fileVars
<1>2. Held(s) /\ mem[t].enc = 0
  BY DEF Copy, IInv, EncodingsNumbered
<1>3. EncodingsNumbered'
  BY <1>1, <1>2 DEF IInv, EncodingsNumbered, Held
<1>4. CASE mem[s].enc = 0
  <2>1. UNCHANGED shared
    BY <1>4 DEF Copy, IInv, EncodingsNumbered
  <2>2. \A u \in Slots : mem'[u].enc = mem[u].enc
    BY <1>1, <1>2, <1>4 DEF IInv, EncodingsNumbered
  <2>3. {mem'[u].enc : u \in Slots} = {mem[u].enc : u \in Slots}
    BY <2>2
  <2> QED
    BY <1>1, <1>3, <2>1, <2>2, <2>3 DEF IInv, Owned
<1>5. CASE mem[s].enc # 0
  BY <1>3, <1>5 DEF Copy, IInv
<1> QED
  BY <1>4, <1>5

\* A certificate's end frees its encoding and no other.
LEMMA DestroyStep ==
  ASSUME IInv, NEW s \in Slots, Destroy(s)
  PROVE  IInv'
<1>1. /\ mem' = [mem EXCEPT ![s] = NoCert]
      /\ encs' = encs \ {mem[s].enc}
      /\ fault' = (mem[s].enc \notin encs \cup {0})
      /\ UNCHANGED <<encoded, shared, storer>> /\ storer.pc = "idle"
  BY DEF Destroy, fileVars, Ready
<1>2. /\ \A u \in Slots : u # s => mem'[u] = mem[u]
      /\ mem'[s] = NoCert
  BY <1>1 DEF IInv, EncodingsNumbered
<1>3. EncodingsNumbered'
  BY <1>1, <1>2 DEF IInv, EncodingsNumbered, Certificate, NoCert, Held
<1>4. ASSUME ~shared PROVE Owned'
  <2>1. Owned
    BY <1>4 DEF IInv
  <2>2. ~fault'
    BY <1>1, <2>1 DEF Owned
  <2>3. encs' = {mem'[u].enc : u \in Slots} \ {0}
    BY <1>1, <1>2, <2>1 DEF Owned, NoCert
  <2>4. \A u, v \in Slots : mem'[u].enc = mem'[v].enc /\ mem'[u].enc # 0 => u = v
    BY <1>2, <2>1 DEF Owned, NoCert
  <2> QED
    BY <2>2, <2>3, <2>4 DEF Owned
<1> QED
  BY <1>1, <1>3, <1>4 DEF IInv

\* Encoding a certificate again frees what it had.
LEMMA EncodeStep ==
  ASSUME IInv, NEW s \in Slots, HeaderPutCert(s)
  PROVE  IInv'
<1>1. UNCHANGED <<shared, storer>> /\ storer.pc = "idle" /\ Held(s)
  BY DEF HeaderPutCert, fileVars, Ready
<1>2. CASE mem[s].enc \in encs \cup {0}
  <2>1. /\ encs' = (encs \ {mem[s].enc}) \cup {encoded + 1}
        /\ mem' = [mem EXCEPT ![s].enc = encoded + 1]
        /\ encoded' = encoded + 1
        /\ UNCHANGED fault
    BY <1>2 DEF HeaderPutCert, Reencode
  <2>2. /\ \A u \in Slots : u # s => mem'[u] = mem[u]
        /\ mem'[s] = [mem[s] EXCEPT !.enc = encoded + 1]
    BY <2>1 DEF IInv, EncodingsNumbered
  <2>3. /\ Certificate(mem'[s])
        /\ mem'[s].enc = encoded + 1 /\ mem'[s].key = mem[s].key
    BY <2>2 DEF IInv, EncodingsNumbered, Certificate
  <2>4. EncodingsNumbered'
    BY <1>1, <2>1, <2>2, <2>3 DEF IInv, EncodingsNumbered, Held
  <2>5. ASSUME ~shared PROVE Owned'
    <3>1. Owned
      BY <2>5 DEF IInv
    <3>2. \A u \in Slots : mem[u].enc # encoded + 1
      BY DEF IInv, EncodingsNumbered
    <3>3. encs' = {mem'[u].enc : u \in Slots} \ {0}
      BY <2>1, <2>2, <2>3, <3>1 DEF Owned, IInv, EncodingsNumbered
    <3>4. \A u, v \in Slots : mem'[u].enc = mem'[v].enc /\ mem'[u].enc # 0 => u = v
      <4> SUFFICES ASSUME NEW u \in Slots, NEW v \in Slots,
                          mem'[u].enc = mem'[v].enc, mem'[u].enc # 0
                   PROVE  u = v
        OBVIOUS
      <4>1. CASE u # s /\ v # s
        BY <2>2, <3>1, <4>1 DEF Owned
      <4>2. CASE u = s \/ v = s
        BY <2>2, <2>3, <3>2, <4>2
      <4> QED
        BY <4>1, <4>2
    <3> QED
      BY <2>1, <3>1, <3>3, <3>4 DEF Owned
  <2> QED
    BY <1>1, <2>4, <2>5 DEF IInv
<1>3. CASE mem[s].enc \notin encs \cup {0}
  <2>1. shared
    BY <1>3 DEF IInv, Owned
  <2>2. UNCHANGED <<mem, encoded>>
    BY <1>3 DEF HeaderPutCert
  <2> QED
    BY <1>1, <2>1, <2>2 DEF IInv, EncodingsNumbered, Held
<1> QED
  BY <1>2, <1>3

\* Storing and loading leave the memory alone, and a crash all of it behind.
LEMMA FilesStep ==
  ASSUME IInv,
         \/ \E s \in Slots : StoreBegin(s)
         \/ StorePublic \/ StoreOpen \/ StoreSecret \/ StoreFails
         \/ LoadPublic \/ LoadSecret \/ UNCHANGED vars
  PROVE  IInv'
<1>1. UNCHANGED <<mem, encs, encoded, fault, shared>>
  BY DEF StoreBegin, StorePublic, StoreOpen, StoreSecret, StoreFails, LoadPublic,
         LoadSecret, vars, memVars
<1>2. ~fault \/ UNCHANGED storer
  BY DEF IInv, EncodingsNumbered, StoreBegin, Ready, StorePublic, StoreOpen,
         StoreSecret, StoreFails, LoadPublic, LoadSecret, vars, fileVars
<1> QED
  BY <1>1, <1>2 DEF IInv, EncodingsNumbered, Owned, Held

LEMMA CrashStep == IInv /\ Crash => IInv'
<1> SUFFICES ASSUME IInv, Crash PROVE IInv'
  OBVIOUS
<1>1. /\ mem' = [s \in Slots |-> NoCert] /\ encs' = {}
      /\ UNCHANGED <<encoded, fault>> /\ storer'.pc = "idle" /\ shared' = FALSE
  BY DEF Crash, Idle
<1>2. ~fault
  BY DEF Crash, IInv, EncodingsNumbered
<1>3. \A s \in Slots : mem'[s] = NoCert
  BY <1>1
<1>4. EncodingsNumbered'
  <2>1. \A s \in Slots : Certificate(mem'[s]) /\ mem'[s].enc = 0
    BY <1>3, NoCertificate DEF Certificate
  <2>2. mem' = [s \in Slots |-> mem'[s]]
    BY <1>1, <1>3
  <2> QED
    <3>1. encoded' \in Nat /\ shared' \in BOOLEAN
      BY <1>1 DEF IInv, EncodingsNumbered
    <3>2. \A s \in Slots : mem'[s].enc \in Nat /\ mem'[s].enc <= encoded'
      BY <2>1, <3>1
    <3> QED
      BY <1>1, <2>1, <2>2, <3>1, <3>2, Zenon DEF EncodingsNumbered
<1>5. Owned'
  BY <1>1, <1>2, <1>3, NoCertificate DEF Owned
<1> QED
  BY <1>4, <1>5 DEF IInv

LEMMA NextIInv == IInv /\ [Next]_vars => IInv'
<1> SUFFICES ASSUME IInv, [Next]_vars PROVE IInv'
  OBVIOUS
<1> QED
  BY EditStep, CopyStep, DestroyStep, EncodeStep, FilesStep, CrashStep DEF Next

-----------------------------------------------------------------------------
\* However many certificates are made, copied before they are encoded, encoded,
\* put into headers, stored, destroyed or lost in a crash, each encoding belongs to
\* one of them and is freed once (sigcert.c:75, 147, 690).
THEOREM EncodingsHaveOwners == Spec => []EncodingsAreOwned
<1>1. IInv => EncodingsAreOwned
  BY DEF IInv, Owned, EncodingsAreOwned
<1> QED
  BY <1>1, InitIInv, NextIInv, PTL DEF Spec

-----------------------------------------------------------------------------
(* What a header keeps of a certificate.                                   *)

Metas == Metadata \cup {Algorithm}

\* A certificate as the program has it, or none.
Cert(c) ==
  /\ Certificate(c)
  /\ c.key \in KeyPairs \cup {NoKey} /\ c.secret \in {NoKey, c.key}
  /\ c.sig.by \in KeyPairs \cup {NoKey}
  /\ c.meta \in Seq(Metas) /\ UniqueKeys(c.meta)

\* The names that keys are made of.
Names == {"meta.", "curve.", "cert.", "public-key", "signature", "algorithm", "version",
          "mechanism", "userid", "ctime", "xtime"} \cup UNION {Range(m.key) : m \in Metadata}

\* The entries a header with the certificate is made of.
Values(c) == {m.val : m \in Metas} \cup {c.key, c.sig, "1", "curve", "100", "then", "later"}
Records(c) == EntriesOf(Names, KvTypes, Values(c))

LEMMA MetasAreRecords ==
  ASSUME NEW c, NEW m \in Metas
  PROVE  m \in Records(c) /\ m.key # <<>> /\ m = Entry(m.key, m.type, m.val)
<1>1. CASE m \in Metadata
  <2>1. /\ m.key \in Seq(Names) /\ m.key # <<>> /\ m.type \in KvTypes
        /\ m = Entry(m.key, m.type, m.val)
    <3>1. Range(m.key) \subseteq Names
      BY <1>1 DEF Names
    <3> QED
      BY <1>1, <3>1, MetadataAssumption
  <2>2. m.val \in Values(c)
    BY DEF Values
  <2>3. Entry(m.key, m.type, m.val) \in Records(c)
    BY <2>1, <2>2 DEF Entry, Records, EntriesOf
  <2> QED
    BY <2>1, <2>3
<1>2. CASE m = Algorithm
  <2>1. m.val \in Values(c)
    BY DEF Values
  <2>2. m = [key |-> <<"algorithm">>, type |-> "s", val |-> "plain"]
    BY <1>2 DEF Algorithm, Entry
  <2>3. <<"algorithm">> \in Seq(Names) /\ <<"algorithm">> # <<>>
    <3>1. "algorithm" \in Names
      BY DEF Names
    <3> QED
      BY <3>1, One
  <2>4. "s" \in KvTypes
    BY DEF KvTypes
  <2>5. m.key = <<"algorithm">> /\ m.type = "s" /\ m.val = "plain"
    BY <2>2
  <2>6. m \in Records(c)
    BY <2>1, <2>2, <2>3, <2>4, <2>5 DEF Records, EntriesOf
  <2> QED
    BY <2>2, <2>3, <2>5, <2>6 DEF Entry
<1> QED
  BY <1>1, <1>2 DEF Metas

KeyEntry(c) == Entry(<<"curve.", "public-key">>, "s", c.key)
SigEntry(c) == Entry(<<"curve.", "signature">>, "s", c.sig)

LEMMA OwnEntries ==
  ASSUME NEW c
  PROVE  KeyEntry(c) \in Records(c) /\ SigEntry(c) \in Records(c)
<1>1. c.key \in Values(c) /\ c.sig \in Values(c)
  BY DEF Values
<1>2. "s" \in KvTypes
  BY DEF KvTypes
<1>3. <<"curve.", "public-key">> \in Seq(Names) /\ <<"curve.", "signature">> \in Seq(Names)
  <2>1. "curve." \in Names /\ "public-key" \in Names /\ "signature" \in Names
    BY DEF Names
  <2> QED
    BY <2>1, Two
<1> QED
  BY <1>1, <1>2, <1>3 DEF KeyEntry, SigEntry, Records, EntriesOf, Entry

\* After the metadata come the public key and, if there is one, the signature.
Crypto(c) == IF c.sig = NoSig THEN <<KeyEntry(c)>> ELSE <<KeyEntry(c), SigEntry(c)>>

MetaPart(c) == Prefixed(c.meta, <<"meta.">>)

LEMMA MetaPartIs ==
  ASSUME NEW c, Cert(c)
  PROVE  /\ c.meta \in Seq(Records(c)) /\ \A n \in 1..Len(c.meta) : c.meta[n].key # <<>>
         /\ MetaPart(c) \in Seq(Records(c)) /\ UniqueKeys(MetaPart(c))
         /\ KvJoin(<<>>, c.meta, <<"meta.">>) = MetaPart(c)
         /\ \A n \in 1..Len(MetaPart(c)) : /\ MetaPart(c)[n].key[1] = "meta."
                                          /\ MetaPart(c)[n].key # <<>>
<1> DEFINE prefix == <<"meta.">>
           meta == c.meta
           part == MetaPart(c)
<1>1. meta \in Seq(Metas) /\ UniqueKeys(meta)
  BY DEF Cert
<1>2. Metas \subseteq Records(c)
  BY MetasAreRecords
<1> HIDE DEF meta
<1>3. meta \in Seq(Records(c)) /\ Len(meta) \in Nat
  BY <1>1, <1>2
<1>4. ASSUME NEW n \in 1..Len(meta) PROVE meta[n] \in Metas /\ meta[n].key # <<>>
  <2>1. meta[n] \in Metas
    BY <1>1
  <2> QED
    BY <2>1, MetasAreRecords
<1>5. prefix \in Seq(Names) /\ Len(prefix) = 1 /\ prefix[1] = "meta."
  <2>1. "meta." \in Names
    BY DEF Names
  <2> QED
    BY <2>1, One
<1>6. /\ part \in Seq(Records(c)) /\ Len(part) = Len(meta) /\ UniqueKeys(part)
      /\ \A n \in 1..Len(meta) : part[n] = Entry(prefix \o meta[n].key, meta[n].type, meta[n].val)
  <2> HIDE DEF prefix
  <2>1. MetaPart(c) = Prefixed(meta, prefix)
    BY DEF MetaPart, prefix, meta
  <2>2. meta \in Seq(EntriesOf(Names, KvTypes, Values(c)))
    BY <1>3 DEF Records
  <2> QED
    BY <1>1, <1>5, <2>1, <2>2, PrefixedIs DEF Records
<1>7. KvJoin(<<>>, meta, prefix) = part
  <2> HIDE DEF prefix
  <2>1. MetaPart(c) = Prefixed(meta, prefix)
    BY DEF MetaPart, prefix, meta
  <2>2. meta \in Seq(EntriesOf(Names, KvTypes, Values(c))) /\ <<>> \in Seq(EntriesOf(Names, KvTypes, Values(c)))
    BY <1>3 DEF Records
  <2>3. Keys(<<>>) = {}
    BY DEF Keys
  <2>4. KvJoin(<<>>, meta, prefix) = <<>> \o Prefixed(meta, prefix)
    <3> DEFINE none == <<>>
    <3> HIDE DEF none
    <3>1. none \in Seq(EntriesOf(Names, KvTypes, Values(c)))
      BY <2>2 DEF none
    <3>2. \A n \in 1..Len(meta) : prefix \o meta[n].key \notin Keys(none)
      BY <2>3 DEF none
    <3>3. KvJoin(none, meta, prefix) = none \o Prefixed(meta, prefix)
      BY <1>1, <1>5, <2>2, <3>1, <3>2, JoinNew
    <3> QED
      BY <3>3 DEF none
  <2> QED
    BY <1>6, <2>1, <2>4, ConcatEmptySeq
<1> HIDE DEF prefix, part
<1>8. ASSUME NEW n \in 1..Len(part) PROVE part[n].key[1] = "meta." /\ part[n].key # <<>>
  <2>1. n \in 1..Len(meta) /\ part[n] = Entry(prefix \o meta[n].key, meta[n].type, meta[n].val)
    BY <1>6
  <2>2. part[n].key = prefix \o meta[n].key
    BY <2>1 DEF Entry
  <2>3. meta[n].key \in Seq(Names)
    BY <1>4, <2>1, MetasAreRecords DEF Records, EntriesOf
  <2>4. /\ Len(prefix \o meta[n].key) = Len(prefix) + Len(meta[n].key)
        /\ prefix \o meta[n].key \in Seq(Names)
        /\ \A i \in 1..(Len(prefix) + Len(meta[n].key)) :
             (prefix \o meta[n].key)[i] =
               IF i <= Len(prefix) THEN prefix[i] ELSE meta[n].key[i - Len(prefix)]
    BY <1>5, <2>3, ConcatProperties
  <2>5. Len(meta[n].key) \in Nat
    BY <2>3
  <2>6. (prefix \o meta[n].key)[1] = "meta." /\ Len(prefix \o meta[n].key) >= 1
    BY <1>5, <2>4, <2>5
  <2> QED
    BY <2>2, <2>4, <2>6
<1> QED
  BY <1>1, <1>3, <1>4, <1>6, <1>7, <1>8 DEF meta, prefix, part

LEMMA EncodedIs ==
  ASSUME NEW c, Cert(c)
  PROVE  /\ Crypto(c) \in Seq(Records(c)) /\ Encoded(c) = MetaPart(c) \o Crypto(c)
         /\ Encoded(c) \in Seq(Records(c)) /\ UniqueKeys(Encoded(c))
<1> DEFINE part == MetaPart(c)
           k == KeyEntry(c)
           g == SigEntry(c)
           pk == <<"curve.", "public-key">>
           sg == <<"curve.", "signature">>
           public == KvPut(part, pk, "s", c.key)
           whole == KvPut(public, sg, "s", c.sig)
<1>1. /\ part \in Seq(Records(c)) /\ UniqueKeys(part)
      /\ \A n \in 1..Len(part) : part[n].key[1] = "meta."
      /\ KvJoin(<<>>, c.meta, <<"meta.">>) = part
  BY MetaPartIs
<1>2. /\ k = Entry(pk, "s", c.key) /\ g = Entry(sg, "s", c.sig)
      /\ k \in Records(c) /\ g \in Records(c)
  BY OwnEntries DEF KeyEntry, SigEntry
<1>3. pk[1] = "curve." /\ sg[1] = "curve." /\ pk[2] # sg[2]
  OBVIOUS
<1>4. Encoded(c) = IF c.sig = NoSig THEN public ELSE whole
  BY <1>1 DEF Encoded
<1> HIDE DEF part, k, g, pk, sg
<1>5. pk \notin Keys(part)
  BY <1>1, <1>3 DEF Keys
<1>6. public = Append(part, k) /\ UniqueKeys(public) /\ public \in Seq(Records(c))
  <2>1. Entry(pk, "s", c.key) \in Records(c)
    BY <1>2
  <2>2. public = Append(part, Entry(pk, "s", c.key)) /\ public \in Seq(Records(c))
    BY <1>1, <1>5, <2>1, PutRange
  <2>3. UniqueKeys(public)
    BY <1>1, <2>1, PutUnique
  <2> QED
    BY <1>2, <2>2, <2>3
<1> HIDE DEF public
<1>7. sg \notin Keys(public)
  <2> SUFFICES ASSUME NEW i \in 1..Len(public), public[i].key = sg PROVE FALSE
    BY <1>6 DEF Keys
  <2>1. CASE i \in 1..Len(part)
    <3>1. public[i] = part[i]
      BY <1>1, <1>2, <1>6, <2>1
    <3> QED
      BY <1>1, <1>3, <2>1, <3>1
  <2>2. CASE i \notin 1..Len(part)
    <3>1. public[i] = k
      BY <1>1, <1>2, <1>6, <2>2
    <3> QED
      BY <1>2, <1>3, <3>1 DEF Entry
  <2> QED
    BY <2>1, <2>2
<1>8. whole = Append(public, g) /\ UniqueKeys(whole) /\ whole \in Seq(Records(c))
  <2>1. Entry(sg, "s", c.sig) \in Records(c)
    BY <1>2
  <2>2. whole = Append(public, Entry(sg, "s", c.sig)) /\ whole \in Seq(Records(c))
    <3>1. public \in Seq(Records(c))
      BY <1>6
    <3>2. sg \notin Keys(public) =>
            KvPut(public, sg, "s", c.sig) = Append(public, Entry(sg, "s", c.sig))
      BY <2>1, <3>1, PutRange
    <3>3. KvPut(public, sg, "s", c.sig) \in Seq(Records(c))
      BY <2>1, <3>1, PutRange
    <3> QED
      BY <1>7, <3>2, <3>3
  <2>3. UniqueKeys(whole)
    BY <1>6, <2>1, PutUnique
  <2> QED
    BY <1>2, <2>2, <2>3
<1> HIDE DEF whole
<1>9. public = part \o <<k>> /\ <<k>> \in Seq(Records(c))
  BY <1>1, <1>2, <1>6, AppendIsConcat
<1>10. whole = part \o <<k, g>> /\ <<k, g>> \in Seq(Records(c))
  <2>1. <<g>> \in Seq(Records(c)) /\ <<k, g>> = <<k>> \o <<g>> /\ <<k, g>> \in Seq(Records(c))
    BY <1>2, TwoIsConcat
  <2>2. whole = public \o <<g>>
    BY <1>2, <1>6, <1>8, AppendIsConcat
  <2>3. (part \o <<k>>) \o <<g>> = part \o (<<k>> \o <<g>>)
    BY <1>1, <1>9, <2>1, ConcatAssociative
  <2> QED
    BY <1>9, <2>1, <2>2, <2>3
<1>11. CASE c.sig = NoSig
  <2>1. Crypto(c) = <<k>>
    BY <1>11 DEF Crypto, k
  <2> QED
    BY <1>4, <1>6, <1>9, <1>11, <2>1 DEF part
<1>12. CASE c.sig # NoSig
  <2>1. Crypto(c) = <<k, g>>
    BY <1>12 DEF Crypto, k, g
  <2> QED
    BY <1>4, <1>8, <1>10, <1>12, <2>1 DEF part
<1> QED
  BY <1>11, <1>12

\* sigcert_decode gives back what sigcert_encode took, but the secret key.
LEMMA DecodedEncoded ==
  ASSUME NEW c, Cert(c)
  PROVE  Decoded(Encoded(c)) = [c EXCEPT !.secret = NoKey, !.enc = 0]
<1> DEFINE part == MetaPart(c)
           rest == Crypto(c)
           e == Encoded(c)
           k == KeyEntry(c)
           g == SigEntry(c)
           prefix == <<"meta.">>
           pk == <<"curve.", "public-key">>
           sg == <<"curve.", "signature">>
<1>1. /\ rest \in Seq(Records(c)) /\ e = part \o rest
      /\ e \in Seq(Records(c)) /\ UniqueKeys(e)
  BY EncodedIs
<1>2. /\ c.meta \in Seq(Records(c)) /\ \A n \in 1..Len(c.meta) : c.meta[n].key # <<>>
      /\ part \in Seq(Records(c)) /\ UniqueKeys(c.meta)
      /\ \A n \in 1..Len(part) : part[n].key[1] = "meta."
  BY MetaPartIs DEF Cert
<1>3. /\ k = Entry(pk, "s", c.key) /\ g = Entry(sg, "s", c.sig)
      /\ pk[1] = "curve." /\ sg[1] = "curve." /\ pk[2] # sg[2] /\ prefix[1] = "meta."
      /\ pk # <<>> /\ sg # <<>> /\ Len(prefix) = 1 /\ Len(pk) = 2 /\ Len(sg) = 2
  BY DEF KeyEntry, SigEntry
<1>4. prefix \in Seq(Names) /\ pk \in Seq(Names) /\ sg \in Seq(Names)
  <2>1. "meta." \in Names /\ "curve." \in Names /\ "public-key" \in Names /\ "signature" \in Names
    BY DEF Names
  <2> QED
    BY <2>1, One, Two
<1>5. /\ rest = IF c.sig = NoSig THEN <<k>> ELSE <<k, g>>
      /\ Len(rest) = IF c.sig = NoSig THEN 1 ELSE 2
      /\ rest[1] = k /\ (c.sig # NoSig => rest[2] = g)
  BY DEF Crypto
<1>6. part = Prefixed(c.meta, prefix)
  BY DEF MetaPart
<1>7. /\ KvSplit(e, prefix) = KvSplit(e, <<"meta.">>)
      /\ Decoded(e) = [NoCert EXCEPT
           !.meta = KvSplit(e, prefix),
           !.key = KvGet(e, pk),
           !.sig = IF KvHas(e, sg, "s") THEN KvGet(e, sg) ELSE NoSig]
  BY DEF Decoded
<1> HIDE DEF part, rest, e, k, g, prefix, pk, sg
<1>8. KvSplit(e, prefix) = c.meta
  <2> DEFINE none == <<>>
  <2>1. none \in Seq(Records(c)) /\ none \o part = part /\ Len(none) = 0
    BY <1>2, ConcatEmptySeq
  <2> HIDE DEF none
  <2>2. ASSUME NEW n \in 1..Len(rest) PROVE ~IsStrictPrefix(prefix, rest[n].key)
    <3>1. rest[n] = k \/ rest[n] = g
      BY <1>1, <1>5
    <3>2. rest[n].key = pk \/ rest[n].key = sg
      BY <1>3, <3>1 DEF Entry
    <3>3. rest[n].key[1] = "curve." /\ rest[n].key \in Seq(Names) /\ Len(rest[n].key) = 2
      BY <1>3, <1>4, <3>2
    <3>4. SubSeq(prefix, 1, Len(prefix)) = prefix
      BY <1>4, SubSeqFull
    <3>5. SubSeq(rest[n].key, 1, Len(prefix))[1] = rest[n].key[1]
      BY <1>3, <3>3
    <3> QED
      BY <1>3, <3>3, <3>4, <3>5 DEF IsStrictPrefix, IsPrefix
  <2>3. KvSplit((none \o Prefixed(c.meta, prefix)) \o rest, prefix) = c.meta
    <3>1. \A n \in 1..Len(none) : ~IsStrictPrefix(prefix, none[n].key)
      BY <2>1
    <3> QED
      <4> DEFINE E == EntriesOf(Names, KvTypes, Values(c))
                 meta == c.meta
      <4>1. none \in Seq(E) /\ meta \in Seq(E) /\ rest \in Seq(E) /\ UniqueKeys(meta)
        BY <1>1, <1>2, <2>1 DEF Records
      <4>2. \A n \in 1..Len(meta) : meta[n].key # <<>>
        BY <1>2
      <4> HIDE DEF meta
      <4>3. KvSplit((none \o Prefixed(meta, prefix)) \o rest, prefix) = meta
        BY <1>4, <2>2, <3>1, <4>1, <4>2, SplitBlock
      <4> QED
        BY <4>3 DEF meta
  <2> QED
    BY <1>1, <1>6, <2>1, <2>3
<1> DEFINE m == Len(part)
<1>9. /\ m \in Nat /\ Len(e) = m + Len(rest)
      /\ \A i \in 1..(m + Len(rest)) : e[i] = IF i <= m THEN part[i] ELSE rest[i - m]
  BY <1>1, <1>2, ConcatProperties
<1>10. m + 1 \in 1..Len(e) /\ e[m + 1] = k
  <2>1. (m + 1) - m = 1 /\ m + 1 \in 1..(m + Len(rest)) /\ ~(m + 1 <= m)
    BY <1>5, <1>9
  <2> QED
    BY <1>5, <1>9, <2>1
<1>11. KvGet(e, pk) = c.key
  <2>1. KvGet(e, e[m + 1].key) = e[m + 1].val
    BY <1>1, <1>10, GetUnique
  <2>2. k.key = pk /\ k.val = c.key
    BY <1>3 DEF Entry
  <2> QED
    BY <1>10, <2>1, <2>2
<1>12. (IF KvHas(e, sg, "s") THEN KvGet(e, sg) ELSE NoSig) = c.sig
  <2>1. g.key = sg /\ g.type = "s" /\ g.val = c.sig /\ k.key = pk
    BY <1>3 DEF Entry
  <2>2. CASE c.sig # NoSig
    <3>1. (m + 2) - m = 2 /\ m + 2 \in 1..(m + Len(rest)) /\ ~(m + 2 <= m)
      BY <1>5, <1>9, <2>2
    <3>2. m + 2 \in 1..Len(e) /\ e[m + 2] = g
      BY <1>5, <1>9, <2>2, <3>1
    <3>3. /\ KvGet(e, e[m + 2].key) = e[m + 2].val
          /\ KvHas(e, e[m + 2].key, "s") <=> e[m + 2].type = "s"
      <4> DEFINE j == m + 2
      <4>1. j \in 1..Len(e)
        BY <3>2
      <4> HIDE DEF j
      <4>2. /\ KvGet(e, e[j].key) = e[j].val
            /\ \A type : KvHas(e, e[j].key, type) <=> e[j].type = type
        <5>1. e \in Seq(Records(c)) /\ UniqueKeys(e)
          BY <1>1
        <5> QED
          BY <4>1, <5>1, GetUnique, Zenon
      <4>3. KvHas(e, e[j].key, "s") <=> e[j].type = "s"
        BY <4>2, Zenon
      <4> QED
        BY <4>2, <4>3 DEF j
    <3> QED
      BY <2>1, <3>2, <3>3
  <2>3. CASE c.sig = NoSig
    <3>1. ASSUME NEW i \in 1..Len(e) PROVE e[i].key # sg
      <4>1. CASE i <= m
        <5>1. i \in 1..Len(part) /\ e[i] = part[i]
          BY <1>9, <4>1
        <5> QED
          BY <1>2, <1>3, <5>1
      <4>2. CASE ~(i <= m)
        <5>1. i = m + 1
          BY <1>5, <1>9, <2>3, <4>2
        <5> QED
          BY <1>3, <1>10, <2>1, <5>1
      <4> QED
        BY <4>1, <4>2
    <3>2. sg \notin Keys(e)
      BY <1>1, <3>1 DEF Keys
    <3> QED
      BY <2>3, <3>2 DEF KvHas
  <2> QED
    BY <2>2, <2>3
<1>13. Certificate(c)
  BY DEF Cert
<1>14. Decoded(e) = [NoCert EXCEPT !.meta = c.meta, !.key = c.key, !.sig = c.sig]
  BY <1>7, <1>8, <1>11, <1>12
<1> QED
  BY <1>13, <1>14 DEF NoCert, Certificate, e

HeaderOf(c) == KvJoin(KvJoin(Generic, Encoded(c), CertPrefix), Times, <<>>)

LEMMA OtherEntries ==
  ASSUME NEW c
  PROVE  /\ Generic \in Seq(Records(c)) /\ UniqueKeys(Generic)
         /\ \A n \in 1..Len(Generic) : Len(Generic[n].key) = 1
         /\ Times \in Seq(Records(c)) /\ UniqueKeys(Times)
         /\ \A n \in 1..Len(Times) : Len(Times[n].key) = 2 /\ Times[n].key[1] = "curve."
         /\ CertPrefix \in Seq(Names) /\ Len(CertPrefix) = 2 /\ CertPrefix[1] = "curve."
<1> DEFINE k1 == <<"version">>
           k2 == <<"mechanism">>
           k3 == <<"userid">>
           t1 == <<"curve.", "ctime">>
           t2 == <<"curve.", "xtime">>
<1>1. /\ "version" \in Names /\ "mechanism" \in Names /\ "userid" \in Names
      /\ "curve." \in Names /\ "ctime" \in Names /\ "xtime" \in Names /\ "cert." \in Names
  BY DEF Names
<1>2. /\ k1 \in Seq(Names) /\ k2 \in Seq(Names) /\ k3 \in Seq(Names)
      /\ Len(k1) = 1 /\ Len(k2) = 1 /\ Len(k3) = 1
      /\ k1[1] = "version" /\ k2[1] = "mechanism" /\ k3[1] = "userid"
  BY <1>1, One
<1>3. /\ t1 \in Seq(Names) /\ t2 \in Seq(Names) /\ CertPrefix \in Seq(Names)
      /\ Len(t1) = 2 /\ Len(t2) = 2 /\ Len(CertPrefix) = 2
      /\ t1[1] = "curve." /\ t2[1] = "curve." /\ CertPrefix[1] = "curve."
      /\ t1[2] = "ctime" /\ t2[2] = "xtime"
  BY <1>1, Two DEF CertPrefix
<1>4. /\ "1" \in Values(c) /\ "curve" \in Values(c) /\ "100" \in Values(c)
      /\ "then" \in Values(c) /\ "later" \in Values(c)
  BY DEF Values
<1>5. "i" \in KvTypes /\ "s" \in KvTypes /\ "t" \in KvTypes
  BY DEF KvTypes
<1> DEFINE e1 == Entry(k1, "i", "1")
           e2 == Entry(k2, "s", "curve")
           e3 == Entry(k3, "i", "100")
           f1 == Entry(t1, "t", "then")
           f2 == Entry(t2, "t", "later")
<1>6. Generic = <<e1, e2, e3>> /\ Times = <<f1, f2>>
  BY DEF Generic, Times
<1> HIDE DEF k1, k2, k3, t1, t2
<1>7. /\ e1 \in Records(c) /\ e2 \in Records(c) /\ e3 \in Records(c)
      /\ e1.key = k1 /\ e2.key = k2 /\ e3.key = k3
  BY <1>2, <1>4, <1>5 DEF Records, EntriesOf, Entry
<1>8. f1 \in Records(c) /\ f2 \in Records(c) /\ f1.key = t1 /\ f2.key = t2
  BY <1>3, <1>4, <1>5 DEF Records, EntriesOf, Entry
<1> HIDE DEF e1, e2, e3, f1, f2
<1>9. /\ Generic \in Seq(Records(c)) /\ Len(Generic) = 3
      /\ Generic[1] = e1 /\ Generic[2] = e2 /\ Generic[3] = e3
  BY <1>6, <1>7
<1>10. Times \in Seq(Records(c)) /\ Len(Times) = 2 /\ Times[1] = f1 /\ Times[2] = f2
  BY <1>6, <1>8
<1>11. DOMAIN Generic = {1, 2, 3} /\ DOMAIN Times = {1, 2}
  BY <1>9, <1>10
<1>12. UniqueKeys(Generic)
  <2>1. k1 # k2 /\ k2 # k3 /\ k1 # k3
    BY <1>2
  <2> QED
    BY <1>7, <1>9, <1>11, <2>1 DEF UniqueKeys
<1>13. UniqueKeys(Times)
  <2>1. t1 # t2
    BY <1>3
  <2> QED
    BY <1>8, <1>10, <1>11, <2>1 DEF UniqueKeys
<1>14. \A n \in 1..Len(Generic) : Len(Generic[n].key) = 1
  BY <1>2, <1>7, <1>9, <1>11
<1>15. \A n \in 1..Len(Times) : Len(Times[n].key) = 2 /\ Times[n].key[1] = "curve."
  BY <1>3, <1>8, <1>10, <1>11
<1> QED
  BY <1>3, <1>9, <1>10, <1>12, <1>13, <1>14, <1>15

LEMMA EncodedKeys ==
  ASSUME NEW c, Cert(c), NEW n \in 1..Len(Encoded(c))
  PROVE  Encoded(c)[n].key \in Seq(Names) /\ Encoded(c)[n].key # <<>>
<1> DEFINE part == MetaPart(c)
           rest == Crypto(c)
           e == Encoded(c)
<1>1. /\ rest \in Seq(Records(c)) /\ e = part \o rest /\ e \in Seq(Records(c))
  BY EncodedIs
<1>2. part \in Seq(Records(c)) /\ \A i \in 1..Len(part) : part[i].key # <<>>
  BY MetaPartIs
<1>3. \A i \in 1..Len(rest) : rest[i].key # <<>>
  <2>1. rest = <<KeyEntry(c)>> \/ rest = <<KeyEntry(c), SigEntry(c)>>
    BY DEF Crypto
  <2>2. KeyEntry(c).key = <<"curve.", "public-key">> /\ SigEntry(c).key = <<"curve.", "signature">>
    BY DEF KeyEntry, SigEntry, Entry
  <2>3. KeyEntry(c).key # <<>> /\ SigEntry(c).key # <<>>
    BY <2>2
  <2> HIDE DEF rest
  <2>4. \A i \in 1..Len(rest) : rest[i] = KeyEntry(c) \/ rest[i] = SigEntry(c)
    BY <2>1
  <2> QED
    BY <2>3, <2>4
<1> HIDE DEF part, rest, e
<1>4. /\ Len(part) \in Nat /\ Len(rest) \in Nat /\ Len(e) = Len(part) + Len(rest)
      /\ \A i \in 1..(Len(part) + Len(rest)) :
           e[i] = IF i <= Len(part) THEN part[i] ELSE rest[i - Len(part)]
  BY <1>1, <1>2, ConcatProperties
<1>5. n \in 1..Len(e)
  BY DEF e
<1>6. e[n].key # <<>>
  <2>1. CASE n <= Len(part)
    <3>1. n \in 1..Len(part) /\ e[n] = part[n]
      BY <1>4, <1>5, <2>1
    <3> QED
      BY <1>2, <3>1
  <2>2. CASE ~(n <= Len(part))
    <3>1. n - Len(part) \in 1..Len(rest) /\ e[n] = rest[n - Len(part)]
      BY <1>4, <1>5, <2>2
    <3> QED
      BY <1>3, <3>1
  <2> QED
    BY <2>1, <2>2
<1>7. e[n].key \in Seq(Names)
  <2>1. e[n] \in Records(c)
    BY <1>1, <1>5
  <2>2. e[n] \in [key : Seq(Names), type : KvTypes, val : Values(c)]
    BY <2>1 DEF Records, EntriesOf
  <2> QED
    BY <2>2
<1> QED
  BY <1>6, <1>7 DEF e

\* header_get_cert finds what header_put_cert put, among the other entries.
LEMMA HeaderIs ==
  ASSUME NEW c, Cert(c)
  PROVE  /\ KvSplit(HeaderOf(c), CertPrefix) = Encoded(c)
         /\ UniqueKeys(HeaderOf(c)) /\ HeaderOf(c) # <<>>
<1> DEFINE E == EntriesOf(Names, KvTypes, Values(c))
           e == Encoded(c)
           p == Prefixed(e, CertPrefix)
           none == <<>>
           t == Prefixed(Times, none)
           first == KvJoin(Generic, e, CertPrefix)
           h == KvJoin(first, Times, none)
<1>1. /\ Generic \in Seq(E) /\ UniqueKeys(Generic)
      /\ \A n \in 1..Len(Generic) : Generic[n].key \in Seq(Names) /\ Len(Generic[n].key) = 1
  <2>1. \A n \in 1..Len(Generic) : Generic[n] \in E
    BY OtherEntries DEF Records
  <2>2. \A x \in E : x.key \in Seq(Names)
    BY DEF EntriesOf
  <2> QED
    BY <2>1, <2>2, OtherEntries DEF Records
<1>2. /\ Times \in Seq(E) /\ UniqueKeys(Times)
      /\ \A n \in 1..Len(Times) : Times[n].key \in Seq(Names) /\ Len(Times[n].key) = 2
  <2>1. \A n \in 1..Len(Times) : Times[n] \in E
    BY OtherEntries DEF Records
  <2>2. \A x \in E : x.key \in Seq(Names)
    BY DEF EntriesOf
  <2> QED
    BY <2>1, <2>2, OtherEntries DEF Records
<1>3. CertPrefix \in Seq(Names) /\ Len(CertPrefix) = 2
  BY OtherEntries
<1>4. e \in Seq(E) /\ UniqueKeys(e)
  BY EncodedIs DEF Records
<1>5. \A n \in 1..Len(e) : e[n].key \in Seq(Names) /\ e[n].key # <<>>
  BY EncodedKeys
<1>6. HeaderOf(c) = h
  BY DEF HeaderOf
<1> HIDE DEF E, e, none, h
<1>7. \A n \in 1..Len(e) :
        /\ CertPrefix \o e[n].key \in Seq(Names)
        /\ Len(CertPrefix \o e[n].key) = 2 + Len(e[n].key)
        /\ Len(e[n].key) \in Nat /\ Len(e[n].key) > 0
  <2> SUFFICES ASSUME NEW n \in 1..Len(e)
               PROVE  /\ CertPrefix \o e[n].key \in Seq(Names)
                      /\ Len(CertPrefix \o e[n].key) = 2 + Len(e[n].key)
                      /\ Len(e[n].key) \in Nat /\ Len(e[n].key) > 0
    OBVIOUS
  <2> DEFINE k == e[n].key
  <2>1. k \in Seq(Names) /\ k # <<>>
    BY <1>5
  <2> HIDE DEF k
  <2>2. CertPrefix \o k \in Seq(Names) /\ Len(CertPrefix \o k) = Len(CertPrefix) + Len(k)
    BY <1>3, <2>1, ConcatProperties
  <2>3. Len(k) \in Nat /\ Len(k) > 0
    BY <2>1, NotEmpty
  <2> QED
    BY <1>3, <2>2, <2>3 DEF k
<1>8. first = Generic \o p /\ UniqueKeys(first) /\ first \in Seq(E)
  <2>1. ASSUME NEW n \in 1..Len(e) PROVE CertPrefix \o e[n].key \notin Keys(Generic)
    <3>1. Len(CertPrefix \o e[n].key) # 1
      BY <1>7
    <3>2. \A i \in 1..Len(Generic) : Generic[i].key # CertPrefix \o e[n].key
      BY <1>1, <3>1
    <3> QED
      BY <1>1, <3>2, NotAmongKeys
  <2>2. first = Generic \o p
    BY <1>1, <1>3, <1>4, <2>1, JoinNew DEF E
  <2>3. UniqueKeys(first)
    BY <1>1, <1>3, <1>4, JoinUnique DEF E
  <2>4. p \in Seq(E)
    BY <1>3, <1>4, PrefixedIs DEF E
  <2> QED
    BY <1>1, <2>2, <2>3, <2>4, ConcatProperties
<1>9. /\ p \in Seq(E) /\ Len(p) = Len(e)
      /\ \A n \in 1..Len(e) : p[n] = Entry(CertPrefix \o e[n].key, e[n].type, e[n].val)
  BY <1>3, <1>4, PrefixedIs DEF E
<1>9a. ASSUME NEW n \in 1..Len(e) PROVE p[n].key = CertPrefix \o e[n].key
  <2>1. p[n] = Entry(CertPrefix \o e[n].key, e[n].type, e[n].val)
    BY <1>9
  <2> HIDE DEF p
  <2> QED
    BY <2>1 DEF Entry
<1>10. none \in Seq(Names) /\ \A k \in Seq(Names) : none \o k = k
  BY ConcatEmptySeq DEF none
<1>11. /\ t \in Seq(E) /\ Len(t) = Len(Times)
       /\ \A n \in 1..Len(Times) : t[n] = Entry(none \o Times[n].key, Times[n].type, Times[n].val)
  BY <1>2, <1>10, PrefixedIs DEF E
<1> HIDE DEF p, t, first
<1>12. \A n \in 1..Len(Times) : none \o Times[n].key \notin Keys(first)
  <2> SUFFICES ASSUME NEW n \in 1..Len(Times), NEW i \in 1..Len(first),
                      first[i].key = none \o Times[n].key
               PROVE  FALSE
    <3>1. \A n \in 1..Len(Times) : \A i \in 1..Len(first) : first[i].key # none \o Times[n].key
      OBVIOUS
    <3> QED
      BY <1>8, <3>1, NotAmongKeys
  <2>1. Len(first[i].key) = 2
    BY <1>2, <1>10
  <2>2. /\ Len(Generic) \in Nat /\ Len(p) \in Nat /\ Len(first) = Len(Generic) + Len(p)
        /\ \A j \in 1..(Len(Generic) + Len(p)) :
             first[j] = IF j <= Len(Generic) THEN Generic[j] ELSE p[j - Len(Generic)]
    <3>1. Generic \in Seq(E) /\ p \in Seq(E) /\ first = Generic \o p
      BY <1>1, <1>8, <1>9
    <3>2. /\ Len(Generic \o p) = Len(Generic) + Len(p)
          /\ \A j \in 1..(Len(Generic) + Len(p)) :
               (Generic \o p)[j] = IF j <= Len(Generic) THEN Generic[j] ELSE p[j - Len(Generic)]
      BY <3>1, ConcatProperties
    <3>3. Len(Generic) \in Nat /\ Len(p) \in Nat
      BY <3>1
    <3> QED
      BY <3>1, <3>2, <3>3
  <2>3. CASE i <= Len(Generic)
    <3>1. i \in 1..Len(Generic) /\ first[i] = Generic[i]
      BY <2>2, <2>3
    <3> QED
      BY <1>1, <2>1, <3>1
  <2>4. CASE ~(i <= Len(Generic))
    <3> DEFINE j == i - Len(Generic)
    <3>1. j \in 1..Len(e) /\ first[i] = p[j]
      BY <1>9, <2>2, <2>4
    <3> HIDE DEF j
    <3>3. first[i].key = CertPrefix \o e[j].key
      BY <1>9a, <3>1
    <3>4. Len(CertPrefix \o e[j].key) # 2
      BY <1>7, <3>1
    <3> QED
      BY <2>1, <3>3, <3>4
  <2> QED
    BY <2>3, <2>4
<1>13. h = first \o t /\ UniqueKeys(h)
  <2>1. /\ first \in Seq(EntriesOf(Names, KvTypes, Values(c))) /\ UniqueKeys(first)
        /\ Times \in Seq(EntriesOf(Names, KvTypes, Values(c))) /\ UniqueKeys(Times)
        /\ none \in Seq(Names)
    BY <1>2, <1>8, <1>10 DEF E
  <2>2. KvJoin(first, Times, none) = first \o Prefixed(Times, none)
    BY <1>12, <2>1, JoinNew
  <2>3. UniqueKeys(KvJoin(first, Times, none))
    BY <2>1, JoinUnique
  <2> QED
    BY <2>2, <2>3 DEF h, t
<1>14. \A n \in 1..Len(Generic) : ~IsStrictPrefix(CertPrefix, Generic[n].key)
  BY <1>1, <1>3, ShortKey
<1>15. ASSUME NEW n \in 1..Len(t) PROVE ~IsStrictPrefix(CertPrefix, t[n].key)
  <2>1. n \in 1..Len(Times) /\ t[n] = Entry(none \o Times[n].key, Times[n].type, Times[n].val)
    BY <1>11
  <2>2. t[n].key = Times[n].key
    BY <1>2, <1>10, <2>1 DEF Entry
  <2> QED
    BY <1>2, <1>3, <2>1, <2>2, ShortKey
<1>16. KvSplit((Generic \o p) \o t, CertPrefix) = e
  <2>1. /\ Generic \in Seq(EntriesOf(Names, KvTypes, Values(c)))
        /\ e \in Seq(EntriesOf(Names, KvTypes, Values(c))) /\ UniqueKeys(e)
        /\ t \in Seq(EntriesOf(Names, KvTypes, Values(c)))
        /\ CertPrefix \in Seq(Names)
        /\ \A n \in 1..Len(e) : e[n].key # <<>>
    BY <1>1, <1>3, <1>4, <1>5, <1>11 DEF E
  <2>2. KvSplit((Generic \o Prefixed(e, CertPrefix)) \o t, CertPrefix) = e
    BY <1>14, <1>15, <2>1, SplitBlock
  <2> QED
    BY <2>2 DEF p
<1>17. Len(h) > 0
  <2>1. Len(h) = Len(first) + Len(t) /\ Len(t) = Len(Times) /\ Len(first) \in Nat
    <3>1. first \in Seq(E) /\ t \in Seq(E)
      BY <1>8, <1>11
    <3>2. Len(first \o t) = Len(first) + Len(t) /\ Len(first) \in Nat
      BY <3>1, ConcatProperties
    <3> QED
      BY <1>11, <1>13, <3>2
  <2>2. Len(Times) = 2
    BY DEF Times
  <2> QED
    BY <2>1, <2>2
<1>18. h # <<>>
  BY <1>17
<1> QED
  BY <1>6, <1>8, <1>13, <1>16, <1>18 DEF e

LEMMA HeaderKeeps ==
  ASSUME NEW c, Cert(c)
  PROVE  Decoded(KvSplit(HeaderOf(c), CertPrefix)) = [c EXCEPT !.secret = NoKey, !.enc = 0]
BY HeaderIs, DecodedEncoded

-----------------------------------------------------------------------------
(* Types, and what the two files and a loaded certificate may be.          *)

\* A copy of a certificate that has no encoding.
Kept(c) == Cert(c) /\ c.enc = 0

AsRead(w) == [w EXCEPT !.meta = [n \in DOMAIN @ |-> EntryRead(@[n])]]
PublicOf(w) == [w EXCEPT !.secret = NoKey]

Types ==
  /\ mem = [s \in Slots |-> mem[s]]
  /\ \A s \in Slots : Cert(mem[s]) /\ mem[s].enc \in 0..MaxUses
  /\ made \in SUBSET KeyPairs /\ edits \in 0..MaxEdits /\ encs \in SUBSET (1..MaxUses)
  /\ encoded \in Nat /\ stores \in Nat /\ encoded + stores <= MaxUses
  /\ fault \in BOOLEAN /\ shared \in BOOLEAN
  /\ loads \in 0..MaxLoads

\* The message's header is made of what was sent.
HeaderInv == /\ Kept(sent) /\ sent.secret = NoKey
             /\ header = <<>> \/ header = HeaderOf(sent)

\* A file is what was written of a certificate in W before the program died or failed.
PubFile(f, W) ==
  \/ f = Absent \/ f = <<Line("broken", "")>>
  \/ \E w \in W : \E n \in 0..Len(PublicLines(w)) : f = SubSeq(PublicLines(w), 1, n)
SecFile(f, W) ==
  \/ f = Absent \/ f = <<Line("broken", "")>>
  \/ \E w \in W : \E n \in 0..Len(SecretLines(w)) : f = SubSeq(SecretLines(w), 1, n)

\* Both files are from one store if none was begun since.
StoreInv ==
  /\ \A w \in written : Kept(w)
  /\ storer = [pc |-> storer.pc, cert |-> storer.cert]
  /\ storer.pc \in {"idle", "public", "open", "secret"} /\ Kept(storer.cert)
  /\ storer.pc # "idle" => storer.cert \in written /\ stored = NoCert
  /\ storer.pc \in {"open", "secret"} =>
       pub = PublicLines(storer.cert) /\ storer.cert.secret # NoKey
  /\ PubFile(pub, written) /\ SecFile(sec, written)
  /\ stored = NoCert \/ stored \in written
  /\ stored # NoCert => /\ stored.secret # NoKey
                        /\ pub = PublicLines(stored) /\ sec = SecretLines(stored)

\* What has been read from files of certificates in W.
Loaded(c, W) ==
  /\ Certificate(c) /\ c.enc = 0
  /\ c.key \in KeyPairs \cup {NoKey} /\ c.secret \in KeyPairs \cup {NoKey}
  /\ c.sig.by \in KeyPairs \cup {NoKey} /\ UniqueKeys(c.meta)
  /\ c.sig # NoSig => \E w \in W : PublicOf(c) = PublicOf(AsRead(w))

LoadInv ==
  /\ loader.pc \in {"idle", "secret"}
  /\ Loaded(loader.cert, written) /\ Loaded(got.cert, written)
  /\ loader.calm # NoCert =>
       /\ loader.calm \in written /\ loader.calm.secret # NoKey
       /\ loader.cert = PublicOf(AsRead(loader.calm))
  /\ got.calm # NoCert =>
       /\ got.calm \in written /\ got.calm.secret # NoKey
       /\ got.cert = AsRead(got.calm)

FInv == Types /\ HeaderInv /\ StoreInv /\ LoadInv

-----------------------------------------------------------------------------
(* What is read from a file of which some lines may be missing.            *)

LineNames == {"metadata", "entry", "curve", "public-key", "signature"}
LinesFor(w) == [line : LineNames, of : {"", w.key, w.sig} \cup Metas]

LEMMA LineOf ==
  ASSUME NEW w, NEW what \in LineNames, NEW of \in {"", w.key, w.sig} \cup Metas
  PROVE  Line(what, of) \in LinesFor(w) /\ Line(what, of).line = what /\ Line(what, of).of = of
BY DEF Line, LinesFor

\* Where each line of name.pub is.
Layout(w, L, M) ==
  /\ M \in Nat /\ L \in Seq(LinesFor(w))
  /\ Len(L) = IF w.sig = NoSig THEN M + 3 ELSE M + 4
  /\ L[1] = Line("metadata", "")
  /\ \A i \in 1..M : L[1 + i] = Line("entry", w.meta[i])
  /\ L[M + 2] = Line("curve", "")
  /\ L[M + 3] = Line("public-key", w.key)
  /\ w.sig # NoSig => L[M + 4] = Line("signature", w.sig)

LEMMA PublicLinesAre ==
  ASSUME NEW w, Cert(w)
  PROVE  Layout(w, PublicLines(w), Len(w.meta))
<1> DEFINE L == PublicLines(w)
           M == Len(w.meta)
           a == <<Line("metadata", "")>>
           b == [i \in DOMAIN w.meta |-> Line("entry", w.meta[i])]
           c == <<Line("curve", ""), Line("public-key", w.key)>>
           sl == Line("signature", w.sig)
           d == IF w.sig = NoSig THEN <<>> ELSE <<sl>>
           S == LinesFor(w)
<1>1. L = ((a \o b) \o c) \o d
  BY DEF PublicLines
<1>2. w.meta \in Seq(Metas) /\ M \in Nat /\ DOMAIN w.meta = 1..M
  BY DEF Cert
<1>3. a \in Seq(S) /\ Len(a) = 1 /\ a[1] = Line("metadata", "")
  BY LineOf, One DEF LineNames
<1>4. b \in Seq(S) /\ Len(b) = M /\ \A i \in 1..M : b[i] = Line("entry", w.meta[i])
  <2>1. ASSUME NEW i \in 1..M PROVE Line("entry", w.meta[i]) \in S
    <3>1. w.meta[i] \in Metas
      BY <1>2
    <3>2. w.meta[i] \in {"", w.key, w.sig} \cup Metas /\ "entry" \in LineNames
      BY <3>1, Zenon DEF LineNames
    <3> QED
      BY <3>2, LineOf, Zenon
  <2>2. b = [i \in 1..M |-> Line("entry", w.meta[i])]
    BY <1>2
  <2> HIDE DEF b, S
  <2>3. b \in [1..M -> S]
    BY <2>1, <2>2
  <2> QED
    BY <1>2, <2>2, <2>3, SeqDef
<1>5. /\ c \in Seq(S) /\ Len(c) = 2
      /\ c[1] = Line("curve", "") /\ c[2] = Line("public-key", w.key)
  BY LineOf, Two DEF LineNames
<1>6. sl \in S
  BY LineOf DEF LineNames
<1> HIDE DEF a, b, c, sl, S, L, M
<1>7. <<sl>> \in Seq(S) /\ Len(<<sl>>) = 1 /\ <<sl>>[1] = sl
  BY <1>6, One
<1>8. d \in Seq(S)
  BY <1>7
<1>9. /\ L \in Seq(S) /\ Len(L) = M + 3 + Len(d) /\ Len(d) \in Nat
      /\ L[1] = a[1] /\ \A i \in 1..M : L[1 + i] = b[i]
      /\ L[M + 2] = c[1] /\ L[M + 3] = c[2]
      /\ \A i \in 1..Len(d) : L[M + 3 + i] = d[i]
  <2> HIDE DEF d
  <2>1. /\ a \in Seq(S) /\ b \in Seq(S) /\ c \in Seq(S) /\ d \in Seq(S)
    BY <1>3, <1>4, <1>5, <1>8, Zenon
  <2>2. Joined(L, S, a, b, c, d)
    BY <1>1, <2>1, FourParts
  <2>3. /\ L \in Seq(S) /\ Len(L) = Len(a) + Len(b) + Len(c) + Len(d)
        /\ \A i \in 1..Len(a) : L[i] = a[i]
        /\ \A i \in 1..Len(b) : L[Len(a) + i] = b[i]
        /\ \A i \in 1..Len(c) : L[Len(a) + Len(b) + i] = c[i]
        /\ \A i \in 1..Len(d) : L[Len(a) + Len(b) + Len(c) + i] = d[i]
    BY <2>2 DEF Joined
  <2>4. Len(a) = 1 /\ Len(b) = M /\ Len(c) = 2 /\ Len(d) \in Nat /\ M \in Nat
    <3>1. Len(a) = 1 /\ Len(b) = M /\ Len(c) = 2 /\ M \in Nat
      BY <1>2, <1>3, <1>4, <1>5, Zenon
    <3>2. Len(d) \in Nat
      BY <2>1
    <3> QED
      BY <3>1, <3>2
  <2>5. /\ 1 \in 1..Len(a) /\ 1 \in 1..Len(c) /\ 2 \in 1..Len(c)
        /\ Len(a) + Len(b) + 1 = M + 2 /\ Len(a) + Len(b) + 2 = M + 3
        /\ Len(a) + Len(b) + Len(c) = M + 3
    BY <2>4
  <2>6. L[1] = a[1] /\ L[M + 2] = c[1] /\ L[M + 3] = c[2]
    BY <2>3, <2>5
  <2> QED
    BY <2>3, <2>4, <2>5, <2>6
<1>10. Len(L) = IF w.sig = NoSig THEN M + 3 ELSE M + 4
  <2>1. CASE w.sig = NoSig
    <3>1. Len(d) = 0
      BY <2>1
    <3> QED
      BY <1>2, <1>9, <2>1, <3>1
  <2>2. CASE w.sig # NoSig
    <3>1. Len(d) = 1
      BY <1>7, <2>2
    <3> HIDE DEF d
    <3> QED
      BY <1>2, <1>9, <2>2, <3>1
  <2> QED
    BY <2>1, <2>2
<1>11. w.sig # NoSig => L[M + 4] = sl
  <2> SUFFICES ASSUME w.sig # NoSig PROVE L[M + 4] = sl
    OBVIOUS
  <2>1. d = <<sl>>
    OBVIOUS
  <2> HIDE DEF d
  <2>2. 1 \in 1..Len(d) /\ d[1] = sl /\ M + 3 + 1 = M + 4
    BY <1>2, <1>7, <2>1
  <2> QED
    BY <1>9, <2>2
<1> QED
  BY <1>2, <1>3, <1>4, <1>5, <1>9, <1>10, <1>11 DEF S, sl, L, M, Layout

LEMMA LineFields ==
  ASSUME NEW what, NEW of
  PROVE  Line(what, of).line = what /\ Line(what, of).of = of
BY DEF Line

\* Which line is which.
LEMMA LineKinds ==
  ASSUME NEW w, NEW L, NEW M, Layout(w, L, M), NEW i \in 1..Len(L)
  PROVE  /\ L[i].line = "public-key" <=> i = M + 3
         /\ L[i].line = "entry" <=> 1 < i /\ i <= M + 1
         /\ L[i].line = "signature" <=> i = M + 4
<1>1. M \in Nat /\ Len(L) \in {M + 3, M + 4}
  BY DEF Layout
<1>2. L[1].line = "metadata" /\ L[M + 2].line = "curve" /\ L[M + 3].line = "public-key"
  <2>1. /\ L[1] = Line("metadata", "") /\ L[M + 2] = Line("curve", "")
        /\ L[M + 3] = Line("public-key", w.key)
    BY DEF Layout
  <2>2. Line("metadata", "").line = "metadata" /\ Line("curve", "").line = "curve"
    BY DEF Line
  <2>3. Line("public-key", w.key).line = "public-key"
    BY DEF Line
  <2> QED
    BY <2>1, <2>2, <2>3
<1>3. ASSUME 1 < i, i <= M + 1 PROVE L[i].line = "entry"
  <2>1. i - 1 \in 1..M /\ 1 + (i - 1) = i
    BY <1>1, <1>3
  <2>2. \A j \in 1..M : L[1 + j] = Line("entry", w.meta[j])
    BY DEF Layout
  <2>3. L[i] = Line("entry", w.meta[i - 1])
    BY <2>1, <2>2
  <2> QED
    BY <2>3, LineFields
<1>4. ASSUME i = M + 4 PROVE L[i].line = "signature"
  <2>1. w.sig # NoSig
    <3> SUFFICES ASSUME w.sig = NoSig PROVE FALSE
      OBVIOUS
    <3>1. Len(L) = M + 3
      BY DEF Layout
    <3> QED
      BY <1>1, <1>4, <3>1
  <2>2. L[M + 4] = Line("signature", w.sig)
    BY <2>1 DEF Layout
  <2> QED
    BY <1>4, <2>2, LineFields
<1>5. i = 1 \/ (1 < i /\ i <= M + 1) \/ i = M + 2 \/ i = M + 3 \/ i = M + 4
  BY <1>1
<1>7. CASE i = 1
  <2>1. L[i].line = "metadata"
    BY <1>2, <1>7
  <2> QED
    BY <1>1, <1>7, <2>1
<1>8. CASE 1 < i /\ i <= M + 1
  <2>1. L[i].line = "entry"
    BY <1>3, <1>8
  <2> QED
    BY <1>1, <1>8, <2>1
<1>9. CASE i = M + 2
  <2>1. L[i].line = "curve"
    BY <1>2, <1>9
  <2> QED
    BY <1>1, <1>9, <2>1
<1>10. CASE i = M + 3
  <2>1. L[i].line = "public-key"
    BY <1>2, <1>10
  <2> QED
    BY <1>1, <1>10, <2>1
<1>11. CASE i = M + 4
  <2>1. L[i].line = "signature"
    BY <1>4, <1>11
  <2> QED
    BY <1>1, <1>11, <2>1
<1> QED
  BY <1>5, <1>7, <1>8, <1>9, <1>10, <1>11

\* What a certificate's metadata reads as.
MetaRead(w) == [n \in DOMAIN w.meta |-> EntryRead(w.meta[n])]

LEMMA MetaReads ==
  ASSUME NEW w, Cert(w)
  PROVE  /\ MetaRead(w) \in Seq({EntryRead(m) : m \in Metas}) /\ Len(MetaRead(w)) = Len(w.meta)
         /\ UniqueKeys(MetaRead(w))
         /\ \A m \in Metas : EntryRead(m).key = m.key /\
                             Entry(EntryRead(m).key, EntryRead(m).type, EntryRead(m).val) = EntryRead(m)
<1>1. w.meta \in Seq(Metas) /\ UniqueKeys(w.meta)
  BY DEF Cert
<1>2. ASSUME NEW m \in Metas
      PROVE  /\ EntryRead(m).key = m.key
             /\ Entry(EntryRead(m).key, EntryRead(m).type, EntryRead(m).val) = EntryRead(m)
  <2>1. m = Entry(m.key, m.type, m.val)
    BY MetasAreRecords
  <2>2. EntryRead(m) = [key |-> m.key, type |-> m.type, val |-> ReadBack(m.val)]
    BY <2>1 DEF EntryRead, Entry
  <2> QED
    BY <2>2 DEF Entry
<1>3. DOMAIN w.meta = 1..Len(w.meta) /\ Len(w.meta) \in Nat
  BY <1>1
<1> DEFINE r == MetaRead(w)
<1>4. r = [n \in 1..Len(w.meta) |-> EntryRead(w.meta[n])]
  BY <1>3 DEF MetaRead
<1> HIDE DEF r
<1>5. r \in [1..Len(w.meta) -> {EntryRead(m) : m \in Metas}]
  BY <1>1, <1>4
<1>6. r \in Seq({EntryRead(m) : m \in Metas}) /\ Len(r) = Len(w.meta)
  BY <1>3, <1>4, <1>5, SeqDef
<1>7. UniqueKeys(r)
  <2>1. DOMAIN r = DOMAIN w.meta
    BY <1>3, <1>4
  <2>2. \A n \in DOMAIN w.meta : r[n].key = w.meta[n].key
    BY <1>1, <1>2, <1>3, <1>4
  <2> QED
    BY <1>1, <2>1, <2>2 DEF UniqueKeys
<1> QED
  BY <1>2, <1>6, <1>7 DEF r

LEMMA LayoutEnd ==
  ASSUME NEW w, NEW L, NEW M, Layout(w, L, M)
  PROVE  /\ M \in Nat /\ L \in Seq(LinesFor(w)) /\ Len(L) \in {M + 3, M + 4}
         /\ L[M + 3] = Line("public-key", w.key)
         /\ w.sig = NoSig <=> Len(L) = M + 3
         /\ w.sig # NoSig => L[M + 4] = Line("signature", w.sig)
<1>1. /\ M \in Nat /\ L \in Seq(LinesFor(w))
      /\ L[M + 3] = Line("public-key", w.key)
      /\ w.sig # NoSig => L[M + 4] = Line("signature", w.sig)
  BY DEF Layout
<1>2. Len(L) = IF w.sig = NoSig THEN M + 3 ELSE M + 4
  BY DEF Layout
<1>3. CASE w.sig = NoSig
  <2>1. Len(L) = M + 3
    BY <1>2, <1>3
  <2> QED
    BY <1>1, <1>3, <2>1
<1>4. CASE w.sig # NoSig
  <2>1. Len(L) = M + 4
    BY <1>2, <1>4
  <2> QED
    BY <1>1, <1>4, <2>1
<1> QED
  BY <1>3, <1>4

\* sigcert_fread_public of as much of the file as is there, if the public key is: the
\* certificate as it reads, without the signature if that line is missing.
LEMMA ReadsCut ==
  ASSUME NEW w, Cert(w), NEW L, L = PublicLines(w), NEW n \in 0..Len(L), NEW f,
         f = SubSeq(L, 1, n), Lines(f, "public-key") # {}
  PROVE  ReadPublic(f) = [key |-> w.key, secret |-> NoKey,
                          sig |-> IF n = Len(L) THEN w.sig ELSE NoSig,
                          meta |-> MetaRead(w), enc |-> 0]
<1> DEFINE M == Len(w.meta)
<1>1. Layout(w, L, M)
  BY PublicLinesAre
<1> HIDE DEF M
<1>0. /\ M \in Nat /\ L \in Seq(LinesFor(w)) /\ Len(L) \in {M + 3, M + 4}
      /\ L[M + 3] = Line("public-key", w.key)
      /\ w.sig = NoSig <=> Len(L) = M + 3
      /\ w.sig # NoSig => L[M + 4] = Line("signature", w.sig)
  BY <1>1, LayoutEnd
<1>2. M \in Nat /\ L \in Seq(LinesFor(w)) /\ n \in Nat /\ n <= Len(L) /\ Len(L) \in {M + 3, M + 4}
  BY <1>0
<1>3. /\ f \in Seq(LinesFor(w)) /\ Len(f) = n /\ DOMAIN f = 1..n
      /\ \A i \in 1..n : f[i] = L[i]
  <2>1. \A i \in 1..n : L[i] \in LinesFor(w)
    BY <1>2
  <2>2. /\ SubSeq(L, 1, n) \in Seq(LinesFor(w))
        /\ Len(SubSeq(L, 1, n)) = IF 1 <= n THEN n - 1 + 1 ELSE 0
        /\ \A i \in 1..(n - 1 + 1) : SubSeq(L, 1, n)[i] = L[1 + i - 1]
    BY <1>2, <2>1, SubSeqProperties
  <2>3. n - 1 + 1 = n /\ \A i \in 1..n : 1 + i - 1 = i
    BY <1>2
  <2>4. Len(f) = n
    BY <1>2, <2>2, <2>3
  <2> QED
    BY <2>2, <2>3, <2>4
<1>4. \A i \in 1..n : /\ f[i].line = "public-key" <=> i = M + 3
                      /\ f[i].line = "entry" <=> 1 < i /\ i <= M + 1
                      /\ f[i].line = "signature" <=> i = M + 4
  <2> SUFFICES ASSUME NEW i \in 1..n
               PROVE  /\ f[i].line = "public-key" <=> i = M + 3
                      /\ f[i].line = "entry" <=> 1 < i /\ i <= M + 1
                      /\ f[i].line = "signature" <=> i = M + 4
    OBVIOUS
  <2>1. i \in 1..Len(L) /\ f[i] = L[i]
    BY <1>2, <1>3
  <2> QED
    BY <1>1, <2>1, LineKinds
<1>5. n >= M + 3 /\ Lines(f, "public-key") = {M + 3}
  <2>1. PICK k \in DOMAIN f : f[k].line = "public-key"
    BY DEF Lines
  <2>2. n >= M + 3
    BY <1>2, <1>3, <1>4, <2>1
  <2>3. Lines(f, "public-key") = {i \in 1..n : f[i].line = "public-key"}
    BY <1>3 DEF Lines
  <2>4. M + 3 \in 1..n
    BY <1>2, <2>2
  <2> QED
    BY <1>4, <2>2, <2>3, <2>4
<1>6. Only(f, "public-key") = w.key
  <2>1. f[M + 3] = L[M + 3] /\ L[M + 3] = Line("public-key", w.key)
    <3>1. M + 3 \in 1..n
      BY <1>2, <1>5
    <3> QED
      BY <1>0, <1>3, <3>1
  <2>2. (CHOOSE i \in {M + 3} : TRUE) = M + 3
    OBVIOUS
  <2>3. Only(f, "public-key") = f[M + 3].of
    BY <1>5, <2>2 DEF Only
  <2>4. Line("public-key", w.key).of = w.key
    BY DEF Line
  <2> QED
    BY <2>1, <2>3, <2>4
<1>7. (IF Lines(f, "signature") = {} THEN NoSig ELSE Only(f, "signature"))
        = IF n = Len(L) THEN w.sig ELSE NoSig
  <2>1. CASE n = M + 4
    <3>1. Lines(f, "signature") = {M + 4}
      <4>1. Lines(f, "signature") = {i \in 1..n : f[i].line = "signature"}
        BY <1>3 DEF Lines
      <4>2. M + 4 \in 1..n
        BY <1>2, <2>1
      <4> QED
        BY <1>4, <4>1, <4>2
    <3>2. n = Len(L) /\ w.sig # NoSig
      BY <1>0, <1>2, <2>1
    <3>3. f[M + 4] = L[M + 4] /\ L[M + 4] = Line("signature", w.sig)
      <4>1. M + 4 \in 1..n
        BY <1>2, <2>1
      <4> QED
        BY <1>0, <1>3, <3>2, <4>1
    <3>4. (CHOOSE i \in {M + 4} : TRUE) = M + 4
      OBVIOUS
    <3>5. Only(f, "signature") = f[M + 4].of
      BY <3>1, <3>4 DEF Only
    <3>6. Line("signature", w.sig).of = w.sig
      BY DEF Line
    <3> QED
      BY <3>1, <3>2, <3>3, <3>5, <3>6
  <2>2. CASE n # M + 4
    <3>1. n = M + 3
      BY <1>2, <1>5, <2>2
    <3>2. Lines(f, "signature") = {}
      BY <1>2, <1>3, <1>4, <3>1 DEF Lines
    <3>3. n = Len(L) => w.sig = NoSig
      BY <1>0, <3>1
    <3> QED
      BY <3>2, <3>3
  <2> QED
    BY <2>1, <2>2
<1>8. ReadMeta(f) = MetaRead(w)
  <2> DEFINE S == {EntryRead(m) : m \in Metas}
             entries == [i \in DOMAIN f |-> IF f[i].line = "entry" THEN EntryRead(f[i].of)
                                            ELSE Algorithm]
             chosen == Lines(f, "entry")
             r == PutEach(<<>>, entries, chosen)
             meta == MetaRead(w)
  <2>1. /\ meta \in Seq(S) /\ Len(meta) = M /\ UniqueKeys(meta)
        /\ \A m \in Metas : Entry(EntryRead(m).key, EntryRead(m).type, EntryRead(m).val) = EntryRead(m)
    BY MetaReads DEF M
  <2>2. w.meta \in Seq(Metas) /\ DOMAIN w.meta = 1..M
    BY DEF Cert, M
  <2>3. \A i \in 1..M : meta[i] = EntryRead(w.meta[i])
    BY <2>2 DEF MetaRead
  <2>4. Len(entries) = n
    BY <1>2, <1>3
  <2>5. ASSUME NEW i \in 1..M PROVE entries[1 + i] = meta[i]
    <3>1. 1 + i \in 1..n /\ 1 < 1 + i /\ 1 + i <= M + 1
      BY <1>2, <1>5
    <3>2. f[1 + i].line = "entry"
      BY <1>4, <3>1
    <3>3. f[1 + i] = Line("entry", w.meta[i])
      <4>1. \A j \in 1..M : L[1 + j] = Line("entry", w.meta[j])
        BY <1>1 DEF Layout
      <4> QED
        BY <1>3, <3>1, <4>1
    <3>4. f[1 + i].of = w.meta[i]
      <4>1. Line("entry", w.meta[i]).of = w.meta[i]
        BY DEF Line
      <4> QED
        BY <3>3, <4>1
    <3>5. entries[1 + i] = EntryRead(f[1 + i].of)
      BY <1>3, <3>1, <3>2
    <3> QED
      BY <2>3, <3>4, <3>5
  <2>6. \A i \in 1..Len(entries) : i \in chosen <=> 1 < i /\ i <= M + 1
    BY <1>3, <1>4, <2>4 DEF Lines
  <2>7. ReadMeta(f) = r
    BY DEF ReadMeta
  <2> HIDE DEF entries, chosen, S, meta
  <2>8. ASSUME NEW i \in 1..M PROVE Put(entries, 1 + i) = meta[i] /\ meta[i] \in S
    <3>1. w.meta[i] \in Metas
      <4> DEFINE ms == w.meta
      <4>1. ms \in Seq(Metas) /\ i \in DOMAIN ms
        BY <2>2
      <4> HIDE DEF ms
      <4>2. ms[i] \in Metas
        BY <4>1
      <4> QED
        BY <4>2 DEF ms
    <3>2. Put(entries, 1 + i) = Entry(meta[i].key, meta[i].type, meta[i].val)
      BY <2>5 DEF Put
    <3>3. Entry(meta[i].key, meta[i].type, meta[i].val) = meta[i]
      BY <2>1, <2>3, <3>1
    <3> QED
      BY <2>1, <3>2, <3>3
  <2>9. \A i \in (1 + 1)..(M + 1) : /\ i - 1 \in 1..M /\ 1 + (i - 1) = i
                                   /\ entries[i] = meta[i - 1] /\ Put(entries, i) = meta[i - 1]
    <3> SUFFICES ASSUME NEW i \in (1 + 1)..(M + 1)
                 PROVE  /\ i - 1 \in 1..M /\ 1 + (i - 1) = i
                        /\ entries[i] = meta[i - 1] /\ Put(entries, i) = meta[i - 1]
      OBVIOUS
    <3>1. i - 1 \in 1..M /\ 1 + (i - 1) = i
      BY <1>2
    <3> QED
      BY <2>5, <2>8, <3>1
  <2>10. r \in Seq(S) /\ IsBlock(r, <<>>, entries, 1, M + 1)
    <3>1. <<>> \in Seq(S) /\ Len(entries) \in Nat /\ 1 <= M + 1 /\ M + 1 <= Len(entries) /\ M + 1 \in Nat
      BY <1>2, <1>5, <2>4
    <3>2. \A i \in (1 + 1)..(M + 1) : Put(entries, i) \in S /\ entries[i].key \notin Keys(<<>>)
      <4>1. Keys(<<>>) = {}
        BY DEF Keys
      <4> QED
        BY <2>8, <2>9, <4>1
    <3>3. \A i, j \in (1 + 1)..(M + 1) : entries[i].key = entries[j].key => i = j
      <4> SUFFICES ASSUME NEW i \in (1 + 1)..(M + 1), NEW j \in (1 + 1)..(M + 1),
                          entries[i].key = entries[j].key
                   PROVE  i = j
        OBVIOUS
      <4>1. i - 1 \in DOMAIN meta /\ j - 1 \in DOMAIN meta /\ meta[i - 1].key = meta[j - 1].key
        BY <2>1, <2>9
      <4>2. i - 1 = j - 1
        BY <2>1, <4>1, Zenon DEF UniqueKeys
      <4> QED
        BY <4>2
    <3> QED
      BY <2>6, <3>1, <3>2, <3>3, PutEachBlock
  <2> HIDE DEF r
  <2>11. (M + 1) - 1 = M /\ Len(<<>>) = 0
    BY <1>2
  <2>12. Len(r) = M
    BY <1>2, <2>10, <2>11 DEF IsBlock
  <2>13. ASSUME NEW i \in 1..M PROVE r[i] = meta[i]
    <3>1. r[Len(<<>>) + i] = Put(entries, 1 + i)
      BY <2>10, <2>11 DEF IsBlock
    <3>2. Len(<<>>) + i = i
      BY <2>11
    <3> QED
      BY <2>8, <3>1, <3>2
  <2>14. r = meta
    BY <2>1, <2>10, <2>12, <2>13, SeqEqual
  <2> QED
    BY <2>7, <2>14 DEF meta
<1>9. ReadPublic(f) = [NoCert EXCEPT !.key = w.key,
                                    !.sig = IF n = Len(L) THEN w.sig ELSE NoSig,
                                    !.meta = MetaRead(w)]
  BY <1>6, <1>7, <1>8 DEF ReadPublic
<1> QED
  BY <1>9 DEF NoCert

-----------------------------------------------------------------------------
(* That invariant holds initially and every step preserves it.             *)

LEMMA NoneKept == Kept(NoCert) /\ NoCert.key = NoKey /\ NoCert.secret = NoKey /\ NoCert.sig = NoSig
<1>1. /\ NoCert.key = NoKey /\ NoCert.secret = NoKey /\ NoCert.sig = NoSig
      /\ NoCert.meta = <<>> /\ NoCert.enc = 0
  BY DEF NoCert
<1>2. NoSig.by = NoKey
  BY DEF NoSig
<1>3. UniqueKeys(<<>>) /\ <<>> \in Seq(Metas)
  BY DEF UniqueKeys
<1> QED
  BY <1>1, <1>2, <1>3, NoCertificate DEF Kept, Cert

LEMMA NoneLoaded ==
  ASSUME NEW W
  PROVE  Loaded(NoCert, W)
<1>1. /\ NoCert.key = NoKey /\ NoCert.secret = NoKey /\ NoCert.sig = NoSig /\ NoCert.meta = <<>>
  BY DEF NoCert
<1>2. NoSig.by = NoKey
  BY DEF NoSig
<1>3. UniqueKeys(<<>>)
  BY DEF UniqueKeys
<1> QED
  BY <1>1, <1>2, <1>3, NoCertificate DEF Loaded

LEMMA InitFInv == Init => FInv
<1> SUFFICES ASSUME Init PROVE FInv
  OBVIOUS
<1> USE DEF Init
<1>1. Types
  <2>1. \A s \in Slots : mem[s] = NoCert
    OBVIOUS
  <2>2. Cert(NoCert) /\ NoCert.enc = 0
    BY NoneKept DEF Kept
  <2>3. \A s \in Slots : Cert(mem[s]) /\ mem[s].enc \in 0..MaxUses
    BY <2>1, <2>2, SigcertAssumption
  <2>4. mem = [s \in Slots |-> mem[s]]
    BY <2>1
  <2>5. made \in SUBSET KeyPairs /\ encs \in SUBSET (1..MaxUses)
    OBVIOUS
  <2>6. /\ edits \in 0..MaxEdits /\ loads \in 0..MaxLoads
        /\ encoded \in Nat /\ stores \in Nat /\ encoded + stores <= MaxUses
    BY SigcertAssumption
  <2>7. fault \in BOOLEAN /\ shared \in BOOLEAN
    OBVIOUS
  <2> QED
    BY <2>3, <2>4, <2>5, <2>6, <2>7, Zenon DEF Types
<1>2. HeaderInv
  BY NoneKept DEF HeaderInv
<1>3. StoreInv
  BY NoneKept DEF StoreInv, PubFile, SecFile, Idle
<1>4. LoadInv
  BY NoneLoaded DEF LoadInv, Nothing
<1> QED
  BY <1>1, <1>2, <1>3, <1>4 DEF FInv

\* The other process does not move.
LEMMA LoadStays ==
  ASSUME LoadInv, NotLoading, written \subseteq written'
  PROVE  LoadInv'
<1>1. \A c : Loaded(c, written) => Loaded(c, written')
  BY DEF Loaded
<1>2. loader' = loader /\ got'.cert = NoCert /\ got'.calm = NoCert
  BY DEF NotLoading, Nothing
<1>3. Loaded(got'.cert, written')
  BY <1>2, NoneLoaded
<1> QED
  BY <1>1, <1>2, <1>3 DEF LoadInv

\* Nothing is stored.
LEMMA StoreStays ==
  ASSUME StoreInv, UNCHANGED fileVars
  PROVE  StoreInv'
BY DEF StoreInv, fileVars

LEMMA HeaderStays ==
  ASSUME HeaderInv, UNCHANGED msgVars
  PROVE  HeaderInv'
BY DEF HeaderInv, msgVars

\* One certificate changes.
LEMMA TypesEdited ==
  ASSUME Types, NEW s \in Slots, NEW c, Cert(c), c.enc \in 0..MaxUses,
         mem' = [mem EXCEPT ![s] = c],
         made' \in SUBSET KeyPairs, edits' \in 0..MaxEdits, encs' \in SUBSET (1..MaxUses),
         encoded' \in Nat, stores' \in Nat, encoded' + stores' <= MaxUses,
         fault' \in BOOLEAN, shared' \in BOOLEAN, loads' = loads
  PROVE  Types'
<1>1. \A t \in Slots : mem'[t] = IF t = s THEN c ELSE mem[t]
  BY DEF Types
<1>2. mem' = [t \in Slots |-> mem'[t]]
  BY DEF Types
<1>3. \A t \in Slots : Cert(mem'[t]) /\ mem'[t].enc \in 0..MaxUses
  BY <1>1 DEF Types
<1>4. loads' \in 0..MaxLoads
  BY DEF Types
<1> QED
  BY <1>2, <1>3, <1>4 DEF Types

\* Steps that change certificates in memory only.
LEMMA MemoryStep ==
  ASSUME FInv, NEW s \in Slots, NEW t \in Slots,
         Create(s) \/ Copy(s, t) \/ Destroy(s) \/ ForgetSecret(s) \/ MetaSet(s) \/ SignCert(s, t)
  PROVE  FInv'
<1>1. UNCHANGED <<msgVars, fileVars, encoded, stores, written, loads>> /\ NotLoading
  BY DEF Create, Copy, Destroy, ForgetSecret, MetaSet, SignCert, fileVars, NotLoading
<1>2. HeaderInv' /\ StoreInv' /\ LoadInv'
  BY <1>1, HeaderStays, StoreStays, LoadStays DEF FInv
<1>3. /\ \A r \in Slots : Cert(mem[r]) /\ mem[r].enc \in 0..MaxUses
      /\ encoded' \in Nat /\ stores' \in Nat /\ encoded' + stores' <= MaxUses
  BY <1>1 DEF FInv, Types
<1>4. /\ made' \in SUBSET KeyPairs /\ edits' \in 0..MaxEdits /\ encs' \in SUBSET (1..MaxUses)
      /\ fault' \in BOOLEAN /\ shared' \in BOOLEAN
  <2>1. edits' \in 0..MaxEdits
    <3>1. edits \in 0..MaxEdits
      BY DEF FInv, Types
    <3>2. edits' = edits \/ (edits < MaxEdits /\ edits' = edits + 1)
      BY DEF Create, Copy, Destroy, ForgetSecret, MetaSet, SignCert, Edit
    <3> QED
      BY <3>1, <3>2, SigcertAssumption
  <2>2. made' \in SUBSET KeyPairs
    BY DEF FInv, Types, Create, Copy, Destroy, ForgetSecret, MetaSet, SignCert
  <2>3. encs' \in SUBSET (1..MaxUses)
    BY DEF FInv, Types, Create, Copy, Destroy, ForgetSecret, MetaSet, SignCert
  <2>4. fault' \in BOOLEAN
    BY DEF FInv, Types, Create, Copy, Destroy, ForgetSecret, MetaSet, SignCert
  <2>5. shared' \in BOOLEAN
    BY DEF FInv, Types, Create, Copy, Destroy, ForgetSecret, MetaSet, SignCert
  <2> QED
    BY <2>1, <2>2, <2>3, <2>4, <2>5
<1> DEFINE Edited(r, c) == Cert(c) /\ c.enc \in 0..MaxUses /\ mem' = [mem EXCEPT ![r] = c]
<1>5. PICK r, c : r \in Slots /\ Edited(r, c)
  <2>1. CASE Create(s)
    <3>1. PICK k \in KeyPairs : mem' = [mem EXCEPT ![s] = [key |-> k, secret |-> k, sig |-> NoSig,
                                                         meta |-> <<Algorithm>>, enc |-> 0]]
      BY <2>1 DEF Create
    <3> DEFINE c == [key |-> k, secret |-> k, sig |-> NoSig, meta |-> <<Algorithm>>, enc |-> 0]
    <3>2. /\ c.key = k /\ c.secret = k /\ c.sig = NoSig /\ c.meta = <<Algorithm>> /\ c.enc = 0
          /\ Certificate(c)
      BY DEF Certificate
    <3>3. <<Algorithm>> \in Seq(Metas) /\ UniqueKeys(<<Algorithm>>)
      BY DEF Metas, UniqueKeys
    <3>4. NoSig.by = NoKey
      BY DEF NoSig
    <3> HIDE DEF c
    <3>5. Cert(c)
      BY <3>2, <3>3, <3>4 DEF Cert
    <3>6. c.enc \in 0..MaxUses
      BY <3>2, SigcertAssumption
    <3>7. Edited(s, c)
      BY <3>1, <3>5, <3>6 DEF c
    <3> QED
      BY <3>7
  <2>2. CASE Copy(s, t)
    <3>1. Edited(t, mem[s])
      BY <1>3, <2>2 DEF Copy
    <3> QED
      BY <3>1
  <2>3. CASE Destroy(s)
    <3>1. Edited(s, NoCert)
      BY <2>3, NoneKept, SigcertAssumption DEF Destroy, Kept
    <3> QED
      BY <3>1
  <2>4. CASE ForgetSecret(s)
    <3> DEFINE c == [mem[s] EXCEPT !.secret = NoKey]
    <3>1. Cert(mem[s]) /\ mem[s].enc \in 0..MaxUses
      BY <1>3
    <3>2. /\ Certificate(c) /\ c.key = mem[s].key /\ c.secret = NoKey /\ c.sig = mem[s].sig
          /\ c.meta = mem[s].meta /\ c.enc = mem[s].enc
      BY <3>1 DEF Cert, Certificate
    <3>3. mem' = [mem EXCEPT ![s] = c]
      BY <2>4 DEF ForgetSecret
    <3> HIDE DEF c
    <3>4. Edited(s, c)
      BY <3>1, <3>2, <3>3 DEF Cert
    <3> QED
      BY <3>4
  <2>5. CASE MetaSet(s)
    <3>1. PICK m \in Metadata : mem' = [mem EXCEPT ![s].meta = KvPut(mem[s].meta, m.key, m.type, m.val)]
      BY <2>5 DEF MetaSet
    <3> DEFINE put == KvPut(mem[s].meta, m.key, m.type, m.val)
               c == [mem[s] EXCEPT !.meta = put]
    <3>2. Cert(mem[s]) /\ mem[s].enc \in 0..MaxUses
      BY <1>3
    <3>3. put \in Seq(Metas) /\ UniqueKeys(put)
      <4> DEFINE old == mem[s].meta
      <4>1. old \in Seq(Metas) /\ UniqueKeys(old)
        BY <3>2 DEF Cert
      <4>2. Entry(m.key, m.type, m.val) \in Metas
        BY MetadataAssumption DEF Metas
      <4> HIDE DEF old
      <4>3. /\ KvPut(old, m.key, m.type, m.val) \in Seq(Metas)
            /\ UniqueKeys(KvPut(old, m.key, m.type, m.val))
        BY <4>1, <4>2, PutRange, PutUnique
      <4> QED
        BY <4>3 DEF old
    <3>4. mem' = [mem EXCEPT ![s] = c]
      BY <3>1
    <3> HIDE DEF put
    <3>5. /\ Certificate(c) /\ c.key = mem[s].key /\ c.secret = mem[s].secret
          /\ c.sig = mem[s].sig /\ c.meta = put /\ c.enc = mem[s].enc
      BY <3>2 DEF Cert, Certificate
    <3> HIDE DEF c
    <3>6. Edited(s, c)
      BY <3>2, <3>3, <3>4, <3>5 DEF Cert
    <3> QED
      BY <3>6
  <2>6. CASE SignCert(s, t)
    <3> DEFINE g == [by |-> mem[s].secret, over |-> SignedContent(mem[t])]
               c == [mem[t] EXCEPT !.sig = g]
    <3>1. Cert(mem[t]) /\ mem[t].enc \in 0..MaxUses /\ Cert(mem[s])
      BY <1>3
    <3>2. g.by \in KeyPairs \cup {NoKey}
      <4>1. g.by = mem[s].secret
        OBVIOUS
      <4> HIDE DEF g
      <4> QED
        BY <3>1, <4>1 DEF Cert
    <3>3. mem' = [mem EXCEPT ![t] = c]
      BY <2>6 DEF SignCert
    <3> HIDE DEF g
    <3>4. /\ Certificate(c) /\ c.key = mem[t].key /\ c.secret = mem[t].secret
          /\ c.sig = g /\ c.meta = mem[t].meta /\ c.enc = mem[t].enc
      BY <3>1 DEF Cert, Certificate
    <3> HIDE DEF c
    <3>5. Edited(t, c)
      BY <3>1, <3>2, <3>3, <3>4 DEF Cert
    <3> QED
      BY <3>5
  <2> QED
    BY <2>1, <2>2, <2>3, <2>4, <2>5, <2>6
<1>6. Types'
  <2>1. Types /\ loads' = loads
    BY <1>1 DEF FInv
  <2> QED
    BY <1>3, <1>4, <1>5, <2>1, TypesEdited
<1> QED
  BY <1>2, <1>6 DEF FInv

\* What sigcert_encode is given does not depend on the secret key or an encoding.
LEMMA SameHeader ==
  ASSUME NEW c, NEW d, c.key = d.key, c.meta = d.meta, c.sig = d.sig
  PROVE  HeaderOf(c) = HeaderOf(d)
BY DEF HeaderOf, Encoded

\* What a certificate becomes in a header, and in a store without its encoding.
LEMMA SentKept ==
  ASSUME NEW c, Cert(c)
  PROVE  /\ Kept([c EXCEPT !.secret = NoKey, !.enc = 0])
         /\ Kept([c EXCEPT !.enc = 0])
         /\ [c EXCEPT !.secret = NoKey, !.enc = 0].secret = NoKey
         /\ HeaderOf([c EXCEPT !.secret = NoKey, !.enc = 0]) = HeaderOf(c)
<1> DEFINE d == [c EXCEPT !.secret = NoKey, !.enc = 0]
           k == [c EXCEPT !.enc = 0]
<1>1. /\ Certificate(d) /\ d.key = c.key /\ d.secret = NoKey /\ d.sig = c.sig
      /\ d.meta = c.meta /\ d.enc = 0
  <2>1. c = [key |-> c.key, secret |-> c.secret, sig |-> c.sig, meta |-> c.meta, enc |-> c.enc]
    BY DEF Cert, Certificate
  <2>2. d = [key |-> c.key, secret |-> NoKey, sig |-> c.sig, meta |-> c.meta, enc |-> 0]
    <3> DEFINE b == [c EXCEPT !.secret = NoKey]
    <3>1. b = [key |-> c.key, secret |-> NoKey, sig |-> c.sig, meta |-> c.meta, enc |-> c.enc]
      BY <2>1
    <3>2. d = [b EXCEPT !.enc = 0]
      OBVIOUS
    <3> HIDE DEF b, d
    <3> QED
      BY <3>1, <3>2
  <2> HIDE DEF d
  <2> QED
    BY <2>2 DEF Certificate
<1>2. /\ Certificate(k) /\ k.key = c.key /\ k.secret = c.secret /\ k.sig = c.sig
      /\ k.meta = c.meta /\ k.enc = 0
  BY DEF Cert, Certificate
<1> HIDE DEF d, k
<1>3. Kept(d) /\ Kept(k)
  BY <1>1, <1>2 DEF Kept, Cert
<1>4. HeaderOf(d) = HeaderOf(c)
  BY <1>1, SameHeader
<1> QED
  BY <1>1, <1>3, <1>4 DEF d, k

LEMMA PutHeaderStep ==
  ASSUME FInv, NEW s \in Slots, HeaderPutCert(s)
  PROVE  FInv'
<1>1. /\ UNCHANGED <<made, edits, shared, fileVars, stores, written, loads>> /\ NotLoading
      /\ encoded + stores < MaxUses
  BY DEF HeaderPutCert, fileVars, NotLoading
<1>2. StoreInv' /\ LoadInv'
  BY <1>1, StoreStays, LoadStays DEF FInv
<1>3. /\ Cert(mem[s]) /\ encoded \in Nat /\ stores \in Nat /\ encs \in SUBSET (1..MaxUses)
      /\ made \in SUBSET KeyPairs /\ edits \in 0..MaxEdits /\ fault \in BOOLEAN
      /\ shared \in BOOLEAN
  BY DEF FInv, Types
<1>4. CASE mem[s].enc \in encs \cup {0}
  <2> DEFINE c == [mem[s] EXCEPT !.enc = encoded + 1]
  <2>1. /\ encs' = (encs \ {mem[s].enc}) \cup {encoded + 1}
        /\ mem' = [mem EXCEPT ![s] = c]
        /\ encoded' = encoded + 1 /\ fault' = fault
        /\ header' = HeaderOf(mem[s])
        /\ sent' = [mem[s] EXCEPT !.secret = NoKey, !.enc = 0]
    BY <1>4 DEF HeaderPutCert, Reencode, HeaderOf
  <2>2. /\ Certificate(c) /\ c.key = mem[s].key /\ c.secret = mem[s].secret
        /\ c.sig = mem[s].sig /\ c.meta = mem[s].meta /\ c.enc = encoded + 1
    BY <1>3 DEF Cert, Certificate
  <2> HIDE DEF c
  <2>3. Cert(c)
    BY <1>3, <2>2 DEF Cert
  <2>4. encoded + 1 \in 1..MaxUses /\ encoded + 1 + stores <= MaxUses
    BY <1>1, <1>3, SigcertAssumption
  <2>5. encs' \in SUBSET (1..MaxUses)
    BY <1>3, <2>1, <2>4
  <2>6. c.enc \in 0..MaxUses
    BY <2>2, <2>4
  <2>7. Types'
    <3>1. encoded' \in Nat /\ stores' \in Nat /\ encoded' + stores' <= MaxUses
      BY <1>1, <1>3, <2>1, <2>4
    <3>2. /\ made' \in SUBSET KeyPairs /\ edits' \in 0..MaxEdits /\ fault' \in BOOLEAN
          /\ shared' \in BOOLEAN /\ loads' = loads
      BY <1>1, <1>3, <2>1
    <3>3. Types /\ mem' = [mem EXCEPT ![s] = c]
      BY <2>1 DEF FInv
    <3> QED
      BY <2>3, <2>5, <2>6, <3>1, <3>2, <3>3, TypesEdited
  <2>8. HeaderInv'
    BY <1>3, <2>1, SentKept DEF HeaderInv
  <2> QED
    BY <1>2, <2>7, <2>8 DEF FInv
<1>5. CASE mem[s].enc \notin encs \cup {0}
  <2>1. fault' = TRUE /\ UNCHANGED <<encs, mem, encoded, header, sent>>
    BY <1>5 DEF HeaderPutCert
  <2>2. Types'
    BY <1>1, <2>1 DEF FInv, Types
  <2>3. HeaderInv'
    BY <2>1, HeaderStays DEF FInv, msgVars
  <2> QED
    BY <1>2, <2>2, <2>3 DEF FInv
<1> QED
  BY <1>4, <1>5

\* What header_get_cert takes out is what was put in.
LEMMA TakenIsSent ==
  ASSUME FInv, NEW s \in Slots, HeaderGetCert(s)
  PROVE  mem' = [mem EXCEPT ![s] = sent] /\ mem'[s] = sent /\ Kept(sent)
<1>1. Kept(sent) /\ sent.secret = NoKey /\ header = HeaderOf(sent)
  BY DEF HeaderGetCert, FInv, HeaderInv
<1>2. Decoded(KvSplit(HeaderOf(sent), CertPrefix)) = [sent EXCEPT !.secret = NoKey, !.enc = 0]
  BY <1>1, HeaderKeeps DEF Kept
<1>3. [sent EXCEPT !.secret = NoKey, !.enc = 0] = sent
  BY <1>1 DEF Kept, Cert, Certificate
<1>4. mem' = [mem EXCEPT ![s] = sent]
  BY <1>1, <1>2, <1>3 DEF HeaderGetCert
<1> QED
  BY <1>1, <1>4 DEF FInv, Types

LEMMA GetHeaderStep ==
  ASSUME FInv, NEW s \in Slots, HeaderGetCert(s)
  PROVE  FInv'
<1>1. /\ UNCHANGED <<made, edits, encs, encoded, fault, shared, fileVars, stores, written, loads>>
      /\ NotLoading /\ header' = <<>> /\ sent' = NoCert
  BY DEF HeaderGetCert, fileVars, NotLoading
<1>2. StoreInv' /\ LoadInv'
  BY <1>1, StoreStays, LoadStays DEF FInv
<1>3. HeaderInv'
  BY <1>1, NoneKept DEF HeaderInv
<1>4. mem' = [mem EXCEPT ![s] = sent] /\ Cert(sent) /\ sent.enc \in 0..MaxUses
  BY TakenIsSent, SigcertAssumption DEF Kept
<1>5. /\ made' \in SUBSET KeyPairs /\ edits' \in 0..MaxEdits /\ encs' \in SUBSET (1..MaxUses)
      /\ encoded' \in Nat /\ stores' \in Nat /\ encoded' + stores' <= MaxUses
      /\ fault' \in BOOLEAN /\ shared' \in BOOLEAN
  BY <1>1 DEF FInv, Types
<1>6. Types'
  <2>1. Types /\ loads' = loads
    BY <1>1 DEF FInv
  <2> QED
    BY <1>4, <1>5, <2>1, TypesEdited
<1> QED
  BY <1>2, <1>3, <1>6 DEF FInv

-----------------------------------------------------------------------------
(* The steps of a store.                                                   *)

LEMMA FilesGrow ==
  ASSUME NEW W, NEW V, W \subseteq V
  PROVE  \A f : (PubFile(f, W) => PubFile(f, V)) /\ (SecFile(f, W) => SecFile(f, V))
BY DEF PubFile, SecFile

\* The files there are when one was opened, written to its end or only to some point.
LEMMA FilesWritten ==
  ASSUME NEW W, NEW w \in W, Kept(w)
  PROVE  /\ PubFile(<<>>, W) /\ PubFile(PublicLines(w), W)
         /\ \A f \in Cut(PublicLines(w)) : PubFile(f, W)
         /\ SecFile(<<>>, W) /\ SecFile(SecretLines(w), W)
         /\ \A f \in Cut(SecretLines(w)) : SecFile(f, W)
<1> DEFINE P == PublicLines(w)
           S == SecretLines(w)
<1>1. P \in Seq(LinesFor(w)) /\ Len(P) \in Nat
  <2>1. Layout(w, P, Len(w.meta))
    BY PublicLinesAre DEF Kept
  <2> HIDE DEF P
  <2>2. P \in Seq(LinesFor(w))
    BY <2>1 DEF Layout
  <2> QED
    BY <2>2
<1>2. S \in Seq({Line("curve", ""), Line("secret-key", w.secret)}) /\ Len(S) \in Nat
  BY Two DEF SecretLines
<1>3. ASSUME NEW T, NEW lines \in Seq(T)
      PROVE  SubSeq(lines, 1, 0) = <<>> /\ SubSeq(lines, 1, Len(lines)) = lines
             /\ 0 \in 0..Len(lines) /\ Len(lines) \in 0..Len(lines)
  OBVIOUS
<1>4. PubFile(<<>>, W) /\ PubFile(P, W)
  <2>1. \E n \in 0..Len(P) : <<>> = SubSeq(P, 1, n)
    BY <1>1, <1>3
  <2>2. \E n \in 0..Len(P) : P = SubSeq(P, 1, n)
    BY <1>1, <1>3
  <2> HIDE DEF P
  <2> QED
    BY <2>1, <2>2 DEF PubFile, P
<1>5. SecFile(<<>>, W) /\ SecFile(S, W)
  <2>1. \E n \in 0..Len(S) : <<>> = SubSeq(S, 1, n)
    BY <1>2, <1>3
  <2>2. \E n \in 0..Len(S) : S = SubSeq(S, 1, n)
    BY <1>2, <1>3
  <2> QED
    BY <2>1, <2>2 DEF SecFile
<1>6. \A f \in Cut(P) : PubFile(f, W)
  BY DEF Cut, PubFile
<1>7. \A f \in Cut(S) : SecFile(f, W)
  BY DEF Cut, SecFile
<1> QED
  BY <1>4, <1>5, <1>6, <1>7

LEMMA TypesRest ==
  ASSUME Types, UNCHANGED memVars, stores' \in Nat, encoded + stores' <= MaxUses,
         loads' \in 0..MaxLoads
  PROVE  Types'
BY DEF Types, memVars

LEMMA StoreBeginStep ==
  ASSUME FInv, NEW s \in Slots, StoreBegin(s)
  PROVE  FInv'
<1> DEFINE c == [mem[s] EXCEPT !.enc = 0]
<1>1. /\ UNCHANGED <<sec, memVars, msgVars, loads, encoded>> /\ NotLoading
      /\ encoded + stores < MaxUses /\ stores' = stores + 1
      /\ storer' = [pc |-> "public", cert |-> c] /\ pub' = <<>> /\ stored' = NoCert
      /\ written' = written \cup {c}
  BY DEF StoreBegin, NotLoading, memVars
<1>2. Kept(c)
  BY SentKept DEF FInv, Types
<1> HIDE DEF c
<1>3. Types'
  <2>1. encoded \in Nat /\ stores \in Nat /\ loads \in 0..MaxLoads
    BY DEF FInv, Types
  <2>2. stores' \in Nat /\ encoded + stores' <= MaxUses /\ loads' \in 0..MaxLoads
    BY <1>1, <2>1, SigcertAssumption
  <2> QED
    BY <1>1, <2>2, TypesRest DEF FInv
<1>4. HeaderInv' /\ LoadInv'
  BY <1>1, HeaderStays, LoadStays DEF FInv
<1>5. StoreInv'
  <2>1. PubFile(pub', written') /\ SecFile(sec', written')
    BY <1>1, <1>2, FilesGrow, FilesWritten DEF FInv, StoreInv
  <2>2. \A w \in written' : Kept(w)
    BY <1>1, <1>2 DEF FInv, StoreInv
  <2>3. storer'.pc = "public" /\ storer'.cert = c /\ c \in written'
    BY <1>1
  <2> QED
    BY <1>1, <1>2, <2>1, <2>2, <2>3 DEF StoreInv
<1> QED
  BY <1>3, <1>4, <1>5 DEF FInv

LEMMA StoreStep ==
  ASSUME FInv, StorePublic \/ StoreOpen \/ StoreSecret \/ StoreFails
  PROVE  FInv'
<1> DEFINE c == storer.cert
<1>1. UNCHANGED <<stores, written, memVars, msgVars, loads, encoded>> /\ NotLoading
  BY DEF StorePublic, StoreOpen, StoreSecret, StoreFails, NotLoading, memVars
<1>2. Types' /\ HeaderInv' /\ LoadInv'
  <2>1. stores' \in Nat /\ encoded + stores' <= MaxUses /\ loads' \in 0..MaxLoads
    BY <1>1 DEF FInv, Types
  <2> QED
    BY <1>1, <2>1, TypesRest, HeaderStays, LoadStays DEF FInv
<1>3. /\ Kept(c) /\ c \in written /\ stored = NoCert /\ storer = [pc |-> storer.pc, cert |-> c]
  BY DEF StorePublic, StoreOpen, StoreSecret, StoreFails, FInv, StoreInv
<1>4. /\ \A w \in written : Kept(w)
      /\ PubFile(pub, written) /\ SecFile(sec, written)
  BY DEF FInv, StoreInv
<1>5. Idle.pc = "idle" /\ Kept(Idle.cert) /\ Idle = [pc |-> Idle.pc, cert |-> Idle.cert]
  BY NoneKept DEF Idle
<1>6. CASE StorePublic
  <2>1. pub' = PublicLines(c) /\ UNCHANGED <<sec, stored>>
    BY <1>6 DEF StorePublic
  <2>2. PubFile(pub', written) /\ SecFile(sec', written)
    BY <1>3, <1>4, <2>1, FilesWritten
  <2>3. CASE c.secret # NoKey
    <3>1. storer' = [storer EXCEPT !.pc = "open"]
      BY <1>6, <2>3 DEF StorePublic
    <3>2. storer' = [pc |-> "open", cert |-> c] /\ storer'.pc = "open" /\ storer'.cert = c
      BY <1>3, <3>1
    <3> HIDE DEF c
    <3>3. StoreInv'
      BY <1>1, <1>3, <1>4, <2>1, <2>2, <2>3, <3>2 DEF StoreInv
    <3> QED
      BY <1>2, <3>3 DEF FInv
  <2>4. CASE c.secret = NoKey
    <3>1. storer' = Idle
      BY <1>6, <2>4 DEF StorePublic
    <3>2. StoreInv'
      BY <1>1, <1>3, <1>4, <1>5, <2>1, <2>2, <3>1 DEF StoreInv
    <3> QED
      BY <1>2, <3>2 DEF FInv
  <2> QED
    BY <2>3, <2>4
<1>7. CASE StoreOpen
  <2>1. /\ sec' = <<>> /\ storer' = [storer EXCEPT !.pc = "secret"] /\ storer.pc = "open"
        /\ UNCHANGED <<pub, stored>>
    BY <1>7 DEF StoreOpen
  <2>2. PubFile(pub', written) /\ SecFile(sec', written)
    BY <1>3, <1>4, <2>1, FilesWritten
  <2>3. storer' = [pc |-> "secret", cert |-> c] /\ storer'.pc = "secret" /\ storer'.cert = c
    BY <1>3, <2>1
  <2>4. pub' = PublicLines(c) /\ c.secret # NoKey
    BY <2>1 DEF FInv, StoreInv
  <2> HIDE DEF c
  <2>5. StoreInv'
    BY <1>1, <1>3, <1>4, <2>1, <2>2, <2>3, <2>4 DEF StoreInv
  <2> QED
    BY <1>2, <2>5 DEF FInv
<1>8. CASE StoreSecret
  <2>1. /\ sec' = SecretLines(c) /\ storer' = Idle /\ stored' = c /\ storer.pc = "secret"
        /\ UNCHANGED pub
    BY <1>8 DEF StoreSecret
  <2>2. PubFile(pub', written) /\ SecFile(sec', written)
    BY <1>3, <1>4, <2>1, FilesWritten
  <2>3. pub' = PublicLines(c) /\ c.secret # NoKey
    BY <2>1 DEF FInv, StoreInv
  <2> HIDE DEF c
  <2>4. StoreInv'
    BY <1>1, <1>3, <1>4, <1>5, <2>1, <2>2, <2>3 DEF StoreInv
  <2> QED
    BY <1>2, <2>4 DEF FInv
<1>9. CASE StoreFails
  <2>1. storer' = Idle /\ stored' = stored
    BY <1>9 DEF StoreFails
  <2>2. PubFile(pub', written) /\ SecFile(sec', written)
    BY <1>3, <1>4, <1>9, FilesWritten DEF StoreFails
  <2> HIDE DEF c
  <2>3. StoreInv'
    BY <1>1, <1>3, <1>4, <1>5, <2>1, <2>2 DEF StoreInv
  <2> QED
    BY <1>2, <2>3 DEF FInv
<1> QED
  BY <1>6, <1>7, <1>8, <1>9

\* The files stay as they are when the program dies.
LEMMA DeathStep ==
  ASSUME FInv, Crash
  PROVE  FInv'
<1>1. /\ UNCHANGED <<made, edits, encoded, fault, pub, sec, stores, stored, written, msgVars, loads>>
      /\ NotLoading /\ storer' = Idle /\ storer.pc # "idle"
      /\ mem' = [s \in Slots |-> NoCert] /\ encs' = {} /\ shared' = FALSE
  BY DEF Crash, NotLoading
<1>2. HeaderInv' /\ LoadInv'
  BY <1>1, HeaderStays, LoadStays DEF FInv
<1>3. Types'
  <2>1. \A s \in Slots : mem'[s] = NoCert
    BY <1>1
  <2>2. mem' = [s \in Slots |-> mem'[s]]
    BY <1>1, <2>1
  <2>3. \A s \in Slots : Cert(mem'[s]) /\ mem'[s].enc \in 0..MaxUses
    BY <2>1, NoneKept, SigcertAssumption DEF Kept
  <2>4. /\ made' \in SUBSET KeyPairs /\ edits' \in 0..MaxEdits /\ encs' \in SUBSET (1..MaxUses)
        /\ encoded' \in Nat /\ stores' \in Nat /\ encoded' + stores' <= MaxUses
        /\ fault' \in BOOLEAN /\ shared' \in BOOLEAN /\ loads' \in 0..MaxLoads
    BY <1>1 DEF FInv, Types
  <2> QED
    BY <2>2, <2>3, <2>4, Zenon DEF Types
<1>4. StoreInv'
  <2>1. Idle.pc = "idle" /\ Kept(Idle.cert) /\ Idle = [pc |-> Idle.pc, cert |-> Idle.cert]
    BY NoneKept DEF Idle
  <2> QED
    BY <1>1, <2>1 DEF FInv, StoreInv
<1> QED
  BY <1>2, <1>3, <1>4 DEF FInv

-----------------------------------------------------------------------------
(* The steps of a load.                                                    *)

LEMMA AsReadIs ==
  ASSUME NEW w, Kept(w)
  PROVE  /\ AsRead(w) = [key |-> w.key, secret |-> w.secret, sig |-> w.sig,
                         meta |-> MetaRead(w), enc |-> 0]
         /\ PublicOf(AsRead(w)) = [key |-> w.key, secret |-> NoKey, sig |-> w.sig,
                                   meta |-> MetaRead(w), enc |-> 0]
<1>1. w = [key |-> w.key, secret |-> w.secret, sig |-> w.sig, meta |-> w.meta, enc |-> 0]
  BY DEF Kept, Cert, Certificate
<1>2. AsRead(w) = [w EXCEPT !.meta = MetaRead(w)]
  BY DEF AsRead, MetaRead
<1>3. AsRead(w) = [key |-> w.key, secret |-> w.secret, sig |-> w.sig,
                   meta |-> MetaRead(w), enc |-> 0]
  BY <1>1, <1>2
<1>4. PublicOf(AsRead(w)) = [key |-> w.key, secret |-> NoKey, sig |-> w.sig,
                             meta |-> MetaRead(w), enc |-> 0]
  BY <1>3 DEF PublicOf
<1> QED
  BY <1>3, <1>4

LEMMA OneLine ==
  ASSUME NEW e
  PROVE  Lines(<<e>>, e.line) # {}
<1> DEFINE f == <<e>>
<1>1. 1 \in DOMAIN f /\ f[1] = e
  OBVIOUS
<1> HIDE DEF f
<1>2. 1 \in Lines(f, e.line)
  BY <1>1 DEF Lines
<1> QED
  BY <1>2 DEF f

\* What is not a file, or does not parse.
LEMMA NoFile ==
  Lines(Absent, "absent") # {} /\ Lines(<<Line("broken", "")>>, "broken") # {}
<1>1. Line("broken", "").line = "broken"
  BY DEF Line
<1>2. [line |-> "absent", of |-> ""].line = "absent"
  OBVIOUS
<1>3. Lines(<<[line |-> "absent", of |-> ""]>>, [line |-> "absent", of |-> ""].line) # {}
  BY OneLine
<1> QED
  BY <1>1, <1>2, <1>3, OneLine DEF Absent

\* What is read of name.pub: of some certificate, at least the key and the metadata.
LEMMA PublicRead ==
  ASSUME NEW W, \A w \in W : Kept(w), NEW f, PubFile(f, W),
         Parses(f, {"metadata", "curve", "public-key"})
  PROVE  /\ Loaded(ReadPublic(f), W) /\ ReadPublic(f).secret = NoKey
         /\ \A w \in W : f = PublicLines(w) => ReadPublic(f) = PublicOf(AsRead(w))
<1>1. /\ Lines(f, "broken") = {} /\ Lines(f, "absent") = {}
      /\ Lines(f, "public-key") # {}
  BY Zenon DEF Parses
<1>2. f # Absent /\ f # <<Line("broken", "")>>
  BY <1>1, NoFile
<1>3. PICK w \in W : \E n \in 0..Len(PublicLines(w)) : f = SubSeq(PublicLines(w), 1, n)
  BY <1>2 DEF PubFile
<1>4. PICK n \in 0..Len(PublicLines(w)) : f = SubSeq(PublicLines(w), 1, n)
  BY <1>3
<1> DEFINE r == ReadPublic(f)
           g == IF n = Len(PublicLines(w)) THEN w.sig ELSE NoSig
<1>5. Kept(w) /\ Cert(w)
  BY DEF Kept
<1>6. r = [key |-> w.key, secret |-> NoKey, sig |-> g, meta |-> MetaRead(w), enc |-> 0]
  BY <1>1, <1>4, <1>5, ReadsCut
<1>7. g = w.sig \/ g = NoSig
  OBVIOUS
<1> HIDE DEF r, g
<1>8. /\ r.key = w.key /\ r.secret = NoKey /\ r.sig = g /\ r.meta = MetaRead(w) /\ r.enc = 0
      /\ Certificate(r)
  BY <1>6 DEF Certificate
<1>9. Loaded(r, W)
  <2>1. NoSig.by = NoKey
    BY DEF NoSig
  <2>2. r.sig.by \in KeyPairs \cup {NoKey} /\ r.key \in KeyPairs \cup {NoKey}
    BY <1>5, <1>7, <1>8, <2>1 DEF Cert
  <2>3. UniqueKeys(r.meta)
    BY <1>5, <1>8, MetaReads
  <2>4. ASSUME r.sig # NoSig PROVE PublicOf(r) = PublicOf(AsRead(w))
    <3>1. g = w.sig
      BY <1>7, <1>8, <2>4
    <3>2. r = PublicOf(AsRead(w))
      BY <1>5, <1>6, <3>1, AsReadIs
    <3>3. PublicOf(r) = r
      BY <1>6 DEF PublicOf
    <3> QED
      BY <3>2, <3>3
  <2> QED
    BY <1>8, <2>2, <2>3, <2>4 DEF Loaded
<1>10. ASSUME NEW v \in W, f = PublicLines(v) PROVE r = PublicOf(AsRead(v))
  <2> DEFINE L == PublicLines(v)
  <2>1. Kept(v) /\ Cert(v)
    BY DEF Kept
  <2>2. Layout(v, L, Len(v.meta))
    BY <2>1, PublicLinesAre
  <2> HIDE DEF L
  <2>3. L \in Seq(LinesFor(v)) /\ Len(L) \in 0..Len(L)
    <3>1. L \in Seq(LinesFor(v))
      BY <2>2 DEF Layout
    <3> QED
      BY <3>1
  <2>4. L = SubSeq(L, 1, Len(L))
    BY <2>3, SubSeqFull
  <2>5. f = SubSeq(L, 1, Len(L))
    BY <1>10, <2>4 DEF L
  <2>6. ReadPublic(f) = [key |-> v.key, secret |-> NoKey,
                         sig |-> IF Len(L) = Len(L) THEN v.sig ELSE NoSig,
                         meta |-> MetaRead(v), enc |-> 0]
    BY <1>1, <2>1, <2>3, <2>5, ReadsCut DEF L
  <2>7. r = [key |-> v.key, secret |-> NoKey, sig |-> v.sig, meta |-> MetaRead(v), enc |-> 0]
    BY <2>6 DEF r
  <2> QED
    BY <2>1, <2>7, AsReadIs
<1> QED
  BY <1>8, <1>9, <1>10 DEF r

\* What is read of the other file.
LEMMA SecretRead ==
  ASSUME NEW W, \A w \in W : Kept(w), NEW f, SecFile(f, W), Parses(f, {"curve", "secret-key"})
  PROVE  /\ Only(f, "secret-key") \in KeyPairs \cup {NoKey}
         /\ \A w \in W : f = SecretLines(w) => Only(f, "secret-key") = w.secret
<1>1. /\ Lines(f, "broken") = {} /\ Lines(f, "absent") = {}
      /\ Lines(f, "secret-key") # {}
  BY Zenon DEF Parses
<1>2. f # Absent /\ f # <<Line("broken", "")>>
  BY <1>1, NoFile
<1>3. ASSUME NEW w, f = SecretLines(w) PROVE Only(f, "secret-key") = w.secret
  <2> DEFINE a == Line("curve", "")
             b == Line("secret-key", w.secret)
  <2>1. a.line = "curve" /\ b.line = "secret-key" /\ b.of = w.secret
    BY DEF Line
  <2>2. f = <<a, b>>
    BY <1>3 DEF SecretLines
  <2> HIDE DEF a, b
  <2>3. DOMAIN f = 1..2 /\ f[1] = a /\ f[2] = b
    BY <2>2
  <2>4. Lines(f, "secret-key") = {i \in 1..2 : f[i].line = "secret-key"}
    BY <2>3 DEF Lines
  <2>5. \A i \in 1..2 : f[i].line = "secret-key" <=> i = 2
    BY <2>1, <2>3
  <2>6. Lines(f, "secret-key") = {2}
    BY <2>4, <2>5
  <2>7. (CHOOSE i \in {2} : TRUE) = 2
    OBVIOUS
  <2> QED
    BY <2>1, <2>3, <2>6, <2>7 DEF Only
<1>4. PICK w \in W : \E n \in 0..Len(SecretLines(w)) : f = SubSeq(SecretLines(w), 1, n)
  BY <1>2 DEF SecFile
<1>5. PICK n \in 0..Len(SecretLines(w)) : f = SubSeq(SecretLines(w), 1, n)
  BY <1>4
<1>6. f = SecretLines(w)
  <2> DEFINE a == Line("curve", "")
             b == Line("secret-key", w.secret)
             L == SecretLines(w)
  <2>1. L = <<a, b>>
    BY DEF SecretLines
  <2>2. a.line # "secret-key"
    BY DEF Line
  <2> HIDE DEF a, b
  <2>3. L \in Seq({a, b}) /\ Len(L) = 2 /\ L[1] = a
    BY <2>1
  <2> HIDE DEF L
  <2>4. f = SubSeq(L, 1, n) /\ n \in 0..2
    BY <1>5, <2>3 DEF L
  <2>5. CASE n = 2
    BY <2>3, <2>4, <2>5, SubSeqFull DEF L
  <2>6. CASE n = 1
    <3>1. DOMAIN f = {1} /\ f[1] = a
      BY <2>3, <2>4, <2>6
    <3> QED
      BY <1>1, <2>2, <3>1 DEF Lines
  <2>7. CASE n = 0
    <3>1. DOMAIN f = {}
      BY <2>3, <2>4, <2>7
    <3> QED
      BY <1>1, <3>1 DEF Lines
  <2> QED
    BY <2>4, <2>5, <2>6, <2>7
<1>7. w.secret \in KeyPairs \cup {NoKey}
  BY DEF Kept, Cert
<1> QED
  BY <1>3, <1>6, <1>7

LEMMA LoadPublicStep ==
  ASSUME FInv, LoadPublic
  PROVE  FInv'
<1>1. /\ UNCHANGED <<memVars, msgVars, fileVars, encoded, stores, written>>
      /\ loads < MaxLoads /\ loads' = loads + 1 /\ loader.pc = "idle"
  BY DEF LoadPublic, memVars, fileVars
<1>2. Types' /\ HeaderInv' /\ StoreInv'
  <2>1. stores' \in Nat /\ encoded + stores' <= MaxUses /\ loads' \in 0..MaxLoads
    BY <1>1, SigcertAssumption DEF FInv, Types
  <2> QED
    BY <1>1, <2>1, TypesRest, HeaderStays, StoreStays DEF FInv
<1> DEFINE r == ReadPublic(pub)
           ready == Parses(pub, {"metadata", "curve", "public-key"})
<1>3. ASSUME ready
      PROVE  /\ Loaded(r, written)
             /\ stored # NoCert => /\ stored \in written /\ stored.secret # NoKey
                                   /\ r = PublicOf(AsRead(stored))
  <2>1. /\ \A w \in written : Kept(w)
        /\ PubFile(pub, written)
        /\ stored = NoCert \/ stored \in written
        /\ stored # NoCert => stored.secret # NoKey /\ pub = PublicLines(stored)
    BY DEF FInv, StoreInv
  <2> QED
    BY <1>3, <2>1, PublicRead
<1> HIDE DEF r
<1>4. \/ /\ ready /\ loader' = [pc |-> "secret", cert |-> r, calm |-> stored] /\ got' = Nothing
      \/ ready /\ LoadEnds(r, NoCert)
      \/ LoadEnds(NoCert, NoCert)
  BY DEF LoadPublic, r
<1> HIDE DEF ready
<1>5. LoadInv'
  <2>1. Loaded(NoCert, written)
    BY NoneLoaded
  <2>2. CASE ready /\ loader' = [pc |-> "secret", cert |-> r, calm |-> stored] /\ got' = Nothing
    BY <1>1, <1>3, <2>1, <2>2 DEF LoadInv, Nothing
  <2>3. CASE ready /\ LoadEnds(r, NoCert)
    BY <1>1, <1>3, <2>1, <2>3 DEF LoadInv, LoadEnds
  <2>4. CASE LoadEnds(NoCert, NoCert)
    BY <1>1, <2>1, <2>4 DEF LoadInv, LoadEnds
  <2> QED
    BY <1>4, <2>2, <2>3, <2>4
<1> QED
  BY <1>2, <1>5 DEF FInv

LEMMA LoadSecretStep ==
  ASSUME FInv, LoadSecret
  PROVE  FInv'
<1>1. UNCHANGED <<memVars, msgVars, fileVars, encoded, stores, written, loads>>
  BY DEF LoadSecret, memVars, fileVars
<1>2. Types' /\ HeaderInv' /\ StoreInv'
  <2>1. stores' \in Nat /\ encoded + stores' <= MaxUses /\ loads' \in 0..MaxLoads
    BY <1>1 DEF FInv, Types
  <2> QED
    BY <1>1, <2>1, TypesRest, HeaderStays, StoreStays DEF FInv
<1> DEFINE key == Only(sec, "secret-key")
           c == [loader.cert EXCEPT !.secret = key]
           calm == IF stored = loader.calm THEN stored ELSE NoCert
           ready == Parses(sec, {"curve", "secret-key"})
<1>3. /\ \A w \in written : Kept(w)
      /\ SecFile(sec, written)
      /\ stored = NoCert \/ stored \in written
      /\ stored # NoCert => sec = SecretLines(stored)
  BY DEF FInv, StoreInv
<1>4. ASSUME ready
      PROVE  /\ key \in KeyPairs \cup {NoKey}
             /\ stored # NoCert => key = stored.secret
  BY <1>3, <1>4, SecretRead
<1>5. /\ Loaded(loader.cert, written)
      /\ loader.calm # NoCert =>
           /\ loader.calm \in written /\ loader.calm.secret # NoKey
           /\ loader.cert = PublicOf(AsRead(loader.calm))
  BY DEF FInv, LoadInv
<1> HIDE DEF key
<1>6. ASSUME ready PROVE Loaded(c, written)
  <2>1. Certificate(loader.cert)
    BY <1>5 DEF Loaded
  <2>2. /\ Certificate(c) /\ c.key = loader.cert.key /\ c.secret = key
        /\ c.sig = loader.cert.sig /\ c.meta = loader.cert.meta /\ c.enc = loader.cert.enc
    BY <2>1 DEF Certificate
  <2>3. PublicOf(c) = PublicOf(loader.cert)
    BY <2>1 DEF Certificate, PublicOf
  <2> HIDE DEF c
  <2> QED
    BY <1>4, <1>5, <1>6, <2>2, <2>3 DEF Loaded
<1>7. ASSUME ready, calm # NoCert
      PROVE  calm \in written /\ calm.secret # NoKey /\ c = AsRead(calm)
  <2>1. calm = stored /\ stored = loader.calm /\ stored # NoCert
    BY <1>7
  <2>2. Kept(stored) /\ key = stored.secret /\ loader.cert = PublicOf(AsRead(stored))
    BY <1>3, <1>4, <1>5, <1>7, <2>1
  <2>3. c = AsRead(stored)
    BY <2>2, AsReadIs
  <2> QED
    BY <1>3, <1>5, <2>1, <2>3
<1>8. (ready /\ LoadEnds(c, calm)) \/ LoadEnds(NoCert, NoCert)
  BY DEF LoadSecret, key
<1> HIDE DEF ready, c, calm
<1>9. LoadInv'
  <2>1. Loaded(NoCert, written)
    BY NoneLoaded
  <2>2. CASE ready /\ LoadEnds(c, calm)
    BY <1>1, <1>6, <1>7, <2>1, <2>2 DEF LoadInv, LoadEnds
  <2>3. CASE LoadEnds(NoCert, NoCert)
    BY <1>1, <2>1, <2>3 DEF LoadInv, LoadEnds
  <2> QED
    BY <1>8, <2>2, <2>3
<1> QED
  BY <1>2, <1>9 DEF FInv

LEMMA NextFInv == FInv /\ [Next]_vars => FInv'
<1> SUFFICES ASSUME FInv, [Next]_vars PROVE FInv'
  OBVIOUS
<1>1. ASSUME UNCHANGED vars PROVE FInv'
  BY <1>1 DEF vars, memVars, msgVars, fileVars, loadVars, FInv, Types, HeaderInv, StoreInv, LoadInv
<1> QED
  BY <1>1, MemoryStep, PutHeaderStep, GetHeaderStep, StoreBeginStep, StoreStep, DeathStep,
     LoadPublicStep, LoadSecretStep DEF Next

-----------------------------------------------------------------------------
LEMMA FilesHold == Spec => []FInv
<1> QED
  BY InitFInv, NextFInv, PTL DEF Spec

\* Every variable keeps its type, whatever the certificates, their metadata and the
\* bounds are; of each key a certificate or a header has one value (kv.c:307).
THEOREM TypeCorrect == Spec => []TypeOK
<1>1. FInv => TypeOK
  <2> SUFFICES ASSUME FInv PROVE TypeOK
    OBVIOUS
  <2>1. ASSUME NEW c, Cert(c), c.enc \in 0..MaxUses
        PROVE  CertOK(c) /\ c.secret \in {NoKey, c.key}
    BY <2>1 DEF Cert, CertOK
  <2>2. ASSUME NEW c, Kept(c) PROVE CertOK(c)
    BY <2>1, <2>2, SigcertAssumption DEF Kept
  <2>3. ASSUME NEW c, Loaded(c, written) PROVE CertOK(c)
    BY <2>3, SigcertAssumption DEF Loaded, CertOK
  <2>4. \A s \in Slots : CertOK(mem[s]) /\ mem[s].secret \in {NoKey, mem[s].key}
    BY <2>1 DEF FInv, Types
  <2>5. /\ made \in SUBSET KeyPairs /\ edits \in 0..MaxEdits /\ encs \in SUBSET (1..MaxUses)
        /\ fault \in BOOLEAN /\ shared \in BOOLEAN /\ loads \in 0..MaxLoads
    BY DEF FInv, Types
  <2>6. encoded \in 0..MaxUses /\ stores \in 0..MaxUses
    BY SigcertAssumption DEF FInv, Types
  <2>7. UniqueKeys(header) /\ CertOK(sent)
    <3>1. UniqueKeys(<<>>)
      BY DEF UniqueKeys
    <3> QED
      BY <2>2, <3>1, HeaderIs DEF FInv, HeaderInv, Kept
  <2>8. /\ storer.pc \in {"idle", "public", "open", "secret"} /\ CertOK(storer.cert)
        /\ CertOK(stored) /\ \A c \in written : CertOK(c)
    BY <2>2, NoneKept DEF FInv, StoreInv
  <2>9. loader.pc \in {"idle", "secret"} /\ CertOK(loader.cert) /\ CertOK(got.cert)
    BY <2>3 DEF FInv, LoadInv
  <2> QED
    BY <2>4, <2>5, <2>6, <2>7, <2>8, <2>9 DEF TypeOK
<1> QED
  BY <1>1, FilesHold, PTL

\* Whenever a store fails or its program dies, and whoever stores while the two files
\* are read: a signed certificate that is loaded is one that was stored, as it reads,
\* and of one store its keys are a pair (sigcert.c:293, 355, 531 and 587).
THEOREM LoadedAreStored == Spec => []LoadedIsStored
<1>1. FInv => LoadedIsStored
  <2> SUFFICES ASSUME FInv PROVE LoadedIsStored
    OBVIOUS
  <2>1. ASSUME got.cert.sig # NoSig
        PROVE  PublicOf(got.cert) \in {PublicOf(AsRead(w)) : w \in written}
    BY <2>1 DEF FInv, LoadInv, Loaded
  <2>2. ASSUME got.calm # NoCert
        PROVE  got.cert = AsRead(got.calm) /\ got.cert.secret = got.cert.key
    <3>1. /\ Kept(got.calm) /\ got.calm.secret # NoKey /\ got.cert = AsRead(got.calm)
      BY <2>2 DEF FInv, LoadInv, StoreInv
    <3>2. got.calm.secret = got.calm.key
      BY <3>1 DEF Kept, Cert
    <3>3. got.cert = [key |-> got.calm.key, secret |-> got.calm.secret, sig |-> got.calm.sig,
                      meta |-> MetaRead(got.calm), enc |-> 0]
      BY <3>1, AsReadIs
    <3>4. got.cert.key = got.calm.key /\ got.cert.secret = got.calm.secret
      BY <3>3
    <3> QED
      BY <3>1, <3>2, <3>4
  <2> QED
    BY <2>1, <2>2, Zenon DEF LoadedIsStored, AsRead, PublicOf
<1> QED
  BY <1>1, FilesHold, PTL

\* Whatever metadata and signature a certificate has, header_get_cert takes out of a
\* message the one header_put_cert put in, and verifying it gives what it did before
\* (sign_curve.c:87 and 110, sigcert.c:649 and 682).
THEOREM HeadersKeepCerts == Spec => HeaderKeepsCert
<1> DEFINE Keeps == \A s \in Slots : HeaderGetCert(s) =>
                      /\ SigcertEqual(mem'[s], sent)
                      /\ \A t \in Slots : VerifyCert(mem[t], mem'[s]) <=> VerifyCert(mem[t], sent)
<1>1. FInv => Keeps
  <2> SUFFICES ASSUME FInv, NEW s \in Slots, HeaderGetCert(s)
               PROVE  /\ SigcertEqual(mem'[s], sent)
                      /\ \A t \in Slots : VerifyCert(mem[t], mem'[s]) <=> VerifyCert(mem[t], sent)
    OBVIOUS
  <2>1. mem'[s] = sent
    BY TakenIsSent
  <2> QED
    BY <2>1 DEF SigcertEqual
<1> HIDE DEF Keeps
<1>2. FInv => [Keeps]_vars
  BY <1>1
<1>3. []FInv => [][Keeps]_vars
  BY <1>2, PTL
<1>4. [][Keeps]_vars <=> HeaderKeepsCert
  BY DEF Keeps, HeaderKeepsCert
<1> QED
  BY <1>3, <1>4, FilesHold, PTL
=============================================================================
