------------------------------- MODULE Sigcert -------------------------------
(***************************************************************************)
(* Certificates: src/libca/sigcert.c, the two files one is kept in, and    *)
(* the header of a signed message it travels in (header_put_cert and       *)
(* header_get_cert, src/lib/sign_curve.c).                                 *)
(*                                                                         *)
(* One program makes, copies, signs, encodes, stores and destroys          *)
(* certificates, and may die or fail while it stores one.  Another process *)
(* loads them meanwhile, first the public file and then the secret one,    *)
(* without a lock.                                                         *)
(*                                                                         *)
(* A key pair is named by one value: a certificate holds a public key, and *)
(* perhaps a secret one.  A signature says whose secret key made it and    *)
(* over what.  Metadata is a kv object, whose keys are sequences of names, *)
(* so that "meta.uuid" is <<"meta.", "uuid">>.  A file is its lines.       *)
(*                                                                         *)
(* A Bug definition is the one that follows it with a mistake in it.       *)
(***************************************************************************)
EXTENDS Kv

CONSTANTS Slots,      \* the certificates the program has room for
          KeyPairs,   \* what crypto_sign_keypair returns
          NoKey,      \* there is no secret key
          Metadata,   \* what the program sets: keys, types and values
          MaxEdits,   \* how often it signs, sets metadata, copies or forgets
          MaxUses,    \* how often it encodes or stores
          MaxLoads    \* how often certificates are loaded

ASSUME SigcertAssumption ==
  /\ NoKey \notin KeyPairs
  /\ MaxEdits \in Nat /\ MaxUses \in Nat /\ MaxLoads \in Nat

\* kv_put refuses an empty key.
ASSUME MetadataAssumption ==
  \A m \in Metadata : /\ m.key \in Seq(Range(m.key)) \ {<<>>} /\ m.type \in KvTypes
                      /\ m = Entry(m.key, m.type, m.val)

VARIABLES mem,      \* the certificates in the program's memory
          made,     \* the key pairs made so far
          edits,    \* how often it did one of these
          encs,     \* the encodings that are allocated
          encoded,  \* how many were made
          fault,    \* an encoding was freed that was not allocated
          shared,   \* history: a certificate with an encoding was copied
          header,   \* the security header of a message, <<>> if there is none
          sent,     \* history: the certificate put into it
          pub, sec, \* name.pub and name
          storer,   \* where sigcert_store is, and the certificate it stores
          stores,   \* how many were begun
          stored,   \* history: the one both files are from, if they are
          written,  \* history: those whose store began
          loader,   \* where the other process' sigcert_load is
          loads,    \* how many were begun
          got       \* what it returned in this step

NoSig == [by |-> NoKey, over |-> <<>>]
NoCert == [key |-> NoKey, secret |-> NoKey, sig |-> NoSig, meta |-> <<>>, enc |-> 0]

memVars == <<mem, made, edits, encs, encoded, fault, shared>>
msgVars == <<header, sent>>
fileVars == <<pub, sec, storer, stores, stored, written>>
loadVars == <<loader, loads, got>>
vars == <<memVars, msgVars, fileVars, loadVars>>

\* No store is under way.
Idle == [pc |-> "idle", cert |-> NoCert]

Nothing == [cert |-> NoCert, calm |-> NoCert]

\* The other process does not move.
NotLoading == UNCHANGED <<loader, loads>> /\ got' = Nothing

\* The line of what is not a file.
Absent == <<[line |-> "absent", of |-> ""]>>

Init ==
  /\ mem = [s \in Slots |-> NoCert]
  /\ made = {} /\ edits = 0 /\ encs = {} /\ encoded = 0
  /\ fault = FALSE /\ shared = FALSE
  /\ header = <<>> /\ sent = NoCert
  /\ pub = Absent /\ sec = Absent
  /\ storer = Idle /\ stores = 0
  /\ stored = NoCert /\ written = {}
  /\ loader = [pc |-> "idle", cert |-> NoCert, calm |-> NoCert] /\ loads = 0
  /\ got = Nothing

Held(s) == mem[s].key # NoKey
Edit == edits < MaxEdits /\ edits' = edits + 1
Ready == storer.pc = "idle" /\ ~fault

-----------------------------------------------------------------------------
Algorithm == Entry(<<"algorithm">>, "s", "plain")

\* sigcert_create
Create(s) ==
  /\ Ready /\ ~Held(s)
  /\ \E k \in KeyPairs \ made :
       /\ mem' = [mem EXCEPT ![s] = [key |-> k, secret |-> k, sig |-> NoSig,
                                     meta |-> <<Algorithm>>, enc |-> 0]]
       /\ made' = made \cup {k}
  /\ UNCHANGED <<edits, encs, encoded, fault, shared, msgVars, fileVars>> /\ NotLoading

\* sigcert_copy: only the metadata is copied, the encoding's address is shared.
Copy(s, to) ==
  /\ Ready /\ Held(s) /\ ~Held(to) /\ Edit
  /\ mem' = [mem EXCEPT ![to] = mem[s]]
  /\ shared' = (shared \/ mem[s].enc # 0)
  /\ UNCHANGED <<made, encs, encoded, fault, msgVars, fileVars>> /\ NotLoading

\* sigcert_destroy
Destroy(s) ==
  /\ Ready /\ Held(s)
  /\ mem' = [mem EXCEPT ![s] = NoCert]
  /\ encs' = encs \ {mem[s].enc}
  /\ fault' = (mem[s].enc \notin encs \cup {0})
  /\ UNCHANGED <<made, edits, encoded, shared, msgVars, fileVars>> /\ NotLoading

\* sigcert_forget_secret
ForgetSecret(s) ==
  /\ Ready /\ mem[s].secret # NoKey /\ Edit
  /\ mem' = [mem EXCEPT ![s].secret = NoKey]
  /\ UNCHANGED <<made, encs, encoded, fault, shared, msgVars, fileVars>> /\ NotLoading

\* sigcert_meta_set; a signature the certificate has stays.
MetaSet(s) ==
  /\ Ready /\ Held(s) /\ Edit
  /\ \E m \in Metadata :
       /\ m \notin {mem[s].meta[i] : i \in DOMAIN mem[s].meta}
       /\ mem' = [mem EXCEPT ![s].meta = KvPut(@, m.key, m.type, m.val)]
  /\ UNCHANGED <<made, encs, encoded, fault, shared, msgVars, fileVars>> /\ NotLoading

\* What is signed: the public key and the metadata.
SignedContent(c) ==
  KvJoin(<<Entry(<<"curve.", "public_key">>, "s", c.key)>>, c.meta, <<"meta.">>)

\* sigcert_sign_cert; a certificate may sign itself, as the CA's does.
SignCert(s, t) ==
  /\ Ready /\ mem[s].secret # NoKey /\ Held(t) /\ Edit
  /\ mem' = [mem EXCEPT ![t].sig = [by |-> mem[s].secret, over |-> SignedContent(mem[t])]]
  /\ UNCHANGED <<made, encs, encoded, fault, shared, msgVars, fileVars>> /\ NotLoading

\* sigcert_verify_cert
VerifyCert(ca, c) == c.sig # NoSig /\ c.sig.by = ca.key /\ c.sig.over = SignedContent(c)

\* sigcert_equal does not look at signatures.
SigcertEqual(c, d) == c.key = d.key /\ c.meta = d.meta /\ c.secret = d.secret

-----------------------------------------------------------------------------
\* A bug: the signature is left out.
BugEncoded(c) == KvPut(KvJoin(<<>>, c.meta, <<"meta.">>), <<"curve.", "public-key">>, "s", c.key)

\* What sigcert_encode puts into the kv; the secret key is not in it.
Encoded(c) ==
  LET public == KvPut(KvJoin(<<>>, c.meta, <<"meta.">>), <<"curve.", "public-key">>, "s", c.key)
  IN IF c.sig = NoSig THEN public ELSE KvPut(public, <<"curve.", "signature">>, "s", c.sig)

\* sigcert_decode
Decoded(kv) ==
  [NoCert EXCEPT
     !.meta = KvSplit(kv, <<"meta.">>),
     !.key = KvGet(kv, <<"curve.", "public-key">>),
     !.sig = IF KvHas(kv, <<"curve.", "signature">>, "s")
             THEN KvGet(kv, <<"curve.", "signature">>) ELSE NoSig]

\* A bug: the encoding a certificate has is not freed.
BugReencode(s) == encs \cup {encoded + 1}

\* sigcert_encode frees the encoding there is.
Reencode(s) == (encs \ {mem[s].enc}) \cup {encoded + 1}

CertPrefix == <<"curve.", "cert.">>

\* What a header holds besides.
Generic == <<Entry(<<"version">>, "i", "1"), Entry(<<"mechanism">>, "s", "curve"),
             Entry(<<"userid">>, "i", "100")>>
Times == <<Entry(<<"curve.", "ctime">>, "t", "then"), Entry(<<"curve.", "xtime">>, "t", "later")>>

\* header_put_cert in op_prep: the certificate is encoded and joined to the header.
HeaderPutCert(s) ==
  /\ Ready /\ Held(s) /\ encoded + stores < MaxUses /\ header = <<>>
  /\ IF mem[s].enc \in encs \cup {0}
     THEN /\ encs' = Reencode(s)
          /\ mem' = [mem EXCEPT ![s].enc = encoded + 1]
          /\ encoded' = encoded + 1
          /\ header' = KvJoin(KvJoin(Generic, Encoded(mem[s]), CertPrefix), Times, <<>>)
          /\ sent' = [mem[s] EXCEPT !.secret = NoKey, !.enc = 0]
          /\ UNCHANGED fault
     ELSE fault' = TRUE /\ UNCHANGED <<encs, mem, encoded, header, sent>>
  /\ UNCHANGED <<made, edits, shared, fileVars>> /\ NotLoading

\* header_get_cert in op_verify, into a free slot; the message is done with then.
HeaderGetCert(s) ==
  /\ Ready /\ ~Held(s) /\ header # <<>>
  /\ mem' = [mem EXCEPT ![s] = Decoded(KvSplit(header, CertPrefix))]
  /\ header' = <<>> /\ sent' = NoCert
  /\ UNCHANGED <<made, edits, encs, encoded, fault, shared, fileVars>> /\ NotLoading

-----------------------------------------------------------------------------
Line(what, of) == [line |-> what, of |-> of]

\* A bug: the keys are written before the metadata.
BugPublicLines(c) ==
  <<Line("curve", ""), Line("public-key", c.key)>>
  \o (IF c.sig = NoSig THEN <<>> ELSE <<Line("signature", c.sig)>>)
  \o <<Line("metadata", "")>> \o [i \in DOMAIN c.meta |-> Line("entry", c.meta[i])]

\* sigcert_fwrite_public
PublicLines(c) ==
  <<Line("metadata", "")>> \o [i \in DOMAIN c.meta |-> Line("entry", c.meta[i])]
  \o <<Line("curve", ""), Line("public-key", c.key)>>
  \o (IF c.sig = NoSig THEN <<>> ELSE <<Line("signature", c.sig)>>)

\* sigcert_fwrite_secret
SecretLines(c) == <<Line("curve", ""), Line("secret-key", c.secret)>>

\* What may be in a file whose writing was cut short: some of the lines, or part of
\* one at the end, which does not parse.
Cut(lines) == {SubSeq(lines, 1, n) : n \in 0..Len(lines)} \cup {<<Line("broken", "")>>}

\* sigcert_store opens name.pub, which truncates it.
StoreBegin(s) ==
  /\ Ready /\ Held(s) /\ encoded + stores < MaxUses
  /\ storer' = [pc |-> "public", cert |-> [mem[s] EXCEPT !.enc = 0]]
  /\ stores' = stores + 1
  /\ pub' = <<>>
  /\ stored' = NoCert
  /\ written' = written \cup {storer'.cert}
  /\ UNCHANGED <<sec, memVars, msgVars>> /\ NotLoading

StorePublic ==
  /\ storer.pc = "public"
  /\ pub' = PublicLines(storer.cert)
  /\ storer' = IF storer.cert.secret # NoKey THEN [storer EXCEPT !.pc = "open"] ELSE Idle
  /\ UNCHANGED <<sec, stores, stored, written, memVars, msgVars>> /\ NotLoading

\* The secret file is opened, which truncates it.
StoreOpen ==
  /\ storer.pc = "open"
  /\ sec' = <<>>
  /\ storer' = [storer EXCEPT !.pc = "secret"]
  /\ UNCHANGED <<pub, stores, stored, written, memVars, msgVars>> /\ NotLoading

StoreSecret ==
  /\ storer.pc = "secret"
  /\ sec' = SecretLines(storer.cert)
  /\ storer' = Idle
  /\ stored' = storer.cert
  /\ UNCHANGED <<pub, stores, written, memVars, msgVars>> /\ NotLoading

\* A file cannot be opened or written to its end: sigcert_store fails.
StoreFails ==
  /\ \/ storer.pc = "public" /\ pub' \in Cut(PublicLines(storer.cert)) /\ UNCHANGED sec
     \/ storer.pc = "open" /\ UNCHANGED <<pub, sec>>
     \/ storer.pc = "secret" /\ sec' \in Cut(SecretLines(storer.cert)) /\ UNCHANGED pub
  /\ storer' = Idle
  /\ UNCHANGED <<stores, stored, written, memVars, msgVars>> /\ NotLoading

\* The program dies while it stores, and starts anew with the files as they are.
Crash ==
  /\ storer.pc # "idle"
  /\ storer' = Idle
  /\ mem' = [s \in Slots |-> NoCert] /\ encs' = {} /\ shared' = FALSE
  /\ UNCHANGED <<made, edits, encoded, fault, pub, sec, stores, stored, written, msgVars>> /\ NotLoading

-----------------------------------------------------------------------------
Lines(file, what) == {i \in DOMAIN file : file[i].line = what}

\* toml_parse and the tables and keys that must be there.
Parses(file, needed) ==
  /\ Lines(file, "broken") = {} /\ Lines(file, "absent") = {}
  /\ \A what \in needed : Lines(file, what) # {}
  /\ \A i \in Lines(file, "entry") : file[i].of.val # "quote"

Only(file, what) == file[CHOOSE i \in Lines(file, what) : TRUE].of

\* A string is written as it is, between quotes: one with a quote in it does not
\* parse, a backslash and what follows is read as another character.
\* A double has the six decimals kv_put left it, which are what %f writes.
ReadBack(val) == IF val = "backslash" THEN "altered" ELSE val

EntryRead(e) == [e EXCEPT !.val = ReadBack(@)]

\* parse_toml_meta_set of the entries in a file.
ReadMeta(file) ==
  PutEach(<<>>, [n \in DOMAIN file |-> IF file[n].line = "entry" THEN EntryRead(file[n].of)
                                      ELSE Algorithm],
          Lines(file, "entry"))

\* sigcert_fread_public
ReadPublic(file) ==
  [NoCert EXCEPT
     !.key = Only(file, "public-key"),
     !.sig = IF Lines(file, "signature") = {} THEN NoSig ELSE Only(file, "signature"),
     !.meta = ReadMeta(file)]

LoadEnds(cert, calm) ==
  /\ loader' = [pc |-> "idle", cert |-> NoCert, calm |-> NoCert]
  /\ got' = [cert |-> cert, calm |-> calm]

\* sigcert_load up to fclose of name.pub.
LoadPublic ==
  /\ loader.pc = "idle" /\ loads < MaxLoads
  /\ loads' = loads + 1
  /\ IF Parses(pub, {"metadata", "curve", "public-key"})
     THEN \E secret \in BOOLEAN :
            IF secret
            THEN /\ loader' = [pc |-> "secret", cert |-> ReadPublic(pub), calm |-> stored]
                 /\ got' = Nothing
            ELSE LoadEnds(ReadPublic(pub), NoCert)
     ELSE LoadEnds(NoCert, NoCert)
  /\ UNCHANGED <<memVars, msgVars, fileVars>>

\* The rest of it.
LoadSecret ==
  /\ loader.pc = "secret"
  /\ IF Parses(sec, {"curve", "secret-key"})
     THEN LoadEnds([loader.cert EXCEPT !.secret = Only(sec, "secret-key")],
                   IF stored = loader.calm THEN stored ELSE NoCert)
     ELSE LoadEnds(NoCert, NoCert)
  /\ UNCHANGED <<loads, memVars, msgVars, fileVars>>

Next ==
  \/ \E s \in Slots : \/ Create(s) \/ Destroy(s) \/ ForgetSecret(s) \/ MetaSet(s)
                      \/ HeaderPutCert(s) \/ HeaderGetCert(s) \/ StoreBegin(s)
  \/ \E s, t \in Slots : Copy(s, t) \/ SignCert(s, t)
  \/ StorePublic \/ StoreOpen \/ StoreSecret \/ StoreFails \/ Crash
  \/ LoadPublic \/ LoadSecret

Spec == Init /\ [][Next]_vars

-----------------------------------------------------------------------------
CertOK(c) ==
  /\ c.key \in KeyPairs \cup {NoKey} /\ c.secret \in KeyPairs \cup {NoKey}
  /\ c.sig.by \in KeyPairs \cup {NoKey}
  /\ UniqueKeys(c.meta)
  /\ c.enc \in 0..MaxUses

\* Every variable has its type; of each key a certificate's metadata has one value.
TypeOK ==
  /\ \A s \in Slots : CertOK(mem[s]) /\ mem[s].secret \in {NoKey, mem[s].key}
  /\ made \in SUBSET KeyPairs /\ edits \in 0..MaxEdits /\ encs \in SUBSET (1..MaxUses)
  /\ encoded \in 0..MaxUses
  /\ fault \in BOOLEAN /\ shared \in BOOLEAN
  /\ UniqueKeys(header) /\ CertOK(sent)
  /\ storer.pc \in {"idle", "public", "open", "secret"} /\ CertOK(storer.cert)
  /\ stores \in 0..MaxUses /\ loads \in 0..MaxLoads
  /\ CertOK(stored) /\ \A c \in written : CertOK(c)
  /\ loader.pc \in {"idle", "secret"} /\ CertOK(loader.cert) /\ CertOK(got.cert)

\* Until a certificate that has been encoded is copied, each encoding belongs to one
\* certificate, lives as long as it does, and is freed once (sigcert.c:75, 147, 690).
EncodingsAreOwned ==
  ~shared =>
    /\ ~fault
    /\ encs = {mem[s].enc : s \in Slots} \ {0}
    /\ \A s, t \in Slots : mem[s].enc = mem[t].enc /\ mem[s].enc # 0 => s = t

\* The certificate that is taken out of a header is the one that was put in, without
\* its secret key: the keys around it are not mixed up with its own, the order of the
\* metadata is kept, which sigcert_equal compares, and whoever's signature it bears
\* still verifies, or still does not (sign_curve.c:87 and 110, sigcert.c:649 and 682).
HeaderKeepsCert ==
  [][\A s \in Slots : HeaderGetCert(s) =>
       /\ SigcertEqual(mem'[s], sent)
       /\ \A t \in Slots : VerifyCert(mem[t], mem'[s]) <=> VerifyCert(mem[t], sent)]_vars

\* What a load returns, whenever the program died or failed and whoever was storing
\* meanwhile: with a signature, a whole certificate that was stored, as it reads; and
\* both its keys are those of one pair if the files were from one store when the load
\* began and until it ended (sigcert.c:293, 355, 531 and 587).
LoadedIsStored ==
  LET c == got.cert
      asRead(w) == [w EXCEPT !.meta = [n \in DOMAIN @ |-> EntryRead(@[n])]]
      public(w) == [w EXCEPT !.secret = NoKey]
  IN /\ c.sig # NoSig => public(c) \in {public(asRead(w)) : w \in written}
     /\ got.calm # NoCert => c = asRead(got.calm) /\ c.secret = c.key
=============================================================================
