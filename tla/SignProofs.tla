----------------------------- MODULE SignProofs -----------------------------
(* Proofs of the safety properties of Sign for any number of users, CAs,   *)
(* certificates and messages, and for every limit on their age.            *)
EXTENDS Sign, TLAPS

\* What the CA signs names its holder, and a home holds its owner's certificates.
CertInv ==
  /\ \A c \in issued : c.uuid \in Uuids /\ c.userid = c.key /\ c.ca \in Cas
  /\ \A u \in Users : home[u] \in CertsOf(u) \cup {NoCert}

\* A message was made by now, no more than MaxSkew from what it says; only its
\* author has signed it, and a certificate in it that shows a CA's signature is one
\* that this CA has issued.
MsgInv ==
  \A m \in msgs : /\ m.made <= now
                  /\ m.ctime <= m.made + MaxSkew
                  /\ m.fits => m.signer = m.by
                  /\ m.mech = "curve" => /\ m.cert \in Cert
                                         /\ m.cert.ca # NoCa => m.cert \in issued

\* What the verifier keeps from earlier is still so.
KeptInv ==
  /\ pc # "idle" => msg \in msgs
  /\ pc \in Mechs => msg.mech = pc
  /\ pc = "times" => msg.mech = "curve"
  /\ began <= now
  /\ withdrawn \subseteq revoked
  /\ {caFile, caCached} \subseteq trusted \cup {NoCa}

\* What the first half of op_verify has established about the certificate.
CertChecked ==
  pc = "times" =>
    /\ msg.by = msg.uid
    /\ requireCa => /\ msg.cert \in issued
                    /\ msg.cert.ca \in trusted
                    /\ ~blind => msg.cert.uuid \notin withdrawn
                    /\ began <= msg.cert.xtime
                    /\ msg.cert.nbt <= now
                    /\ began <= msg.ctime + msg.cert.maxSignTtl

IInv == TypeOK /\ CertInv /\ MsgInv /\ KeptInv /\ CertChecked

-----------------------------------------------------------------------------
(* The invariant holds initially and every step preserves it.              *)

LEMMA InitIInv == Init => IInv
<1> SUFFICES ASSUME Init PROVE IInv
  OBVIOUS
<1>0. blind \in BOOLEAN
  BY DEF Init
<1>1. TypeOK
  BY <1>0, CaAssumption, SignAssumption DEF Init, CaInit, TypeOK, CaTypeOK
<1>2. CertInv /\ MsgInv /\ KeptInv /\ CertChecked
  BY SignAssumption DEF Init, CaInit, CertInv, MsgInv, KeptInv, CertChecked, Mechs
<1> QED
  BY <1>1, <1>2 DEF IInv

\* A certificate the CA signs is a certificate, with its holder's uid.
LEMMA SignWithType ==
  ASSUME CaTypeOK, caFile # NoCa, NEW u \in Users, NEW id \in Uuids,
         NEW nbt \in {0, now + 1}, NEW ttl \in 0..(MaxCertTtl + 1), TtlAllowed(ttl),
         NEW st \in SignTtls
  PROVE  LET c == SignWith(SigcertCreate(u), id, u, nbt, ttl, st)
         IN c \in Cert /\ c.uuid = id /\ c.key = u /\ c.userid = u /\ c.ca = caFile
<1> DEFINE from == IF nbt = 0 THEN now ELSE nbt
           life == IF ttl = 0 THEN MaxCertTtl ELSE ttl
           c == SignWith(SigcertCreate(u), id, u, nbt, ttl, st)
<1>1. c = [key |-> u, uuid |-> id, userid |-> u, ca |-> caFile, nbt |-> from,
           xtime |-> from + life, maxSignTtl |-> st]
  BY DEF SignWith, SigcertCreate
<1>2. from \in 0..(MaxTime + 1) /\ life \in 0..MaxCertTtl
  BY CaAssumption DEF CaTypeOK, TtlAllowed
<1>3. from + life \in 0..(MaxTime + 1 + MaxCertTtl)
  BY <1>2, CaAssumption
<1> QED
  BY <1>1, <1>2, <1>3, CaAssumption DEF CaTypeOK, Cert

\* A new key pair's certificate is a certificate.
LEMMA CreateType == \A u \in Users : SigcertCreate(u) \in Cert
BY CaAssumption DEF SigcertCreate, Cert

\* So is what one finds or makes up for a header, and it shows no CA's signature
\* that the CA has not made.
LEMMA CertsForType ==
  ASSUME CaTypeOK, NEW u \in Users, NEW uid \in Users, NEW c \in CertsFor(u, uid)
  PROVE  c \in Cert /\ (c.ca # NoCa => c \in issued)
<1>1. CASE c \in issued
  BY <1>1 DEF CaTypeOK
<1>2. CASE \E v \in Users : c = SigcertCreate(v)
  BY <1>2, CreateType DEF SigcertCreate
<1>3. ASSUME NEW st \in SignTtls,
             c = [SigcertCreate(u) EXCEPT !.userid = uid, !.xtime = MaxTime, !.maxSignTtl = st]
      PROVE  c \in Cert /\ c.ca = NoCa
  <2>1. c = [key |-> u, uuid |-> NoUuid, userid |-> uid, ca |-> NoCa, nbt |-> 0,
             xtime |-> MaxTime, maxSignTtl |-> st]
    BY <1>3 DEF SigcertCreate
  <2> QED
    BY <2>1, CaAssumption DEF Cert
<1> QED
  BY <1>1, <1>2, <1>3 DEF CertsFor

\* A user's certificates are certificates of that user's key, and stay so.
LEMMA CertsOfType ==
  ASSUME CaTypeOK, NEW u \in Users
  PROVE  /\ CertsOf(u) \subseteq Cert
         /\ \A c \in CertsOf(u) : c.key = u
         /\ issued \subseteq issued' => CertsOf(u) \subseteq CertsOf(u)'
BY CreateType DEF CertsOf, CaTypeOK, SigcertCreate

\* What a step of the CA leaves true.
LEMMA CaStep ==
  ASSUME CaTypeOK, CertInv, CaNext
  PROVE  /\ CaTypeOK' /\ CertInv'
         /\ now <= now' /\ issued \subseteq issued' /\ revoked \subseteq revoked'
<1>1. CASE Tick
  BY <1>1, CaAssumption DEF Tick, CaTypeOK, CertInv, CertsOf, SigcertCreate
<1>2. CASE CaStore
  BY <1>2 DEF CaStore, CaTypeOK, CertInv, CertsOf, SigcertCreate
<1>3. CASE CaRevoke
  BY <1>3 DEF CaRevoke, CaTypeOK, CertInv, CertsOf, SigcertCreate, Cert
<1>4. ASSUME NEW u \in Users, SigcertStore(u)
      PROVE  /\ CaTypeOK' /\ CertInv'
             /\ now <= now' /\ issued \subseteq issued' /\ revoked \subseteq revoked'
  <2>1. PICK c \in CertsOf(u) : home' = [home EXCEPT ![u] = c]
    BY <1>4 DEF SigcertStore
  <2>2. UNCHANGED <<now, caFile, issued, revoked>>
    BY <1>4 DEF SigcertStore
  <2>3. \A v \in Users : CertsOf(v)' = CertsOf(v)
    BY <2>2 DEF CertsOf, SigcertCreate
  <2> QED
    BY <2>1, <2>2, <2>3, CertsOfType DEF CaTypeOK, CertInv
<1>5. ASSUME NEW u \in Users, CaSign(u)
      PROVE  /\ CaTypeOK' /\ CertInv'
             /\ now <= now' /\ issued \subseteq issued' /\ revoked \subseteq revoked'
  <2>1. PICK id \in Fresh, nbt \in {0, now + 1}, ttl \in 0..(MaxCertTtl + 1),
             st \in SignTtls :
          /\ TtlAllowed(ttl)
          /\ issued' = issued \cup {SignWith(SigcertCreate(u), id, u, nbt, ttl, st)}
    BY <1>5 DEF CaSign
  <2> DEFINE c == SignWith(SigcertCreate(u), id, u, nbt, ttl, st)
  <2>2. UNCHANGED <<now, caFile, revoked, home>> /\ caFile # NoCa
    BY <1>5 DEF CaSign
  <2>3. c \in Cert /\ c.uuid \in Uuids /\ c.key = u /\ c.userid = u /\ c.ca = caFile
    BY <2>1, <2>2, SignWithType DEF Fresh
  <2>4. issued' = issued \cup {c}
    BY <2>1
  <2> HIDE DEF c
  <2>5. CaTypeOK'
    BY <2>2, <2>3, <2>4 DEF CaTypeOK
  <2>6. \A v \in Users : CertsOf(v) \subseteq CertsOf(v)'
    BY <2>4, CertsOfType
  <2>7. CertInv'
    BY <2>2, <2>3, <2>4, <2>6 DEF CertInv, CaTypeOK
  <2> QED
    BY <2>2, <2>4, <2>5, <2>7 DEF CaTypeOK
<1> QED
  BY <1>1, <1>2, <1>3, <1>4, <1>5 DEF CaNext

\* A step of the CA leaves the verifier, and the messages, where they are.
LEMMA AuthorityStep ==
  ASSUME IInv, Authority
  PROVE  IInv'
<1> USE DEF IInv
<1>1. /\ CaTypeOK' /\ CertInv'
      /\ now <= now' /\ issued \subseteq issued' /\ revoked \subseteq revoked'
  BY CaStep DEF Authority, TypeOK
<1>2. /\ UNCHANGED <<msgs, pc, msg, began, caCached, withdrawn, blind, requireCa>>
      /\ trusted' = trusted \cup ({caFile'} \ {NoCa})
  BY DEF Authority
<1>3. TypeOK'
  BY <1>1, <1>2 DEF TypeOK, CaTypeOK
<1>5. now \in Nat /\ now' \in Nat /\ began \in Nat /\ \A m \in msgs : m.made \in Nat
  BY <1>1 DEF TypeOK, CaTypeOK, Msg
<1>6. MsgInv'
  BY <1>1, <1>2, <1>5 DEF MsgInv
<1>7. KeptInv'
  BY <1>1, <1>2, <1>5 DEF KeptInv
<1>8. CertChecked'
  <2> SUFFICES ASSUME pc = "times", requireCa
      PROVE  msg.cert.nbt <= now'
    BY <1>1, <1>2 DEF CertChecked
  <2>1. msg.cert \in issued /\ msg.cert.nbt <= now
    BY DEF CertChecked
  <2>2. msg.cert.nbt \in Nat
    BY <2>1 DEF TypeOK, CaTypeOK, Cert
  <2> QED
    BY <1>1, <1>5, <2>1, <2>2
<1> QED
  BY <1>1, <1>3, <1>6, <1>7, <1>8

\* A message joins the others.
LEMMA NewMsgStep ==
  ASSUME IInv, NEW u \in Users, NEW uid \in Users, NEW mech \in Mechs,
         NEW skew \in 0..MaxSkew, NEW ttl \in SignerTtls, NEW c, NEW signer \in Users,
         NEW fits \in BOOLEAN,
         msgs' = msgs \cup {[by |-> u, made |-> now, uid |-> uid, mech |-> mech,
                             cert |-> c, ctime |-> now + skew, xtime |-> now + skew + ttl,
                             signer |-> signer, fits |-> fits]},
         fits => signer = u,
         IF mech = "curve" THEN c \in Cert /\ (c.ca # NoCa => c \in issued) ELSE c = NoCert,
         UNCHANGED <<caVars, verifier>>
  PROVE  IInv'
<1> USE DEF IInv
<1> DEFINE m == [by |-> u, made |-> now, uid |-> uid, mech |-> mech,
                 cert |-> c, ctime |-> now + skew, xtime |-> now + skew + ttl,
                 signer |-> signer, fits |-> fits]
<1>4. now \in 0..MaxTime /\ skew \in Nat /\ ttl \in Nat /\ MaxSkew \in Nat
  BY SignAssumption DEF TypeOK, CaTypeOK
<1>5. c \in Cert \cup {NoCert}
  OBVIOUS
<1>6. m \in Msg
  BY <1>4, <1>5, CaAssumption DEF Msg
<1>7. /\ m.made <= now /\ m.ctime <= m.made + MaxSkew
      /\ m.fits => m.signer = m.by
      /\ m.mech = "curve" => m.cert \in Cert /\ (m.cert.ca # NoCa => m.cert \in issued)
  BY <1>4, CaAssumption
<1>8. msgs' = msgs \cup {m}
  OBVIOUS
<1> HIDE DEF m
<1>9. CaTypeOK' /\ CertInv' /\ \A v : CertsOf(v)' = CertsOf(v)
  BY DEF TypeOK, CaTypeOK, CertInv, caVars, CertsOf, SigcertCreate
<1>10. TypeOK'
  BY <1>6, <1>8, <1>9 DEF TypeOK, verifier
<1>11. MsgInv'
  BY <1>7, <1>8, <1>9 DEF MsgInv, caVars
<1>12. KeptInv' /\ CertChecked'
  BY <1>8 DEF KeptInv, CertChecked, verifier, caVars
<1> QED
  BY <1>9, <1>10, <1>11, <1>12

LEMMA WrapStep ==
  ASSUME IInv, NEW u \in Users, Wrap(u)
  PROVE  IInv'
<1>1. PICK uid \in Users, skew \in 0..MaxSkew, ttl \in SignerTtls, mech \in Mechs :
      \E c \in IF mech = "curve" THEN CertsOf(u) ELSE {NoCert} :
       msgs' = msgs \cup {[by |-> u, made |-> now, uid |-> uid, mech |-> mech,
                           cert |-> c, ctime |-> now + skew, xtime |-> now + skew + ttl,
                           signer |-> u, fits |-> TRUE]}
  BY DEF Wrap
<1>2. PICK c \in IF mech = "curve" THEN CertsOf(u) ELSE {NoCert} :
       msgs' = msgs \cup {[by |-> u, made |-> now, uid |-> uid, mech |-> mech,
                           cert |-> c, ctime |-> now + skew, xtime |-> now + skew + ttl,
                           signer |-> u, fits |-> TRUE]}
  BY <1>1
<1>3. UNCHANGED <<caVars, verifier>>
  BY DEF Wrap
<1>4. CertsOf(u) \subseteq CertsFor(u, uid)
  BY DEF CertsOf, CertsFor
<1>5. IF mech = "curve" THEN c \in Cert /\ (c.ca # NoCa => c \in issued) ELSE c = NoCert
  BY <1>2, <1>4, CertsForType DEF IInv, TypeOK
<1> QED
  BY <1>2, <1>3, <1>5, NewMsgStep

LEMMA ComposeStep ==
  ASSUME IInv, NEW u \in Users, Compose(u)
  PROVE  IInv'
<1>1. PICK uid \in Users, skew \in 0..MaxSkew, ttl \in SignerTtls, fits \in BOOLEAN,
           mech \in Mechs :
      \E c \in IF mech = "curve" THEN CertsFor(u, uid) ELSE {NoCert} :
       msgs' = msgs \cup {[by |-> u, made |-> now, uid |-> uid, mech |-> mech,
                           cert |-> c, ctime |-> now + skew, xtime |-> now + skew + ttl,
                           signer |-> IF fits THEN u
                                      ELSE IF mech = "curve" THEN c.key ELSE uid,
                           fits |-> fits]}
  BY DEF Compose
<1>2. PICK c \in IF mech = "curve" THEN CertsFor(u, uid) ELSE {NoCert} :
       msgs' = msgs \cup {[by |-> u, made |-> now, uid |-> uid, mech |-> mech,
                           cert |-> c, ctime |-> now + skew, xtime |-> now + skew + ttl,
                           signer |-> IF fits THEN u
                                      ELSE IF mech = "curve" THEN c.key ELSE uid,
                           fits |-> fits]}
  BY <1>1
<1> DEFINE signer == IF fits THEN u ELSE IF mech = "curve" THEN c.key ELSE uid
<1>3. UNCHANGED <<caVars, verifier>>
  BY DEF Compose
<1>4. IF mech = "curve" THEN c \in Cert /\ (c.ca # NoCa => c \in issued) ELSE c = NoCert
  BY <1>2, CertsForType DEF IInv, TypeOK
<1>5. signer \in Users /\ (fits => signer = u)
  BY <1>4 DEF Cert
<1>6. msgs' = msgs \cup {[by |-> u, made |-> now, uid |-> uid, mech |-> mech,
                           cert |-> c, ctime |-> now + skew, xtime |-> now + skew + ttl,
                           signer |-> signer, fits |-> fits]}
  BY <1>2
<1> HIDE DEF signer
<1> QED
  BY <1>3, <1>4, <1>5, <1>6, NewMsgStep

\* Steps of the verifier leave the CA's files and the messages alone.
LEMMA VerifierFrame ==
  ASSUME IInv, UNCHANGED <<caVars, msgs>>
  PROVE  CaTypeOK' /\ CertInv' /\ MsgInv'
<1>1. \A v : CertsOf(v)' = CertsOf(v)
  BY DEF CertsOf, SigcertCreate, caVars
<1>2. CaTypeOK' /\ CertInv'
  BY <1>1 DEF IInv, TypeOK, CaTypeOK, CertInv, caVars
<1>3. MsgInv'
  BY <1>1 DEF IInv, MsgInv, caVars
<1> QED
  BY <1>2, <1>3

LEMMA UnwrapStep ==
  ASSUME IInv, Unwrap
  PROVE  IInv'
<1>1. CaTypeOK' /\ CertInv' /\ MsgInv'
  BY VerifierFrame DEF Unwrap
<1>2. TypeOK'
  BY <1>1 DEF IInv, TypeOK, CaTypeOK, Unwrap, caVars, Msg
<1>3. KeptInv'
  BY DEF IInv, TypeOK, CaTypeOK, KeptInv, Unwrap, caVars, Msg, Mechs
<1>4. CertChecked'
  BY DEF IInv, TypeOK, Unwrap, CertChecked, Msg, Mechs
<1> QED
  BY <1>1, <1>2, <1>3, <1>4 DEF IInv

\* However a verification ends, only the CA that is cached outlives it.
LEMMA ReturnStep ==
  ASSUME IInv, Return, caCached' = caCached \/ caCached' = CaInUse
  PROVE  IInv'
<1>1. CaTypeOK' /\ CertInv' /\ MsgInv'
  BY VerifierFrame DEF Return
<1>0. blind' \in BOOLEAN
  BY DEF Return
<1>2. TypeOK'
  BY <1>0, <1>1, CaAssumption DEF IInv, TypeOK, CaTypeOK, Return, caVars, CaInUse
<1>3. KeptInv'
  BY DEF IInv, TypeOK, CaTypeOK, KeptInv, Return, caVars, CaInUse, Mechs
<1>4. CertChecked'
  BY DEF Return, CertChecked
<1> QED
  BY <1>1, <1>2, <1>3, <1>4 DEF IInv

\* A signature that fits is its author's, made with the key in the certificate.
LEMMA AuthorsKey ==
  ASSUME IInv, pc = "curve", SignatureFits
  PROVE  /\ msg \in msgs /\ msg \in Msg /\ msg.cert \in Cert
         /\ msg.cert.key = msg.by
         /\ msg.cert.ca # NoCa => msg.cert \in issued
<1>1. msg \in msgs /\ msg.mech = "curve"
  BY DEF IInv, KeptInv, Mechs
<1>2. msg \in Msg
  BY <1>1 DEF IInv, TypeOK
<1> QED
  BY <1>1, <1>2 DEF IInv, MsgInv, SignatureFits

LEMMA VerifyCertHomeStep ==
  ASSUME IInv, VerifyCertHome
  PROVE  IInv'
<1>1. CaTypeOK' /\ CertInv' /\ MsgInv'
  BY VerifierFrame DEF VerifyCertHome
<1>2. TypeOK'
  BY <1>1 DEF IInv, TypeOK, VerifyCertHome, Mechs
<1>3. KeptInv'
  BY DEF IInv, KeptInv, VerifyCertHome, caVars, Mechs
<1>4. CertChecked'
  <2>1. msg.uid \in Users /\ msg.cert \in Cert /\ msg.cert.key = msg.by
    BY AuthorsKey DEF VerifyCertHome, Msg
  <2>2. msg.cert \in CertsOf(msg.uid)
    BY <2>1, NoCertAssumption DEF IInv, CertInv, VerifyCertHome, InHome
  <2>3. msg.cert.key = msg.uid
    BY <2>1, <2>2, CertsOfType DEF IInv, TypeOK
  <2> QED
    BY <2>1, <2>3 DEF VerifyCertHome, CertChecked
<1> QED
  BY <1>1, <1>2, <1>3, <1>4 DEF IInv

LEMMA VerifyCertCaStep ==
  ASSUME IInv, VerifyCertCa
  PROVE  IInv'
<1>1. CaTypeOK' /\ CertInv' /\ MsgInv'
  BY VerifierFrame DEF VerifyCertCa
<1>2. TypeOK'
  BY <1>1 DEF IInv, TypeOK, CaTypeOK, VerifyCertCa, Mechs, CaInUse
<1>3. KeptInv'
  BY DEF IInv, KeptInv, VerifyCertCa, caVars, Mechs, CaInUse
<1>4. CertChecked'
  <2>1. /\ msg \in Msg /\ msg.cert \in Cert /\ msg.cert.key = msg.by
        /\ msg.cert.ca # NoCa => msg.cert \in issued
    BY AuthorsKey DEF VerifyCertCa
  <2>2. /\ CaVerify(CaInUse, msg.cert, blind') /\ msg.cert.userid = msg.uid
        /\ began <= msg.ctime + msg.cert.maxSignTtl
    BY DEF VerifyCertCa, CertGood, CertUser, SignTtl
  <2>3. msg.cert \in issued
    BY <2>1, <2>2 DEF CaVerify, SignedBy
  <2>4. msg.cert.ca \in trusted
    BY <2>2 DEF IInv, KeptInv, CaVerify, SignedBy, CaInUse
  <2>5. msg.by = msg.uid
    BY <2>1, <2>2, <2>3 DEF IInv, CertInv
  <2>6. began <= msg.cert.xtime /\ msg.cert.nbt <= now
    <3>1. began \in Nat /\ now \in Nat /\ msg.cert.xtime \in Nat /\ began <= now
      BY <2>1 DEF IInv, TypeOK, CaTypeOK, KeptInv, Cert
    <3> QED
      BY <3>1, <2>2 DEF CaVerify
  <2>7. ~blind' => msg.cert.uuid \notin withdrawn
    BY <2>2 DEF IInv, KeptInv, CaVerify, CheckRevocation
  <2> QED
    BY <2>2, <2>3, <2>4, <2>5, <2>6, <2>7 DEF CertChecked, VerifyCertCa, caVars
<1> QED
  BY <1>1, <1>2, <1>3, <1>4 DEF IInv

LEMMA NewContextStep ==
  ASSUME IInv, NewContext
  PROVE  IInv'
<1>1. CaTypeOK' /\ CertInv' /\ MsgInv'
  BY VerifierFrame DEF NewContext
<1>2. TypeOK'
  BY <1>1 DEF IInv, TypeOK, CaTypeOK, NewContext, Forget
<1>3. KeptInv' /\ CertChecked'
  BY DEF IInv, KeptInv, CertChecked, NewContext, Forget, caVars, Mechs
<1> QED
  BY <1>1, <1>2, <1>3 DEF IInv

LEMMA NextIInv == IInv /\ [Next]_vars => IInv'
<1> SUFFICES ASSUME IInv, [Next]_vars PROVE IInv'
  OBVIOUS
<1>1. CASE Authority
  BY <1>1, AuthorityStep
<1>2. CASE Unwrap
  BY <1>2, UnwrapStep
<1>3. CASE VerifyNone \/ VerifyMunge \/ VerifyTimes \/ Refuse
  BY <1>3, ReturnStep DEF VerifyNone, VerifyMunge, VerifyTimes, Refuse
<1>4. CASE VerifyCertHome
  BY <1>4, VerifyCertHomeStep
<1>5. CASE VerifyCertCa
  BY <1>5, VerifyCertCaStep
<1>6. CASE NewContext
  BY <1>6, NewContextStep
<1>7. CASE \E u \in Users : Wrap(u) \/ Compose(u)
  BY <1>7, WrapStep, ComposeStep
<1>8. CASE UNCHANGED vars
  <2>1. CaTypeOK' /\ CertInv' /\ MsgInv'
    BY <1>8, VerifierFrame DEF vars
  <2> QED
    BY <1>8, <2>1 DEF IInv, TypeOK, KeptInv, CertChecked, vars, verifier, caVars
<1> QED
  BY <1>1, <1>2, <1>3, <1>4, <1>5, <1>6, <1>7, <1>8 DEF Next

THEOREM IndInv == Spec => []IInv
BY InitIInv, NextIInv, PTL DEF Spec

-----------------------------------------------------------------------------
\* Every variable of Sign keeps its type; no certificate outlives the CA's
\* max-cert-ttl (ca.c:131).
THEOREM TypeCorrect == Spec => []TypeOK
<1>1. IInv => TypeOK
  BY DEF IInv
<1> QED
  BY <1>1, IndInv, PTL

\* Under munge and curve, only the user a message names has its message accepted,
\* whatever certificates and signatures others put into theirs.
THEOREM AuthorsAreClaimed == Spec => AuthorIsClaimed
<1>1. IInv => (AcceptVerified => msg.by = msg.uid)
  BY DEF IInv, CertChecked, AcceptVerified, VerifyMunge, VerifyTimes, MungeUid,
         KeptInv, MsgInv, Mechs
<1> QED
  BY <1>1, IndInv, PTL DEF AuthorIsClaimed

\* Whatever the limits and however often a message is presented, it is refused once
\* it is too old.
THEOREM OldAreRefused == Spec => OldIsRefused
<1>1. ASSUME IInv, AcceptVerified
      PROVE  /\ began <= msg.made + MaxSkew + MaxTtl
             /\ AcceptCurve /\ requireCa => began <= msg.made + MaxSkew + msg.cert.maxSignTtl
  <2>1. /\ msg.mech = "curve" => msg.cert.maxSignTtl \in Nat
        /\ msg.made \in Nat /\ msg.ctime \in Nat /\ began \in Nat /\ now \in Nat
        /\ msg.ctime <= msg.made + MaxSkew /\ began <= now
    BY <1>1 DEF IInv, TypeOK, CaTypeOK, Msg, MsgInv, Cert, KeptInv, AcceptVerified,
                VerifyMunge, VerifyTimes
  <2>2. MaxSkew \in Nat /\ MaxTtl \in Nat
    BY SignAssumption
  <2>3. CASE VerifyMunge
    <3>1. now <= msg.made + MaxTtl /\ ~AcceptCurve
      BY <2>3 DEF VerifyMunge, AcceptCurve, VerifyTimes
    <3> QED
      BY <3>1, <2>1, <2>2
  <2>4. CASE VerifyTimes
    <3>1. began <= msg.ctime + MaxTtl
      BY <2>4 DEF VerifyTimes, InTime
    <3>2. /\ requireCa => began <= msg.ctime + msg.cert.maxSignTtl
          /\ msg.mech = "curve"
      BY <1>1, <2>4 DEF VerifyTimes, IInv, KeptInv, CertChecked
    <3> QED
      BY <3>1, <3>2, <2>1, <2>2
  <2> QED
    BY <1>1, <2>3, <2>4 DEF AcceptVerified
<1> QED
  BY <1>1, IndInv, PTL DEF OldIsRefused

\* A verification that begins after a revocation refuses the certificate, unless
\* access(2) cannot look for it.
THEOREM RevokedAreRefused == Spec => RevokedIsRefused
<1>1. IInv => (AcceptCurve /\ requireCa /\ ~blind => msg.cert.uuid \notin withdrawn)
  BY DEF IInv, CertChecked, AcceptCurve, VerifyTimes
<1> QED
  BY <1>1, IndInv, PTL DEF RevokedIsRefused

\* Whatever CAs come and go, an accepted certificate is from one that was at
\* cert-path during the context's life, and is in its lifetime.
THEOREM IssuersWereTrusted == Spec => IssuerWasTrusted
<1>1. IInv => (AcceptCurve /\ requireCa =>
                 /\ msg.cert \in issued
                 /\ msg.cert.ca \in trusted
                 /\ began <= msg.cert.xtime
                 /\ msg.cert.nbt <= now)
  BY DEF IInv, CertChecked, AcceptCurve, VerifyTimes
<1> QED
  BY <1>1, IndInv, PTL DEF IssuerWasTrusted
=============================================================================
