-------------------------------- MODULE Sign --------------------------------
(***************************************************************************)
(* Signing and verifying requests: flux_sign_wrap_as and flux_sign_unwrap  *)
(* (src/lib/sign.c) with the mechanisms none, munge and curve              *)
(* (src/lib/sign_none.c, sign_munge.c, sign_curve.c), on top of Ca.        *)
(* Users wrap messages, and compose others without the library; one        *)
(* verifier, whose context may live long or start anew, unwraps any of     *)
(* them any number of times.  The clock moves, and certificates are signed, *)
(* revoked and the CA's own replaced, between the steps of a verification  *)
(* too.                                                                    *)
(*                                                                         *)
(* In a message by and made say who really put it together and when; uid   *)
(* to xtime are what its header says.  A signature, or munge credential, is *)
(* represented by what it shows: signer is whose key or process made it,   *)
(* and fits that it was made for this header and payload.                  *)
(*                                                                         *)
(* A Bug definition is the one that follows it with a mistake in it.       *)
(***************************************************************************)
EXTENDS Ca, FiniteSets

CONSTANTS Self,        \* the verifier's uid
          Allowed,     \* allowed-types of the verifier
          MaxTtl,      \* max-ttl of the verifier's [sign] configuration
          SignerTtls,  \* that of those who sign
          MaxSkew,     \* how far ahead of its making a message's ctime may be
          MaxMsgs,     \* how many messages there are
          NoMsg        \* no message is being verified

Mechs == {"none", "munge", "curve"}

ASSUME SignAssumption ==
  /\ Self \in Users
  /\ Allowed \subseteq Mechs
  /\ MaxTtl \in Nat /\ MaxSkew \in Nat /\ MaxMsgs \in Nat
  /\ SignerTtls \subseteq Nat

VARIABLES msgs,       \* the messages there are so far
          pc,         \* where the verifier is
          msg,        \* the message it verifies
          began,      \* the time it began: op_verify's now
          caCached,   \* sc->ca of its context
          withdrawn,  \* history: the uuids revoked when it began
          blind,      \* history: it could not look into revoke-dir
          requireCa,  \* its context's curve.require-ca
          trusted     \* history: the CAs at cert-path during its context's life

verifier == <<pc, msg, began, caCached, withdrawn, blind, trusted, requireCa>>
vars == <<caVars, msgs, verifier>>

Init ==
  /\ CaInit
  /\ msgs = {}
  /\ pc = "idle"
  /\ msg = NoMsg
  /\ began = 0
  /\ caCached = NoCa
  /\ withdrawn = {}
  /\ blind = FALSE
  /\ trusted = {}
  /\ requireCa \in BOOLEAN

-----------------------------------------------------------------------------
\* flux_sign_wrap_as by user u, who may name any userid.  op_prep keeps the
\* certificate it loads first, so it need not be the one in u's home by now.
Wrap(u) ==
  /\ Cardinality(msgs) < MaxMsgs
  /\ \E uid \in Users, skew \in 0..MaxSkew, ttl \in SignerTtls, mech \in Mechs :
     \E c \in IF mech = "curve" THEN CertsOf(u) ELSE {NoCert} :
       msgs' = msgs \cup {[by |-> u, made |-> now, uid |-> uid, mech |-> mech,
                           cert |-> c, ctime |-> now + skew, xtime |-> now + skew + ttl,
                           signer |-> u, fits |-> TRUE]}
  /\ UNCHANGED <<caVars, verifier>>

\* The certificates u can put into a header: everybody's, and one of its own key
\* with what it likes in it and no CA's signature.
CertsFor(u, uid) ==
  issued \cup {SigcertCreate(v) : v \in Users}
  \cup {[SigcertCreate(u) EXCEPT !.userid = uid, !.xtime = MaxTime, !.maxSignTtl = st]
          : st \in SignTtls}

\* User u puts a message together without flux_sign_wrap_as: any certificate, and
\* either u's own signature or one that whoever is expected to sign made for
\* something else.
Compose(u) ==
  /\ Cardinality(msgs) < MaxMsgs
  /\ \E uid \in Users, skew \in 0..MaxSkew, ttl \in SignerTtls, fits \in BOOLEAN,
        mech \in Mechs \ {"none"} :
     \E c \in IF mech = "curve" THEN CertsFor(u, uid) ELSE {NoCert} :
     LET expected == IF mech = "curve" THEN c.key ELSE uid
         signer   == IF fits THEN u ELSE expected
     IN
       msgs' = msgs \cup {[by |-> u, made |-> now, uid |-> uid, mech |-> mech,
                           cert |-> c, ctime |-> now + skew, xtime |-> now + skew + ttl,
                           signer |-> signer, fits |-> fits]}
  /\ UNCHANGED <<caVars, verifier>>

\* sign_unwrap up to the mechanism's verify; flux_sign_unwrap_anymech takes
\* mechanisms that are not allowed too.
Unwrap ==
  /\ pc = "idle"
  /\ \E m \in msgs, anymech \in BOOLEAN :
       /\ anymech \/ m.mech \in Allowed
       /\ pc' = m.mech
       /\ msg' = m
  /\ began' = now
  /\ withdrawn' = revoked
  /\ UNCHANGED <<caVars, msgs, caCached, blind, trusted, requireCa>>

Return ==
  /\ pc' = "idle"
  /\ msg' = NoMsg
  /\ began' = 0
  /\ withdrawn' = {}
  /\ blind' = FALSE
  /\ UNCHANGED <<caVars, msgs, trusted, requireCa>>

\* op_verify of the mechanism none.
VerifyNone ==
  /\ pc = "none"
  /\ msg.uid = Self
  /\ Return
  /\ UNCHANGED caCached

\* A bug: whoever the credential is from will do.
BugMungeUid == TRUE

\* The uid in the credential is the userid of the header.
MungeUid == msg.signer = msg.uid

\* op_verify of the mechanism munge: the hash in the credential is that of header
\* and payload.  The encode time is munged's, and the time is read once the
\* credential is decoded.
VerifyMunge ==
  /\ pc = "munge"
  /\ msg.fits
  /\ MungeUid
  /\ now <= msg.made + MaxTtl
  /\ Return
  /\ UNCHANGED caCached

\* A bug: that the signature is one of the certificate's key is enough.
BugSignatureFits == msg.signer = msg.cert.key

\* sigcert_verify_detached: the certificate's key signed this header and payload.
SignatureFits == msg.fits /\ msg.signer = msg.cert.key

\* A bug: the certificate of any user will do.
BugInHome == \E u \in Users : home[u] = msg.cert

\* verify_cert_home: the certificate is in the home of the user it names.
InHome == home[msg.uid] = msg.cert

VerifyCertHome ==
  /\ pc = "curve" /\ ~requireCa
  /\ SignatureFits
  /\ InHome
  /\ pc' = "times"
  /\ UNCHANGED <<caVars, msgs, msg, began, caCached, withdrawn, blind, trusted, requireCa>>

\* verify_cert_ca loads the CA's certificate on first use.
CaInUse == IF caCached = NoCa THEN caFile ELSE caCached

\* A bug: the certificate's max-sign-ttl is ignored.
BugSignTtl == TRUE

\* The limit in the certificate; began is later than ctime by the message's age.
SignTtl == began <= msg.ctime + msg.cert.maxSignTtl

\* A bug: the certificate's userid is not compared.
BugCertUser == TRUE

CertUser == msg.cert.userid = msg.uid

CertGood(unreadable) == CaVerify(CaInUse, msg.cert, unreadable) /\ CertUser /\ SignTtl

VerifyCertCa ==
  /\ pc = "curve" /\ requireCa
  /\ SignatureFits
  /\ \E unreadable \in BOOLEAN : CertGood(unreadable) /\ blind' = unreadable
  /\ caCached' = CaInUse
  /\ pc' = "times"
  /\ UNCHANGED <<caVars, msgs, msg, began, withdrawn, trusted, requireCa>>

\* A bug: the signer's xtime is enough.
BugInTime == began <= msg.xtime /\ msg.ctime <= began

InTime == began <= msg.xtime /\ began <= msg.ctime + MaxTtl /\ msg.ctime <= began

\* The rest of op_verify of the mechanism curve.
VerifyTimes ==
  /\ pc = "times"
  /\ InTime
  /\ Return
  /\ UNCHANGED caCached

\* A check that fails, or an error on the way to it; the CA's certificate may have
\* been loaded by then.
Refuse ==
  /\ pc # "idle"
  /\ Return
  /\ \/ UNCHANGED caCached
     \/ pc = "curve" /\ requireCa /\ SignatureFits /\ caCached' = CaInUse

\* A bug: the CA's certificate survives the context that loaded it.
BugForget == UNCHANGED caCached

Forget == caCached' = NoCa

\* flux_security_destroy, flux_security_create and flux_security_configure, which may
\* find another configuration.
NewContext ==
  /\ pc = "idle"
  /\ Forget
  /\ trusted' = {caFile} \ {NoCa}
  /\ requireCa' \in BOOLEAN
  /\ UNCHANGED <<caVars, msgs, pc, msg, began, withdrawn, blind>>

\* Ca's steps; what is stored at cert-path is trusted from then on.
Authority ==
  /\ CaNext
  /\ trusted' = trusted \cup ({caFile'} \ {NoCa})
  /\ UNCHANGED <<msgs, pc, msg, began, caCached, withdrawn, blind, requireCa>>

Next == \/ Authority \/ Unwrap \/ VerifyNone \/ VerifyMunge \/ VerifyCertHome
        \/ VerifyCertCa \/ VerifyTimes \/ Refuse \/ NewContext
        \/ \E u \in Users : Wrap(u) \/ Compose(u)

Spec == Init /\ [][Next]_vars

-----------------------------------------------------------------------------
Msg == [by: Users, made: 0..MaxTime, uid: Users, mech: Mechs,
        cert: Cert \cup {NoCert}, ctime: Nat, xtime: Nat, signer: Users, fits: BOOLEAN]

TypeOK ==
  /\ CaTypeOK
  /\ msgs \in SUBSET Msg
  /\ pc \in Mechs \cup {"idle", "times"}
  /\ msg \in Msg \cup {NoMsg}
  /\ began \in 0..MaxTime
  /\ caCached \in Cas \cup {NoCa}
  /\ withdrawn \in SUBSET Uuids
  /\ blind \in BOOLEAN
  /\ trusted \in SUBSET Cas
  /\ requireCa \in BOOLEAN

AcceptCurve == VerifyTimes
AcceptVerified == VerifyMunge \/ VerifyTimes

\* Whoever put an accepted message together is the user it names, by munge's word,
\* by the CA's or by the certificate in that user's home, also when it carries
\* another's certificate or a signature made for something else (sign_munge.c:178
\* and 192, sign_curve.c:299, 259 and 219).  The mechanism none gives no such
\* assurance.
AuthorIsClaimed == [][AcceptVerified => msg.by = msg.uid]_vars

\* A message is refused once it is older than the verifier's max-ttl, and under
\* require-ca than its certificate's max-sign-ttl, by more than its ctime was ahead,
\* whatever expiry the signer chose and however often it was accepted before
\* (sign_munge.c:206, sign_curve.c:263 and 312).
OldIsRefused ==
  [][AcceptVerified =>
       /\ began <= msg.made + MaxSkew + MaxTtl
       /\ AcceptCurve /\ requireCa => began <= msg.made + MaxSkew + msg.cert.maxSignTtl]_vars

\* A certificate that was revoked before a verification began does not pass it,
\* though the verifier has cached the CA and may have accepted it before, as long
\* as the verifier can look into revoke-dir; where access(2) fails it accepts what
\* was revoked (ca.c:250, 315).
RevokedIsRefused ==
  [][AcceptCurve /\ requireCa /\ ~blind => msg.cert.uuid \notin withdrawn]_vars

\* A certificate that is accepted was signed by a CA that was at cert-path during
\* the life of the verifier's context, not by one replaced before, and the message
\* is accepted within the certificate's lifetime (sign_curve.c:240-254, ca.c:287,
\* 305 and 310).
IssuerWasTrusted ==
  [][AcceptCurve /\ requireCa =>
       /\ msg.cert \in issued
       /\ msg.cert.ca \in trusted
       /\ began <= msg.cert.xtime
       /\ msg.cert.nbt <= now]_vars
=============================================================================
