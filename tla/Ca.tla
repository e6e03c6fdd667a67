--------------------------------- MODULE Ca ---------------------------------
(***************************************************************************)
(* The certificate authority of flux-security: src/libca/ca.c, the files   *)
(* it keeps, and the casign command through which a user has a certificate *)
(* signed (src/imp/casign.c).                                              *)
(*                                                                         *)
(* Each user has one key pair, named by the user: key says who can sign    *)
(* with the certificate.  A signature is represented by what it shows: ca  *)
(* is the CA certificate that signed.  Users have their own keys certified, *)
(* keep their secret halves to themselves, and store no certificate of     *)
(* another's key in their home.                                            *)
(*                                                                         *)
(* A Bug definition is the one that follows it with a mistake in it.       *)
(***************************************************************************)
EXTENDS Naturals

CONSTANTS Users,       \* user ids
          Uuids,       \* what uuid_generate returns
          Cas,         \* the CA certificates there may be
          NoUuid, NoUser, NoCa, NoCert,
          Homes,       \* the users who store a certificate in their home
          MaxCertTtl,  \* max-cert-ttl of the [ca] configuration
          SignTtls,    \* its max-sign-ttl, which may change
          MaxTime      \* the clock stops here

ASSUME CaAssumption ==
  /\ NoUuid \notin Uuids /\ NoUser \notin Users /\ NoCa \notin Cas
  /\ Homes \subseteq Users
  /\ MaxCertTtl \in Nat \ {0}
  /\ SignTtls \subseteq Nat
  /\ MaxTime \in Nat

VARIABLES now,      \* time(2)
          caFile,   \* the CA certificate at cert-path
          issued,   \* certificates the CA has signed
          revoked,  \* the uuids in revoke-dir
          home      \* the certificate in each user's ~/.flux/curve/sig

caVars == <<now, caFile, issued, revoked, home>>

Cert == [key: Users, uuid: Uuids \cup {NoUuid}, userid: Users \cup {NoUser},
         ca: Cas \cup {NoCa}, nbt: 0..(MaxTime + 1), xtime: 0..(MaxTime + 1 + MaxCertTtl),
         maxSignTtl: Nat]

ASSUME NoCertAssumption == NoCert \notin Cert

CaInit ==
  /\ now = 0
  /\ caFile = NoCa
  /\ issued = {}
  /\ revoked = {}
  /\ home = [u \in Users |-> NoCert]

-----------------------------------------------------------------------------
Tick ==
  /\ now < MaxTime
  /\ now' = now + 1
  /\ UNCHANGED <<caFile, issued, revoked, home>>

\* ca_keygen and ca_store; the private key is in the file as well.
CaStore ==
  /\ \E k \in Cas \ {caFile} : caFile' = k
  /\ UNCHANGED <<now, issued, revoked, home>>

\* The certificate of a key pair that nobody has signed.
SigcertCreate(u) ==
  [key |-> u, uuid |-> NoUuid, userid |-> NoUser, ca |-> NoCa, nbt |-> 0, xtime |-> 0,
   maxSignTtl |-> 0]

\* What u can sign with: its unsigned certificate and those it got from the CA.
CertsOf(u) == {SigcertCreate(u)} \cup {c \in issued : c.key = u}

\* sigcert_store into a user's own home.
SigcertStore(u) ==
  /\ u \in Homes
  /\ \E c \in CertsOf(u) \ {home[u]} : home' = [home EXCEPT ![u] = c]
  /\ UNCHANGED <<now, caFile, issued, revoked>>

Fresh == {id \in Uuids : \A c \in issued : c.uuid # id}

\* A bug: any time to live is granted.
BugTtlAllowed(ttl) == TRUE

TtlAllowed(ttl) == ttl <= MaxCertTtl

\* sign_with: a new uuid, nbt 0 for now and ttl 0 for the longest.
SignWith(c, id, userid, nbt, ttl, maxSignTtl) ==
  LET from == IF nbt = 0 THEN now ELSE nbt
      life == IF ttl = 0 THEN MaxCertTtl ELSE ttl
  IN [key |-> c.key, uuid |-> id, userid |-> userid, ca |-> caFile,
      nbt |-> from, xtime |-> from + life, maxSignTtl |-> maxSignTtl]

\* ca_sign of u's certificate with u's uid, after ca_load.  casign leaves nbt and
\* ttl 0; the library takes any.
CaSign(u) ==
  /\ caFile # NoCa
  /\ \E id \in Fresh, nbt \in {0, now + 1}, ttl \in 0..(MaxCertTtl + 1), st \in SignTtls :
       /\ TtlAllowed(ttl)
       /\ issued' = issued \cup {SignWith(SigcertCreate(u), id, u, nbt, ttl, st)}
  /\ UNCHANGED <<now, caFile, revoked, home>>

\* ca_revoke of a certificate that has been signed.
CaRevoke ==
  /\ \E c \in issued : c.uuid \notin revoked /\ revoked' = revoked \cup {c.uuid}
  /\ UNCHANGED <<now, caFile, issued, home>>

CaNext == Tick \/ CaStore \/ CaRevoke \/ \E u \in Users : SigcertStore(u) \/ CaSign(u)

-----------------------------------------------------------------------------
\* A bug: a certificate need not have been signed by this CA.
BugSignedBy(ca, c) == c.ca # NoCa

\* sigcert_verify_cert
SignedBy(ca, c) == ca # NoCa /\ c.ca = ca

\* A bug: the revocation directory is not read.
BugCheckRevocation(c, unreadable) == TRUE

\* check_revocation looks into the directory every time.  That access(2) cannot
\* (EACCES, EIO) is the same to it as that the certificate is not there.
CheckRevocation(c, unreadable) == unreadable \/ c.uuid \notin revoked

\* ca_verify; the certificate's userid and max-sign-ttl are left to the caller.
CaVerify(ca, c, unreadable) ==
  /\ SignedBy(ca, c)
  /\ now <= c.xtime
  /\ c.nbt <= now
  /\ CheckRevocation(c, unreadable)

CaTypeOK ==
  /\ now \in 0..MaxTime
  /\ caFile \in Cas \cup {NoCa}
  /\ issued \in SUBSET Cert
  /\ revoked \in SUBSET Uuids
  /\ home \in [Users -> Cert \cup {NoCert}]
=============================================================================
