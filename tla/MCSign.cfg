CONSTANTS
  Users = {alice, flux}
  Self = flux
  Uuids = {c1}
  Cas = {k1, k2}
  NoUuid = nouuid
  NoUser = nouser
  NoCa = noca
  NoCert = nocert
  NoMsg = nomsg
  Homes = {alice}
  Allowed = {"curve"}
  MaxCertTtl = 1
  MaxTime = 3
  MaxTtl = 1
  SignerTtls = {2}
  SignTtls = {0, 2}
  MaxSkew = 1
  MaxMsgs = 1
SYMMETRY Symmetry
SPECIFICATION Spec
INVARIANTS
  TypeOK
PROPERTIES
  AuthorIsClaimed
  OldIsRefused
  RevokedIsRefused
  IssuerWasTrusted
