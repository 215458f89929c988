SPECIFICATION Spec
CONSTANTS
  User = {"bob", "owner"}
  NoUser = NoUser
  Role <- MCRole
  Subject = {"bob", "owner", "stranger"}
  NoSubject = NoSubject
  SubjectOf <- MCSubjectOf
  bobsKey = bobsKey
  ownersKey = ownersKey
  Key = {bobsKey, ownersKey}
  KeyUser <- MCKeyUser
  Req = {r1, r2}
  NoCred = NoCred
  Kid = {"s1", "s2"}
  Token <- MCToken
  JWTEnabled = TRUE
  Tab = {}
  NoCookie = NoCookie
  StateTTL = 1
  SessionTTL = 1
  MaxTime = 0
  MaxLogins = 0
  MaxSecret = 1
SYMMETRY Symmetry
INVARIANTS
  TypeOK
  SurfacesAreDisjoint
  DeadCredentialRefused
  GoodCredentialAccepted
