SPECIFICATION Spec
CONSTANTS
  User = {"bob", "owner"}
  NoUser = NoUser
  Role <- MCRole
  Subject = {"bob", "owner"}
  NoSubject = NoSubject
  SubjectOf <- MCSubjectOf
  bobsKey = bobsKey
  ownersKey = ownersKey
  Key = {bobsKey, ownersKey}
  KeyUser <- MCKeyUser
  Req = {r1}
  NoCred = NoCred
  Kid = {"s1"}
  Token <- NoToken
  JWTEnabled = FALSE
  Tab = {t1, t2}
  NoCookie = NoCookie
  StateTTL = 1
  SessionTTL = 1
  MaxTime = 1
  MaxLogins = 2
  MaxSecret = 2
CONSTRAINT RequestsBesideFirstLogin
SYMMETRY Symmetry
INVARIANTS
  DeadCredentialRefused
  GoodCredentialAccepted
  SessionNamesOwner
  VerifierMatchesCode
  LoginFailsForReason
PROPERTY KeysAreScoped
