---------------------------- MODULE GatewayProofs ----------------------------
(***************************************************************************)
(* Proofs about Gateway, for every set of users, keys, tokens, requests    *)
(* and tabs, every lifetime of a cookie, with JWTs or without: type        *)
(* correctness, and that what is let through, and what is refused, is what *)
(* the documents say, whatever changes while a request is being resolved.  *)
(***************************************************************************)
EXTENDS Gateway, TLAPS

USE DEF tableVars, requestVars, jwksVars, sessionVars, historyVars, vars

(* The role a surface lets through. *)
RoleOn(s) == IF s = "api" THEN "agent" ELSE "owner"

(* The kinds of credentials do not overlap, so each has its own clause. *)
LEMMA DeadKey ==
  ASSUME NEW c \in Key
  PROVE  /\ Dead(c) <=> c \in revoked \cup expired
         /\ Behind(c) = {KeyUser[c]} /\ KeyUser[c] \in User
         /\ c \notin Token /\ c # NoCred /\ c # NoCookie /\ c \notin SessionCookie
<1>1. c \notin Token /\ c # NoCred /\ c \notin SessionCookie /\ c # NoCookie
  BY CredentialAssumption, CookiesAreNoBearers DEF Bearer
<1>2. KeyUser[c] \in User
  BY KeyAssumption
<1> QED
  BY <1>1, <1>2 DEF Dead, Behind

LEMMA DeadToken ==
  ASSUME NEW c \in Token
  PROVE  /\ Dead(c) <=> c.aud # "api"
         /\ Behind(c) = GetUserBySSOSubject(c.sub)
         /\ c \notin Key /\ c # NoCred /\ c # NoCookie /\ c \notin SessionCookie
         /\ c.sub \in Subject /\ c.signer \in Kid /\ c.named \in BOOLEAN
<1>1. c \notin Key /\ c # NoCred /\ c \notin SessionCookie /\ c # NoCookie
  BY CredentialAssumption, CookiesAreNoBearers DEF Bearer
<1>2. c.sub \in Subject /\ c.signer \in Kid /\ c.named \in BOOLEAN
  BY TokenAssumption
<1> QED
  BY <1>1, <1>2 DEF Dead, Behind

LEMMA DeadSession ==
  ASSUME NEW c \in SessionCookie
  PROVE  /\ Dead(c) <=> c.key # secret \/ c.until <= clock
         /\ Behind(c) = {c.user} /\ c.user \in User
         /\ c \notin Key /\ c \notin Token /\ c # NoCred /\ c # NoCookie
<1>1. c \notin Key /\ c \notin Token /\ c # NoCred /\ c # NoCookie
  BY CookieAssumption, CookiesAreNoBearers DEF Bearer
<1>2. c.user \in User
  BY DEF SessionCookie
<1> QED
  BY <1>1, <1>2 DEF Dead, Behind

LEMMA DeadNothing == Dead(NoCred) /\ Dead(NoCookie)
<1>1. NoCred \notin Key \cup Token \cup SessionCookie /\ NoCookie \notin Key \cup Token \cup SessionCookie
  BY CredentialAssumption, CookieAssumption, CookiesAreNoBearers DEF Bearer
<1> QED
  BY <1>1 DEF Dead

-----------------------------------------------------------------------------
(* What a credential is at each stage of its resolution: only the API path
   has the JWT branch, only the console's has cookies. *)
StagesFit ==
  \A r \in Req :
    /\ pc[r] \in {"key", "jwks", "refresh", "subject"} => surface[r] = "api"
    /\ pc[r] = "session" => surface[r] = "bff"
    /\ pc[r] = "key" => cred[r] \in Key \cup Token
    /\ pc[r] \in {"jwks", "refresh", "subject"} => cred[r] \in Token
    /\ pc[r] = "user" => IF surface[r] = "api" THEN cred[r] \in Key ELSE cred[r] \in SessionCookie

(* How one step of a resolution can end, seen from its request. *)
StaysUnresolved(r) ==
  surface'[r] = surface[r] /\ cred'[r] = cred[r] /\ actor'[r] = actor[r] /\ listed'[r] = listed[r]

Refused(r) ==
  pc'[r] = "refused" /\ StaysUnresolved(r) /\ ~Acceptable(surface[r], cred[r])

Advanced(r) ==
  /\ StaysUnresolved(r)
  /\ \/ pc'[r] \in {"jwks", "refresh"} /\ surface[r] = "api" /\ cred[r] \in Token
     \/ pc'[r] = "subject" /\ surface[r] = "api" /\ cred[r] \in Token /\ ~Dead(cred[r])
     \/ /\ pc'[r] = "user" /\ ~Dead(cred[r])
        /\ IF surface[r] = "api" THEN cred[r] \in Key ELSE cred[r] \in SessionCookie

LetThrough(r) ==
  /\ pc[r] \in {"user", "subject"} /\ pc'[r] = "handler"
  /\ surface'[r] = surface[r] /\ cred'[r] = cred[r] /\ listed'[r] = listed[r]
  /\ actor'[r] \in Behind(cred[r]) \cap active
  /\ actor'[r] \in User /\ Role[actor'[r]] = RoleOn(surface[r])

Resolved(r) == Refused(r) \/ Advanced(r) \/ LetThrough(r)

(* The other requests, and what only a key set refresh touches. *)
OnlyRequest(r) ==
  /\ pc' \in [Req -> Stages] /\ surface' \in [Req -> Surface] /\ DOMAIN cred' = Req
  /\ actor' \in [Req -> User \cup {NoUser}] /\ listed' \in [Req -> SUBSET Key]
  /\ \A q \in Req : q # r => /\ pc'[q] = pc[q] /\ surface'[q] = surface[q] /\ cred'[q] = cred[q]
                             /\ actor'[q] = actor[q] /\ listed'[q] = listed[q]

Moves(r, to) == pc' = [pc EXCEPT ![r] = to] /\ UNCHANGED <<surface, cred, actor, listed>>

LEMMA MovesEffect ==
  ASSUME IdentityTypeOK, NEW r \in Req, NEW to \in Stages, Moves(r, to)
  PROVE  OnlyRequest(r) /\ pc'[r] = to /\ StaysUnresolved(r)
BY DEF IdentityTypeOK, OnlyRequest, Moves, StaysUnresolved

LEMMA EnterEffect ==
  ASSUME IdentityTypeOK, NEW r \in Req, NEW u \in User, Enter(r, u)
  PROVE  /\ OnlyRequest(r) /\ pc'[r] = "handler" /\ actor'[r] = u
         /\ surface'[r] = surface[r] /\ cred'[r] = cred[r] /\ listed'[r] = listed[r]
BY DEF IdentityTypeOK, OnlyRequest, Enter, Stages

(* The gate of the API path: whoever it refuses was not an active agent. *)
LEMMA GateEffect ==
  ASSUME TypeOK, NEW r \in Req, NEW u \in User, Gate(r, u), surface[r] = "api",
         pc[r] \in {"user", "subject"}, u \in Behind(cred[r]), \A v \in Behind(cred[r]) : v = u
  PROVE  OnlyRequest(r) /\ (Refused(r) \/ LetThrough(r))
<1>1. IdentityTypeOK
  BY DEF TypeOK
<1>2. CASE Role[u] # "owner" /\ u \in active
  <2>1. Enter(r, u)
    BY <1>2 DEF Gate
  <2>2. Role[u] = "agent"
    BY <1>2, RoleAssumption
  <2> QED
    BY <2>1, <2>2, <1>1, <1>2, EnterEffect DEF LetThrough, RoleOn
<1>3. CASE ~(Role[u] # "owner" /\ u \in active)
  <2>1. Moves(r, "refused")
    BY <1>3 DEF Gate, Refuse, Moves
  <2>2. ~Acceptable(surface[r], cred[r])
    BY <1>3 DEF Acceptable
  <2> QED
    BY <2>1, <2>2, <1>1, MovesEffect DEF Refused, Stages
<1> QED
  BY <1>2, <1>3

(* Every step of a resolution ends in one of the three ways. *)
LEMMA ResolutionStep ==
  ASSUME TypeOK, StagesFit, NEW r \in Req, ResolveActor(r) \/ RequireJSONSession(r)
  PROVE  /\ pc[r] \in {"key", "jwks", "refresh", "subject", "session", "user"}
         /\ OnlyRequest(r) /\ Resolved(r)
<1>1. IdentityTypeOK /\ cred[r] \in IF surface[r] = "api" THEN Bearer ELSE SessionCookie \cup {NoCookie}
  BY DEF TypeOK
<1> USE DEF StagesFit, Resolved
<1>2. CASE TryAPIKey(r)
  <2>1. pc[r] = "key" /\ surface[r] = "api" /\ cred[r] \in Key \cup Token
    BY <1>2 DEF TryAPIKey
  <2>2. CASE cred[r] \in Key /\ Live(cred[r])
    <3>1. Moves(r, "user")
      BY <1>2, <2>2 DEF TryAPIKey, Moves
    <3>2. ~Dead(cred[r])
      BY <2>2, DeadKey DEF Live
    <3> QED
      BY <1>1, <2>1, <2>2, <3>1, <3>2, MovesEffect DEF Advanced, Stages
  <2>3. CASE cred[r] \in Key /\ ~Live(cred[r])
    <3>1. Moves(r, "refused")
      BY <1>2, <2>3 DEF TryAPIKey, Moves, Refuse
    <3>2. ~Acceptable(surface[r], cred[r])
      BY <2>3, DeadKey DEF Live, Acceptable
    <3> QED
      BY <1>1, <2>1, <3>1, <3>2, MovesEffect DEF Refused, Stages
  <2>4. CASE cred[r] \notin Key /\ JWTEnabled /\ cred[r] \in Token
    <3>1. Moves(r, "jwks")
      BY <1>2, <2>4 DEF TryAPIKey, Moves
    <3> QED
      BY <1>1, <2>1, <2>4, <3>1, MovesEffect DEF Advanced, Stages
  <2>5. CASE cred[r] \notin Key /\ ~JWTEnabled
    <3>1. Moves(r, "refused")
      BY <1>2, <2>5 DEF TryAPIKey, Moves, Refuse
    <3>2. ~Acceptable(surface[r], cred[r])
      BY <2>1, <2>5, DeadNothing DEF Acceptable
    <3> QED
      BY <1>1, <2>1, <3>1, <3>2, MovesEffect DEF Refused, Stages
  <2> QED
    BY <2>1, <2>2, <2>3, <2>4, <2>5
<1>3. CASE LoadKeyUser(r)
  <2>1. pc[r] = "user" /\ surface[r] = "api" /\ cred[r] \in Key /\ Gate(r, KeyUser[cred[r]])
    BY <1>3 DEF LoadKeyUser
  <2>2. KeyUser[cred[r]] \in User /\ Behind(cred[r]) = {KeyUser[cred[r]]}
    BY <2>1, DeadKey
  <2> QED
    BY <2>1, <2>2, GateEffect
<1>4. ASSUME NEW keys, AfterLookup(r, keys), cred[r] \in Token, surface[r] = "api",
             pc[r] \in {"jwks", "refresh"},
             Validates(cred[r], keys) \/ ~Acceptable(surface[r], cred[r])
      PROVE  OnlyRequest(r) /\ Resolved(r)
  <2>1. CASE Validates(cred[r], keys)
    <3>1. Moves(r, "subject")
      BY <1>4, <2>1 DEF AfterLookup, Moves
    <3>2. ~Dead(cred[r])
      BY <1>4, <2>1, DeadToken DEF Validates
    <3> QED
      BY <1>1, <1>4, <3>1, <3>2, MovesEffect DEF Advanced, Stages
  <2>2. CASE ~Validates(cred[r], keys)
    <3>1. Moves(r, "refused")
      BY <1>4, <2>2 DEF AfterLookup, Refuse, Moves
    <3> QED
      BY <1>1, <1>4, <2>2, <3>1, MovesEffect DEF Refused, Stages
  <2> QED
    BY <2>1, <2>2
<1>5. CASE LookupCached(r)
  <2>1. pc[r] = "jwks" /\ surface[r] = "api" /\ cred[r] \in Token
    BY <1>5 DEF LookupCached
  <2> DEFINE keys == LookupRS256Key(cached, cred[r])
  <2>2. CASE keys = {}
    <3>1. Moves(r, "refresh")
      BY <1>5, <2>2 DEF LookupCached, Moves
    <3> QED
      BY <1>1, <2>1, <3>1, MovesEffect DEF Advanced, Stages
  <2>3. CASE keys # {}
    <3>1. AfterLookup(r, keys)
      BY <1>5, <2>3 DEF LookupCached
    <3>2. Validates(cred[r], keys) \/ ~Acceptable(surface[r], cred[r])
      <4>1. cred[r].named => cred[r].signer \in keys
        BY <2>3 DEF LookupRS256Key
      <4> QED
        BY <4>1, <2>1, DeadToken DEF Validates, Acceptable
    <3> QED
      BY <2>1, <3>1, <3>2, <1>4
  <2> QED
    BY <2>1, <2>2, <2>3
<1>6. CASE RefreshOnMiss(r)
  <2>1. pc[r] = "refresh" /\ surface[r] = "api" /\ cred[r] \in Token
    BY <1>6 DEF RefreshOnMiss
  <2> DEFINE keys == LookupRS256Key(published, cred[r])
  <2>2. AfterLookup(r, keys)
    BY <1>6 DEF RefreshOnMiss
  <2>3. Validates(cred[r], keys) \/ ~Acceptable(surface[r], cred[r])
    BY <2>1, DeadToken DEF Validates, Acceptable, LookupRS256Key
  <2> QED
    BY <2>1, <2>2, <2>3, <1>4
<1>7. CASE LoadSubject(r)
  <2>1. pc[r] = "subject" /\ surface[r] = "api" /\ cred[r] \in Token
    BY <1>7 DEF LoadSubject
  <2>2. Behind(cred[r]) = GetUserBySSOSubject(cred[r].sub) /\ cred[r].sub \in Subject
    BY <2>1, DeadToken
  <2>3. CASE GetUserBySSOSubject(cred[r].sub) = {}
    <3>1. Moves(r, "refused")
      BY <1>7, <2>3 DEF LoadSubject, Refuse, Moves
    <3>2. ~Acceptable(surface[r], cred[r])
      BY <2>2, <2>3 DEF Acceptable
    <3> QED
      BY <1>1, <2>1, <3>1, <3>2, MovesEffect DEF Refused, Stages
  <2>4. CASE GetUserBySSOSubject(cred[r].sub) # {}
    <3>1. PICK u \in GetUserBySSOSubject(cred[r].sub) : Gate(r, u)
      BY <1>7, <2>4 DEF LoadSubject
    <3>2. u \in User /\ \A v \in Behind(cred[r]) : v = u
      BY <2>2, SubjectAssumption DEF GetUserBySSOSubject
    <3> QED
      BY <2>1, <2>2, <3>1, <3>2, GateEffect
  <2> QED
    BY <2>3, <2>4
<1>8. CASE ParseSession(r)
  <2>1. pc[r] = "session" /\ surface[r] = "bff" /\ cred[r] \in SessionCookie \cup {NoCookie}
    BY <1>1, <1>8 DEF ParseSession
  <2>2. CASE Authentic(cred[r])
    <3>1. Moves(r, "user")
      BY <1>8, <2>2 DEF ParseSession, Moves
    <3>2. cred[r] \in SessionCookie /\ ~Dead(cred[r])
      <4>1. cred[r] \in SessionCookie /\ cred[r].key = secret /\ clock < cred[r].until
        BY <2>1, <2>2 DEF Authentic
      <4>2. clock \in Nat /\ cred[r].until \in Nat
        BY <4>1, SessionAssumption DEF TypeOK, SessionTypeOK, SessionCookie
      <4> QED
        BY <4>1, <4>2, DeadSession
    <3> QED
      BY <1>1, <2>1, <3>1, <3>2, MovesEffect DEF Advanced, Stages
  <2>3. CASE ~Authentic(cred[r])
    <3>1. Moves(r, "refused")
      BY <1>8, <2>3 DEF ParseSession, Refuse, Moves
    <3>2. ~Acceptable(surface[r], cred[r])
      <4>1. CASE cred[r] = NoCookie
        BY <4>1, DeadNothing DEF Acceptable
      <4>2. CASE cred[r] # NoCookie
        <5>1. cred[r] \in SessionCookie
          BY <2>1, <4>2
        <5>2. clock \in Nat /\ cred[r].until \in Nat
          BY <5>1, SessionAssumption DEF TypeOK, SessionTypeOK, SessionCookie
        <5>3. Dead(cred[r])
          BY <2>3, <4>2, <5>1, <5>2, DeadSession DEF Authentic
        <5> QED
          BY <5>3 DEF Acceptable
      <4> QED
        BY <4>1, <4>2
    <3> QED
      BY <1>1, <2>1, <3>1, <3>2, MovesEffect DEF Refused, Stages
  <2> QED
    BY <2>2, <2>3
<1>9. CASE LoadSessionUser(r)
  <2>1. pc[r] = "user" /\ surface[r] = "bff" /\ cred[r] \in SessionCookie
    BY <1>9 DEF LoadSessionUser
  <2>2. cred[r].user \in User /\ Behind(cred[r]) = {cred[r].user}
    BY <2>1, DeadSession
  <2>3. CASE Role[cred[r].user] # "agent" /\ cred[r].user \in active
    <3>1. Enter(r, cred[r].user)
      BY <1>9, <2>3 DEF LoadSessionUser
    <3>2. Role[cred[r].user] = "owner"
      BY <2>2, <2>3, RoleAssumption
    <3> QED
      BY <1>1, <2>1, <2>2, <2>3, <3>1, <3>2, EnterEffect DEF LetThrough, RoleOn
  <2>4. CASE ~(Role[cred[r].user] # "agent" /\ cred[r].user \in active)
    <3>1. Moves(r, "refused")
      BY <1>9, <2>4 DEF LoadSessionUser, Refuse, Moves
    <3>2. ~Acceptable(surface[r], cred[r])
      BY <2>1, <2>2, <2>4 DEF Acceptable
    <3> QED
      BY <1>1, <2>1, <3>1, <3>2, MovesEffect DEF Refused, Stages
  <2> QED
    BY <2>3, <2>4
<1> QED
  BY <1>2, <1>3, <1>5, <1>6, <1>7, <1>8, <1>9 DEF ResolveActor, RequireJSONSession

-----------------------------------------------------------------------------
(* A step of the server, seen from one request. *)
Same(r) == pc'[r] = pc[r] /\ StaysUnresolved(r)

Arrives(r) ==
  /\ pc[r] = "idle" /\ actor'[r] = actor[r] /\ listed'[r] = listed[r]
  /\ \/ surface'[r] = "api" /\ cred'[r] \in Key \cup Token /\ pc'[r] = "key"
     \/ surface'[r] = "api" /\ cred'[r] = NoCred /\ pc'[r] = "refused"
     \/ surface'[r] = "bff" /\ cred'[r] \in SessionCookie \cup {NoCookie} /\ pc'[r] = "session"
     \/ surface'[r] = surface[r] /\ cred'[r] = cred[r] /\ pc'[r] = "rejected"

Answers(r) ==
  /\ pc[r] = "handler" /\ pc'[r] \in {"rejected", "done", "notfound"}
  /\ surface'[r] = surface[r] /\ cred'[r] = cred[r] /\ actor'[r] = actor[r]
  /\ \/ listed'[r] = listed[r]
     \/ listed'[r] = IF surface[r] = "api" THEN ListAPIKeysByOwner(actor[r]) ELSE ListAllAgentAPIKeys

Breaks(r) == pc[r] = "handler" /\ pc'[r] = "broken" /\ StaysUnresolved(r)

Fails(r) ==
  /\ pc[r] \in {"key", "refresh", "user", "subject"} /\ pc'[r] = "refused"
  /\ StaysUnresolved(r) /\ r \in faulted'

Ends(r) ==
  pc'[r] = "idle" /\ surface'[r] = "api" /\ cred'[r] = NoCred /\ actor'[r] = NoUser /\ listed'[r] = {}

Resolving(r) == pc[r] \in {"key", "jwks", "refresh", "subject", "session", "user"} /\ Resolved(r)

Moved(r) == Same(r) \/ Arrives(r) \/ Resolving(r) \/ Answers(r) \/ Breaks(r) \/ Fails(r) \/ Ends(r)

RequestTypes ==
  /\ pc' \in [Req -> Stages] /\ surface' \in [Req -> Surface] /\ DOMAIN cred' = Req
  /\ actor' \in [Req -> User \cup {NoUser}] /\ listed' \in [Req -> SUBSET Key]

(* Whatever changes a table, a clock or a key set leaves the requests alone,
   and the other way round, but for the keys that are revoked by a handler. *)
Kept == UNCHANGED <<active, expired, published, clock, secret>>

LEMMA OneMoved ==
  ASSUME NEW r \in Req, OnlyRequest(r), Moved(r)
  PROVE  RequestTypes /\ \A q \in Req : Moved(q)
BY DEF OnlyRequest, RequestTypes, Moved, Same, StaysUnresolved

LEMMA ResetEffect ==
  ASSUME IdentityTypeOK, NEW R \in SUBSET Req, Reset(R)
  PROVE  RequestTypes /\ \A q \in Req : IF q \in R THEN Ends(q) ELSE Same(q)
BY DEF IdentityTypeOK, Reset, RequestTypes, Ends, Same, StaysUnresolved, Stages, Surface

(* A failed query or refresh only ends the one request. *)
LEMMA FailingEffect ==
  ASSUME NEW r \in Req, FailResolution(r)
  PROVE  /\ pc[r] \in {"key", "refresh", "user", "subject"} /\ Moves(r, "refused")
         /\ UNCHANGED <<tableVars, jwksVars, sessionVars>>
         /\ Observe({r})
BY DEF FailResolution, RefreshFails, LookupFails, Refuse, Moves

LEMMA RequestStep ==
  ASSUME TypeOK, StagesFit, Next
  PROVE  RequestTypes /\ \A r \in Req : Moved(r)
<1>1. IdentityTypeOK
  BY DEF TypeOK
<1>2. ASSUME NEW r \in Req, RejectActorFields(r) PROVE RequestTypes /\ \A q \in Req : Moved(q)
  <2>1. Moves(r, "rejected") /\ pc[r] = "idle"
    BY <1>2 DEF RejectActorFields, Goto, Moves
  <2>2. OnlyRequest(r) /\ Arrives(r)
    BY <1>1, <2>1, MovesEffect DEF Arrives, Stages, StaysUnresolved
  <2> QED
    BY <2>2, OneMoved DEF Moved
<1>3. ASSUME NEW r \in Req, NEW s \in Surface, NEW c, NEW stage \in Stages, Arrive(r, s, c, stage)
      PROVE  /\ OnlyRequest(r) /\ pc[r] = "idle" /\ pc'[r] = stage /\ surface'[r] = s /\ cred'[r] = c
             /\ actor'[r] = actor[r] /\ listed'[r] = listed[r]
  BY <1>1, <1>3 DEF Arrive, Goto, OnlyRequest, IdentityTypeOK
<1>4. ASSUME NEW r \in Req, ArriveAtAPI(r) PROVE RequestTypes /\ \A q \in Req : Moved(q)
  <2>1. PICK c \in Bearer : Arrive(r, "api", c, IF c = NoCred THEN "refused" ELSE "key")
    BY <1>4 DEF ArriveAtAPI
  <2> DEFINE stage == IF c = NoCred THEN "refused" ELSE "key"
  <2>2. stage \in Stages /\ "api" \in Surface
    BY DEF Stages, Surface
  <2>3. /\ OnlyRequest(r) /\ pc[r] = "idle" /\ pc'[r] = stage /\ surface'[r] = "api" /\ cred'[r] = c
        /\ actor'[r] = actor[r] /\ listed'[r] = listed[r]
    BY <2>1, <2>2, <1>3
  <2>4. Arrives(r)
    BY <2>3 DEF Arrives, Bearer
  <2> QED
    BY <2>3, <2>4, OneMoved DEF Moved
<1>5. ASSUME NEW r \in Req, ArriveAtBFF(r) PROVE RequestTypes /\ \A q \in Req : Moved(q)
  <2>1. Arrive(r, "bff", sessionCookie, "session") /\ "session" \in Stages /\ "bff" \in Surface
    BY <1>5 DEF ArriveAtBFF, Stages, Surface
  <2>2. /\ OnlyRequest(r) /\ pc[r] = "idle" /\ pc'[r] = "session" /\ surface'[r] = "bff"
        /\ cred'[r] = sessionCookie /\ actor'[r] = actor[r] /\ listed'[r] = listed[r]
    BY <2>1, <1>3
  <2>3. Arrives(r)
    BY <2>2 DEF Arrives, TypeOK, SessionTypeOK
  <2> QED
    BY <2>2, <2>3, OneMoved DEF Moved
<1>6. ASSUME NEW r \in Req, ResolveBearer(r) \/ ResolveSession(r) PROVE RequestTypes /\ \A q \in Req : Moved(q)
  <2>1. ResolveActor(r) \/ RequireJSONSession(r)
    BY <1>6 DEF ResolveBearer, ResolveSession
  <2> QED
    BY <2>1, ResolutionStep, OneMoved DEF Moved, Resolving
<1>7. ASSUME NEW r \in Req, Respond(r) PROVE RequestTypes /\ \A q \in Req : Moved(q)
  <2>1. CASE Invalid(r)
    <3>1. OnlyRequest(r) /\ Answers(r)
      BY <1>1, <2>1 DEF Invalid, Answer, Goto, OnlyRequest, Answers, IdentityTypeOK, Stages
    <3> QED
      BY <3>1, OneMoved DEF Moved
  <2>2. CASE ListKeys(r)
    <3>1. OnlyRequest(r) /\ Answers(r)
      BY <1>1, <2>2 DEF ListKeys, Answer, Goto, OnlyRequest, Answers, IdentityTypeOK, Stages,
         ListAPIKeysByOwner, ListAllAgentAPIKeys
    <3> QED
      BY <3>1, OneMoved DEF Moved
  <2>3. ASSUME NEW k \in Key, RevokeKey(r, k) PROVE RequestTypes /\ \A q \in Req : Moved(q)
    <3>1. OnlyRequest(r) /\ Answers(r)
      BY <1>1, <2>3 DEF RevokeKey, Answer, Goto, OnlyRequest, Answers, IdentityTypeOK, Stages
    <3> QED
      BY <3>1, OneMoved DEF Moved
  <2>4. CASE Break(r)
    <3>1. Moves(r, "broken") /\ pc[r] = "handler"
      BY <2>4 DEF Break, Answer, Goto, Moves
    <3>2. OnlyRequest(r) /\ Breaks(r)
      BY <1>1, <3>1, MovesEffect DEF Breaks, Stages
    <3> QED
      BY <3>2, OneMoved DEF Moved
  <2>5. CASE Finish(r)
    BY <1>1, <2>5, ResetEffect DEF Finish, Moved
  <2> QED
    BY <1>7, <2>1, <2>2, <2>3, <2>4, <2>5 DEF Respond, Handle
<1>8. CASE TablesChange \/ IssuerChanges \/ BrowserMoves
  <2>1. UNCHANGED requestVars
    BY <1>8 DEF TablesChange, ExpireKey, SetActive, IssuerChanges, ScheduledRefresh, PublishKey,
       RetireKey, BrowserMoves
  <2> QED
    BY <1>1, <2>1 DEF RequestTypes, IdentityTypeOK, Moved, Same, StaysUnresolved
<1>9. CASE ServerRestart
  <2>1. Reset(Req)
    BY <1>9 DEF ServerRestart
  <2> QED
    BY <1>1, <2>1, ResetEffect DEF Moved
<1>10. ASSUME NEW r \in Req, FailResolution(r) PROVE RequestTypes /\ \A q \in Req : Moved(q)
  <2>1. pc[r] \in {"key", "refresh", "user", "subject"} /\ Moves(r, "refused") /\ Observe({r})
    BY <1>10, FailingEffect
  <2>2. OnlyRequest(r) /\ pc'[r] = "refused" /\ StaysUnresolved(r)
    BY <1>1, <2>1, MovesEffect DEF Stages
  <2>3. r \in faulted'
    BY <2>1, <2>2 DEF Observe
  <2>4. Fails(r)
    BY <2>1, <2>2, <2>3 DEF Fails
  <2> QED
    BY <2>2, <2>4, OneMoved DEF Moved
<1> QED
  BY <1>2, <1>4, <1>5, <1>6, <1>7, <1>8, <1>9, <1>10 DEF Next

-----------------------------------------------------------------------------
(* Type correctness. *)

(* The tabs of the browser: what a login writes, and what spoils it. *)
LEMMA SpoilOthersType ==
  ASSUME tab \in [Tab -> TabState], NEW t \in Tab, NEW f \in TabState
  PROVE  SpoilOthers(t, f) \in [Tab -> TabState]
BY DEF SpoilOthers, TabState

LEMMA IdleType == SessionAssumption => Idle \in TabState
<1>1. 0 \in 0..MaxLogins /\ 0 \in 0..(MaxTime + StateTTL)
  BY SessionAssumption
<1> QED
  BY <1>1 DEF Idle, TabState

LEMMA GoesType ==
  ASSUME SessionTypeOK, NEW t \in Tab, NEW f \in TabState, Goes(t, f)
  PROVE  tab' \in [Tab -> TabState]
BY DEF SessionTypeOK, Goes

LEMMA LoginStepType ==
  ASSUME SessionTypeOK, NEW t \in Tab, LoginStep(t)
  PROVE  SessionTypeOK'
<1> USE SessionAssumption DEF SessionTypeOK
<1>1. Idle \in TabState
  BY IdleType
<1>2. clock + StateTTL \in 0..(MaxTime + StateTTL) /\ clock + SessionTTL \in 0..(MaxTime + SessionTTL)
  OBVIOUS
<1>3. CASE Login(t)
  <2>1. logins + 1 \in 1..MaxLogins /\ logins + 1 \in 0..MaxLogins /\ logins' = logins + 1
    BY <1>3 DEF Login
  <2>2. stateCookie' \in StateCookie
    BY <1>2, <1>3, <2>1 DEF Login, StateCookie
  <2>3. [Idle EXCEPT !.at = "idp", !.login = logins + 1, !.until = clock + StateTTL] \in TabState
    BY <1>1, <1>2, <2>1 DEF TabState
  <2> QED
    BY <1>3, <2>1, <2>2, <2>3, SpoilOthersType DEF Login
<1>4. tab[t] \in TabState
  OBVIOUS
<1>5. ASSUME NEW s \in Subject, Authorize(t, s) PROVE SessionTypeOK'
  <2>1. [tab[t] EXCEPT !.at = "code", !.who = s] \in TabState
    BY <1>4 DEF TabState
  <2> QED
    BY <1>5, <2>1, GoesType DEF Authorize
<1>6. CASE Callback(t)
  <2>1. [tab[t] EXCEPT !.at = IF StateMatches(t) THEN "exchange" ELSE "failed",
                       !.sent = stateCookie] \in TabState
    BY <1>4 DEF TabState
  <2> QED
    BY <1>6, <2>1, GoesType DEF Callback
<1>7. CASE Exchange(t) \/ LoginBreaks(t)
  <2>1. /\ [tab[t] EXCEPT !.at = IF tab[t].sent.login = tab[t].login THEN "user" ELSE "failed"] \in TabState
        /\ [tab[t] EXCEPT !.at = "failed", !.spoiled = TRUE] \in TabState
    BY <1>4 DEF TabState
  <2> QED
    BY <1>7, <2>1, GoesType DEF Exchange, LoginBreaks
<1>8. CASE GrantSession(t)
  <2>1. UNCHANGED <<clock, secret, logins, stateCookie, sessionCookie>>
    BY <1>8 DEF GrantSession
  <2>2. CASE Goes(t, [tab[t] EXCEPT !.at = "failed"])
    <3>1. [tab[t] EXCEPT !.at = "failed"] \in TabState
      BY <1>4 DEF TabState
    <3> QED
      BY <2>1, <2>2, <3>1, GoesType
  <2>3. ASSUME NEW u \in User,
               Goes(t, [tab[t] EXCEPT !.at = "granted",
                          !.grant = [user |-> u, until |-> clock + SessionTTL, key |-> secret]])
        PROVE  SessionTypeOK'
    <3>1. [user |-> u, until |-> clock + SessionTTL, key |-> secret] \in SessionCookie
      BY <1>2 DEF SessionCookie
    <3>2. [tab[t] EXCEPT !.at = "granted",
             !.grant = [user |-> u, until |-> clock + SessionTTL, key |-> secret]] \in TabState
      BY <1>4, <3>1 DEF TabState
    <3> QED
      BY <2>1, <2>3, <3>2, GoesType
  <2> QED
    BY <1>8, <2>2, <2>3 DEF GrantSession, GetUserBySSOSubject
<1>9. CASE CallbackResponse(t)
  <2>1. tab[t].grant \in SessionCookie \cup {NoCookie}
    BY DEF TabState
  <2> QED
    BY <1>1, <1>9, <2>1, SpoilOthersType DEF CallbackResponse
<1> QED
  BY <1>3, <1>5, <1>6, <1>7, <1>8, <1>9 DEF LoginStep

LEMMA SessionTypeStep ==
  ASSUME TypeOK, Next
  PROVE  SessionTypeOK'
<1> USE SessionAssumption
<1>1. SessionTypeOK
  BY DEF TypeOK
<1>2. CASE UNCHANGED sessionVars
  BY <1>1, <1>2 DEF SessionTypeOK
<1>3. ASSUME NEW t \in Tab, LoginStep(t) PROVE SessionTypeOK'
  BY <1>1, <1>3, LoginStepType
<1>4. CASE Tick
  BY <1>1, <1>4 DEF Tick, SessionTypeOK
<1>5. CASE TablesChange
  <2>1. UNCHANGED <<clock, secret, logins, stateCookie, sessionCookie>>
    BY <1>5 DEF TablesChange
  <2>2. tab' = tab \/ tab' = [t \in Tab |-> [tab[t] EXCEPT !.spoiled = @ \/ tab[t].at # "idle"]]
    BY <1>5 DEF TablesChange
  <2>3. ASSUME NEW t \in Tab
        PROVE  [tab[t] EXCEPT !.spoiled = @ \/ tab[t].at # "idle"] \in TabState
    BY <1>1 DEF SessionTypeOK, TabState
  <2>4. tab \in [Tab -> TabState]
    BY <1>1 DEF SessionTypeOK
  <2>5. tab' \in [Tab -> TabState]
    BY <2>2, <2>3, <2>4
  <2> QED
    BY <1>1, <2>1, <2>5 DEF SessionTypeOK
<1>6. CASE ServerRestart
  <2>1. Restart
    BY <1>6 DEF ServerRestart
  <2>2. secret' \in 1..MaxSecret
    BY <1>1, <2>1 DEF Restart, SessionTypeOK
  <2>3. tab' \in [Tab -> TabState]
    BY <1>1, <2>1, IdleType DEF Restart, SessionTypeOK, TabState
  <2> QED
    BY <1>1, <2>1, <2>2, <2>3 DEF Restart, SessionTypeOK
<1>7. ASSUME NEW r \in Req, RejectActorFields(r) \/ ArriveAtAPI(r) \/ ArriveAtBFF(r) \/ ResolveBearer(r)
                            \/ ResolveSession(r) \/ Respond(r)
      PROVE  UNCHANGED sessionVars
  BY <1>7 DEF RejectActorFields, ArriveAtAPI, ArriveAtBFF, Arrive, ResolveBearer, ResolveSession,
     Respond, RequireJSONSession, ParseSession, LoadSessionUser
<1>8. ASSUME NEW r \in Req, FailResolution(r) PROVE UNCHANGED sessionVars
  BY <1>8, FailingEffect
<1> QED
  BY <1>2, <1>3, <1>4, <1>5, <1>6, <1>7, <1>8 DEF Next, IssuerChanges, BrowserMoves

LEMMA TableTypeStep ==
  ASSUME TypeOK, Next
  PROVE  /\ active' \subseteq User /\ revoked' \subseteq Key /\ expired' \subseteq Key
         /\ published' \subseteq Kid /\ cached' \subseteq Kid
<1> USE DEF TypeOK, IdentityTypeOK
<1>1. ASSUME NEW r \in Req, ResolveActor(r)
      PROVE  UNCHANGED <<active, revoked, expired, published>> /\ (cached' = cached \/ cached' = published)
  BY <1>1 DEF ResolveActor, TryAPIKey, LoadKeyUser, LookupCached, RefreshOnMiss, LoadSubject
<1>2. ASSUME NEW r \in Req, Respond(r)
      PROVE  /\ UNCHANGED <<active, expired, published, cached>>
             /\ revoked' = revoked \/ \E k \in Key : revoked' = revoked \cup {k}
  <2>1. ASSUME NEW k \in Key, RevokeKey(r, k)
        PROVE  UNCHANGED <<active, expired>> /\ (revoked' = revoked \/ revoked' = revoked \cup {k})
    BY <2>1 DEF RevokeKey
  <2> QED
    BY <1>2, <2>1 DEF Respond, Handle, Invalid, ListKeys, Break, Finish
<1>3. ASSUME NEW r \in Req, RejectActorFields(r) \/ ArriveAtAPI(r) \/ ArriveAtBFF(r) \/ ResolveSession(r)
      PROVE  UNCHANGED <<tableVars, jwksVars>>
  BY <1>3 DEF RejectActorFields, ArriveAtAPI, ArriveAtBFF, Arrive, ResolveSession, RequireJSONSession,
     ParseSession, LoadSessionUser
<1>4. CASE TablesChange
  BY <1>4 DEF TablesChange, ExpireKey, SetActive
<1>5. CASE IssuerChanges
  BY <1>5 DEF IssuerChanges, ScheduledRefresh, PublishKey, RetireKey
<1>6. CASE BrowserMoves \/ ServerRestart
  BY <1>6 DEF BrowserMoves, ServerRestart
<1>7. ASSUME NEW r \in Req, FailResolution(r) PROVE UNCHANGED <<tableVars, jwksVars>>
  BY <1>7, FailingEffect
<1> QED
  BY <1>1, <1>2, <1>3, <1>4, <1>5, <1>6, <1>7 DEF Next, ResolveBearer

LEMMA Observed ==
  ASSUME Next PROVE \E failing \in SUBSET Req : Observe(failing)
<1>1. CASE \E r \in Req : FailResolution(r)
  <2>1. PICK r \in Req : Observe({r})
    BY <1>1, FailingEffect
  <2>2. {r} \in SUBSET Req
    OBVIOUS
  <2> QED
    BY <2>1, <2>2
<1>2. CASE ~\E r \in Req : FailResolution(r)
  <2>1. Observe({})
    BY <1>2 DEF Next, RejectActorFields, ArriveAtAPI, ArriveAtBFF, Arrive, ResolveBearer,
       ResolveSession, Respond, TablesChange, IssuerChanges, BrowserMoves, ServerRestart
  <2>2. {} \in SUBSET Req
    OBVIOUS
  <2> QED
    BY <2>1, <2>2
<1> QED
  BY <1>1, <1>2

(* A fault is remembered as long as its request. *)
LEMMA FaultsKept ==
  ASSUME Next, NEW r \in Req, r \in faulted, pc'[r] # "idle"
  PROVE  r \in faulted'
<1>1. PICK failing \in SUBSET Req : Observe(failing)
  BY Observed
<1> QED
  BY <1>1 DEF Observe

(* What an induction over the other properties starts from. *)
Typed == TypeOK /\ StagesFit

LEMMA TypedInduction ==
  /\ Init => Typed
  /\ Typed /\ [Next]_vars => Typed'
<1>1. ASSUME Init PROVE Typed
  <2>1. IdentityTypeOK
    BY <1>1 DEF Init, IdentityInit, IdentityTypeOK, Stages, Surface
  <2>2. SessionTypeOK
    BY <1>1, SessionAssumption, IdleType DEF Init, SessionInit, SessionTypeOK
  <2>3. published \subseteq Kid /\ cached \subseteq Kid
    BY <1>1 DEF Init, JWKSInit
  <2> QED
    BY <1>1, <2>1, <2>2, <2>3 DEF Init, IdentityInit, Typed, TypeOK, StagesFit, Bearer
<1>2. ASSUME Typed, Next PROVE Typed'
  <2>1. TypeOK /\ StagesFit /\ IdentityTypeOK
    BY <1>2 DEF Typed, TypeOK
  <2>2. RequestTypes /\ \A r \in Req : Moved(r)
    BY <1>2, <2>1, RequestStep
  <2>3. SessionTypeOK'
    BY <1>2, <2>1, SessionTypeStep
  <2>4. /\ active' \subseteq User /\ revoked' \subseteq Key /\ expired' \subseteq Key
        /\ published' \subseteq Kid /\ cached' \subseteq Kid
    BY <1>2, <2>1, TableTypeStep
  <2>5. /\ good' \in [Req -> BOOLEAN] /\ stale' \in [Req -> BOOLEAN] /\ seen' \in [Req -> BOOLEAN]
        /\ faulted' \subseteq Req
    <3> PICK failing \in SUBSET Req : Observe(failing)
      BY <1>2, Observed
    <3>1. /\ stale \in [Req -> BOOLEAN]
          /\ good' = [r \in Req |-> good'[r]] /\ seen' = [r \in Req |-> seen'[r]]
          /\ stale' = [r \in Req |-> stale'[r]]
      BY <2>1 DEF Observe, TypeOK
    <3>2. \A r \in Req : good'[r] \in BOOLEAN /\ stale'[r] \in BOOLEAN /\ seen'[r] \in BOOLEAN
      BY <2>1, <3>1 DEF Observe
    <3>3. faulted' \subseteq Req
      BY <2>1 DEF Observe, TypeOK
    <3> QED
      BY <3>1, <3>2, <3>3
  <2>6. ASSUME NEW r \in Req
        PROVE  /\ pc'[r] \in {"handler", "broken", "done", "notfound"} => actor'[r] # NoUser
               /\ pc'[r] \notin {"handler", "broken", "rejected", "done", "notfound"} =>
                    actor'[r] = NoUser /\ listed'[r] = {}
    <3>1. /\ pc[r] \in {"handler", "broken", "done", "notfound"} => actor[r] # NoUser
          /\ pc[r] \notin {"handler", "broken", "rejected", "done", "notfound"} =>
                    actor[r] = NoUser /\ listed[r] = {}
      BY <2>1 DEF IdentityTypeOK
    <3>2. Moved(r)
      BY <2>2
    <3> QED
      BY <3>1, <3>2, UserAssumption
      DEF Moved, Same, StaysUnresolved, Arrives, Resolving, Resolved, Refused, Advanced, LetThrough,
          Answers, Breaks, Fails, Ends
  <2>7. ASSUME NEW r \in Req
        PROVE  cred'[r] \in IF surface'[r] = "api" THEN Bearer ELSE SessionCookie \cup {NoCookie}
    <3>1. cred[r] \in IF surface[r] = "api" THEN Bearer ELSE SessionCookie \cup {NoCookie}
      BY <2>1 DEF TypeOK
    <3>2. Moved(r)
      BY <2>2
    <3> QED
      BY <3>1, <3>2
      DEF Moved, Same, StaysUnresolved, Arrives, Resolving, Resolved, Refused, Advanced, LetThrough,
          Answers, Breaks, Fails, Ends, Bearer
  <2>8. ASSUME NEW r \in Req
        PROVE  /\ pc'[r] \in {"key", "jwks", "refresh", "subject"} => surface'[r] = "api"
               /\ pc'[r] = "session" => surface'[r] = "bff"
               /\ pc'[r] = "key" => cred'[r] \in Key \cup Token
               /\ pc'[r] \in {"jwks", "refresh", "subject"} => cred'[r] \in Token
               /\ pc'[r] = "user" => IF surface'[r] = "api" THEN cred'[r] \in Key
                                                           ELSE cred'[r] \in SessionCookie
    <3>1. /\ pc[r] \in {"key", "jwks", "refresh", "subject"} => surface[r] = "api"
          /\ pc[r] = "session" => surface[r] = "bff"
          /\ pc[r] = "key" => cred[r] \in Key \cup Token
          /\ pc[r] \in {"jwks", "refresh", "subject"} => cred[r] \in Token
          /\ pc[r] = "user" => IF surface[r] = "api" THEN cred[r] \in Key ELSE cred[r] \in SessionCookie
      BY <2>1 DEF StagesFit
    <3>2. Moved(r)
      BY <2>2
    <3> QED
      BY <3>1, <3>2
      DEF Moved, Same, StaysUnresolved, Arrives, Resolving, Resolved, Refused, Advanced, LetThrough,
          Answers, Breaks, Fails, Ends
  <2>9. IdentityTypeOK'
    BY <2>2, <2>4, <2>6 DEF RequestTypes, IdentityTypeOK
  <2>10. TypeOK'
    BY <2>3, <2>4, <2>5, <2>7, <2>9 DEF TypeOK
  <2> QED
    BY <2>8, <2>10 DEF Typed, StagesFit
<1>3. ASSUME Typed, UNCHANGED vars PROVE Typed'
  BY <1>3 DEF Typed, TypeOK, IdentityTypeOK, SessionTypeOK, StagesFit
<1> QED
  BY <1>1, <1>2, <1>3

(* Every variable of the gateway keeps its type, and nothing of a request is
   left to the next one. *)
THEOREM TypeCorrect == Spec => []TypeOK
<1>1. Typed => TypeOK
  BY DEF Typed
<1> QED
  BY <1>1, TypedInduction, PTL DEF Spec

-----------------------------------------------------------------------------
(* Who is let through, and what they are shown. *)

ListedInScope ==
  \A r \in Req : \A k \in listed[r] :
    IF surface[r] = "api" THEN KeyUser[k] = actor[r] ELSE Role[KeyUser[k]] = "agent"

InScope == Typed /\ SurfacesAreDisjoint /\ ListedInScope

LEMMA InScopeInduction ==
  /\ Init => InScope
  /\ InScope /\ [Next]_vars => InScope'
<1>1. ASSUME Init PROVE InScope
  BY <1>1, TypedInduction DEF Init, IdentityInit, InScope, SurfacesAreDisjoint, ListedInScope
<1>2. ASSUME InScope, Next PROVE InScope'
  <2>1. Typed' /\ \A r \in Req : Moved(r)
    BY <1>2, TypedInduction, RequestStep DEF InScope, Typed
  <2>2. ASSUME NEW r \in Req
        PROVE  /\ actor'[r] # NoUser =>
                    Role[actor'[r]] = (IF surface'[r] = "api" THEN "agent" ELSE "owner")
               /\ \A k \in listed'[r] :
                    IF surface'[r] = "api" THEN KeyUser[k] = actor'[r] ELSE Role[KeyUser[k]] = "agent"
    <3>1. /\ actor[r] # NoUser => Role[actor[r]] = (IF surface[r] = "api" THEN "agent" ELSE "owner")
          /\ \A k \in listed[r] :
               IF surface[r] = "api" THEN KeyUser[k] = actor[r] ELSE Role[KeyUser[k]] = "agent"
      BY <1>2 DEF InScope, SurfacesAreDisjoint, ListedInScope
    <3>2. pc[r] \notin {"handler", "broken", "rejected", "done", "notfound"} =>
            actor[r] = NoUser /\ listed[r] = {}
      BY <1>2 DEF InScope, Typed, TypeOK, IdentityTypeOK
    <3>3. CASE Same(r) \/ Arrives(r) \/ Breaks(r) \/ Fails(r) \/ Ends(r)
      BY <3>1, <3>2, <3>3 DEF Same, StaysUnresolved, Arrives, Breaks, Fails, Ends
    <3>4. CASE Resolving(r)
      BY <3>1, <3>2, <3>4 DEF Resolving, Resolved, Refused, Advanced, LetThrough, StaysUnresolved, RoleOn
    <3>5. CASE Answers(r)
      BY <3>1, <3>5 DEF Answers, ListAPIKeysByOwner, ListAllAgentAPIKeys
    <3> QED
      BY <2>1, <3>3, <3>4, <3>5 DEF Moved
  <2> QED
    BY <2>1, <2>2 DEF InScope, SurfacesAreDisjoint, ListedInScope
<1>3. ASSUME InScope, UNCHANGED vars PROVE InScope'
  <2>1. Typed'
    BY <1>3, TypedInduction DEF InScope
  <2> QED
    BY <1>3, <2>1 DEF InScope, SurfacesAreDisjoint, ListedInScope
<1> QED
  BY <1>1, <1>2, <1>3

(* I2 and I12: whatever changes while a request is being resolved, an API
   credential never becomes the owner and a session never an agent. *)
THEOREM SurfacesStayDisjoint == Spec => []SurfacesAreDisjoint
<1>1. InScope => SurfacesAreDisjoint
  BY DEF InScope
<1> QED
  BY <1>1, InScopeInduction, PTL DEF Spec

(* I3 and I21: an agent revokes and is shown only keys of its own, the owner
   is shown only keys of agents. *)
THEOREM KeysStayScoped == Spec => KeysAreScoped
<1> DEFINE Step ==
      /\ \A k \in revoked' \ revoked :
           \E r \in Req : /\ pc[r] = "handler" /\ pc'[r] = "done"
                          /\ surface[r] = "bff" \/ KeyUser[k] = actor[r]
      /\ \A r \in Req : \A k \in listed'[r] :
           IF surface'[r] = "api" THEN KeyUser[k] = actor'[r] ELSE Role[KeyUser[k]] = "agent"
<1>1. InScope /\ [Next]_vars => [Step]_vars
  <2> SUFFICES ASSUME InScope, Next PROVE Step
    OBVIOUS
  <2>1. \A r \in Req : \A k \in listed'[r] :
          IF surface'[r] = "api" THEN KeyUser[k] = actor'[r] ELSE Role[KeyUser[k]] = "agent"
    BY InScopeInduction DEF InScope, ListedInScope
  <2>2. ASSUME NEW r \in Req, NEW j \in Key, RevokeKey(r, j), NEW k \in revoked' \ revoked
        PROVE  /\ pc[r] = "handler" /\ pc'[r] = "done"
               /\ surface[r] = "bff" \/ KeyUser[k] = actor[r]
    <3>1. Revocable(r, j) /\ k = j
      BY <2>2 DEF RevokeKey
    <3>2. pc[r] = "handler" /\ pc'[r] = "done"
      BY <2>2, <3>1 DEF RevokeKey, Answer, Goto, InScope, Typed, TypeOK, IdentityTypeOK
    <3>3. surface[r] \in {"api", "bff"}
      BY DEF InScope, Typed, TypeOK, IdentityTypeOK, Surface
    <3> QED
      BY <3>1, <3>2, <3>3 DEF Revocable
  <2>3. ASSUME NEW k \in revoked' \ revoked
        PROVE  \E r \in Req, j \in Key : RevokeKey(r, j)
    <3>1. ASSUME NEW r \in Req, Respond(r) PROVE \E j \in Key : RevokeKey(r, j)
      BY <2>3, <3>1 DEF Respond, Handle, Invalid, ListKeys, Break, Finish
    <3>2. ASSUME NEW r \in Req, ResolveActor(r) PROVE UNCHANGED revoked
      BY <3>2 DEF ResolveActor, TryAPIKey, LoadKeyUser, LookupCached, RefreshOnMiss, LoadSubject
    <3>3. ASSUME NEW r \in Req,
                 RejectActorFields(r) \/ ArriveAtAPI(r) \/ ArriveAtBFF(r) \/ ResolveSession(r)
          PROVE  UNCHANGED revoked
      BY <3>3 DEF RejectActorFields, ArriveAtAPI, ArriveAtBFF, Arrive, ResolveSession,
         RequireJSONSession, ParseSession, LoadSessionUser
    <3>4. CASE TablesChange \/ IssuerChanges \/ BrowserMoves \/ ServerRestart
      BY <3>4 DEF TablesChange, ExpireKey, SetActive, IssuerChanges, ScheduledRefresh, PublishKey,
         RetireKey, BrowserMoves, ServerRestart
    <3>5. ASSUME NEW r \in Req, FailResolution(r) PROVE UNCHANGED revoked
      BY <3>5, FailingEffect
    <3> QED
      BY <2>3, <3>1, <3>2, <3>3, <3>4, <3>5 DEF Next, ResolveBearer
  <2> QED
    BY <2>1, <2>2, <2>3
<1> QED
  BY <1>1, InScopeInduction, PTL DEF Spec, KeysAreScoped

-----------------------------------------------------------------------------
(* Which credentials are let through and which refused. *)

(* A step that moves a request changes no table under it, but for the key
   that a handler revokes, whose own resolution is over. *)
LEMMA Apart ==
  ASSUME TypeOK, Next
  PROVE  \/ UNCHANGED <<active, revoked, expired, published, clock, secret>>
         \/ UNCHANGED pc
         \/ \A r \in Req : pc'[r] = "idle"
         \/ UNCHANGED active /\ \A r \in Req : pc[r] # "handler" => pc'[r] = pc[r]
<1>1. ASSUME NEW r \in Req, ResolveActor(r) PROVE UNCHANGED <<active, revoked, expired, published>>
  BY <1>1 DEF ResolveActor, TryAPIKey, LoadKeyUser, LookupCached, RefreshOnMiss, LoadSubject
<1>2. ASSUME NEW r \in Req, ResolveBearer(r)
      PROVE  UNCHANGED <<active, revoked, expired, published, clock, secret>>
  BY <1>1, <1>2 DEF ResolveBearer
<1>3. ASSUME NEW r \in Req,
             RejectActorFields(r) \/ ArriveAtAPI(r) \/ ArriveAtBFF(r) \/ ResolveSession(r)
      PROVE  UNCHANGED <<active, revoked, expired, published, clock, secret>>
  BY <1>3 DEF RejectActorFields, ArriveAtAPI, ArriveAtBFF, Arrive, ResolveSession,
     RequireJSONSession, ParseSession, LoadSessionUser
<1>4. ASSUME NEW r \in Req, Respond(r)
      PROVE  \/ UNCHANGED <<active, revoked, expired, published, clock, secret>>
             \/ UNCHANGED active /\ \A q \in Req : pc[q] # "handler" => pc'[q] = pc[q]
  <2>1. ASSUME NEW k \in Key, RevokeKey(r, k)
        PROVE  UNCHANGED active /\ \A q \in Req : pc[q] # "handler" => pc'[q] = pc[q]
    BY <2>1 DEF RevokeKey, Answer, Goto, TypeOK, IdentityTypeOK
  <2> QED
    BY <1>4, <2>1 DEF Respond, Handle, Invalid, ListKeys, Break, Finish
<1>5. CASE TablesChange \/ IssuerChanges \/ BrowserMoves
  BY <1>5 DEF TablesChange, ExpireKey, SetActive, IssuerChanges, ScheduledRefresh, PublishKey,
     RetireKey, BrowserMoves
<1>6. CASE ServerRestart
  BY <1>6 DEF ServerRestart, Reset
<1>7. ASSUME NEW r \in Req, FailResolution(r)
      PROVE  UNCHANGED <<active, revoked, expired, published, clock, secret>>
  BY <1>7, FailingEffect
<1> QED
  BY <1>2, <1>3, <1>4, <1>5, <1>6, <1>7 DEF Next

(* Dead and Acceptable of a credential in the next state. *)
DeadNext(c) ==
  CASE c \in Key -> c \in revoked' \cup expired'
    [] c \in Token -> c.aud # "api"
    [] c \in SessionCookie -> c.key # secret' \/ c.until <= clock'
    [] OTHER -> TRUE

AcceptableNext(s, c) ==
  /\ ~DeadNext(c)
  /\ c \in Token => JWTEnabled /\ c.named /\ c.signer \in published'
  /\ \E u \in Behind(c) : u \in active' /\ Role[u] = (IF s = "api" THEN "agent" ELSE "owner")

LEMMA DeadPrime ==
  ASSUME NEW r \in Req
  PROVE  Dead(cred[r])' <=> DeadNext(cred'[r])
BY DEF Dead, DeadNext

LEMMA ObservedOf ==
  ASSUME Next, NEW r \in Req
  PROVE  /\ good'[r] <=> /\ pc'[r] # "idle"
                         /\ pc[r] = "idle" \/ good[r]
                         /\ AcceptableNext(surface'[r], cred'[r])
         /\ stale'[r] <=> /\ pc'[r] # "idle"
                          /\ IF pc[r] = "idle" THEN DeadNext(cred'[r]) ELSE stale[r]
         /\ seen'[r] <=> /\ pc'[r] # "idle"
                         /\ \/ pc[r] # "idle" /\ seen[r]
                            \/ Behind(cred'[r]) \cap active' # {}
<1>1. Dead(cred[r])' <=> DeadNext(cred'[r])
  BY DeadPrime
<1>2. Acceptable(surface[r], cred[r])' <=> AcceptableNext(surface'[r], cred'[r])
  BY <1>1 DEF Acceptable, AcceptableNext, Behind, GetUserBySSOSubject
<1>3. (Behind(cred[r]) \cap active # {})' <=> Behind(cred'[r]) \cap active' # {}
  BY DEF Behind, GetUserBySSOSubject
<1>4. PICK failing \in SUBSET Req : Observe(failing)
  BY Observed
<1> QED
  BY <1>1, <1>2, <1>3, <1>4 DEF Observe

(* Between restarts, a dead credential stays dead. *)
LEMMA DeadForGood ==
  ASSUME TypeOK, Next, NEW r \in Req, pc'[r] # "idle", NEW c, Dead(c)
  PROVE  DeadNext(c)
<1>1. revoked \subseteq revoked' /\ expired \subseteq expired' /\ secret' = secret /\ clock <= clock'
  <2> USE DEF TypeOK, SessionTypeOK
  <2>1. ~ServerRestart /\ clock <= clock
    BY SessionAssumption DEF ServerRestart, Reset
  <2>2. ASSUME NEW q \in Req, ResolveActor(q) PROVE UNCHANGED <<revoked, expired>>
    BY <2>2 DEF ResolveActor, TryAPIKey, LoadKeyUser, LookupCached, RefreshOnMiss, LoadSubject
  <2>3. ASSUME NEW q \in Req,
               \/ RejectActorFields(q) \/ ArriveAtAPI(q) \/ ArriveAtBFF(q)
               \/ ResolveBearer(q) \/ ResolveSession(q)
        PROVE  UNCHANGED <<revoked, expired, secret, clock>>
    BY <2>2, <2>3 DEF RejectActorFields, ArriveAtAPI, ArriveAtBFF, Arrive, ResolveBearer,
       ResolveSession, RequireJSONSession, ParseSession, LoadSessionUser
  <2>4. ASSUME NEW q \in Req, Respond(q)
        PROVE  revoked \subseteq revoked' /\ UNCHANGED <<expired, secret, clock>>
    <3>1. ASSUME NEW k \in Key, RevokeKey(q, k) PROVE revoked \subseteq revoked' /\ UNCHANGED expired
      BY <3>1 DEF RevokeKey
    <3> QED
      BY <2>4, <3>1 DEF Respond, Handle, Invalid, ListKeys, Break, Finish
  <2>5. CASE TablesChange \/ IssuerChanges
    BY <2>1, <2>5 DEF TablesChange, ExpireKey, SetActive, IssuerChanges, ScheduledRefresh, PublishKey,
       RetireKey
  <2>6. ASSUME NEW t \in Tab, LoginStep(t) PROVE UNCHANGED <<secret, clock>>
    BY <2>6 DEF LoginStep, Login, Callback, Exchange, LoginBreaks, GrantSession, CallbackResponse, Authorize
  <2>7. CASE BrowserMoves
    BY <2>1, <2>6, <2>7, SessionAssumption DEF BrowserMoves, Tick
  <2>8. ASSUME NEW q \in Req, FailResolution(q) PROVE UNCHANGED <<revoked, expired, secret, clock>>
    BY <2>8, FailingEffect
  <2> QED
    BY <2>1, <2>3, <2>4, <2>5, <2>7, <2>8 DEF Next
<1>2. CASE c \in Key
  BY <1>1, <1>2, DeadKey DEF DeadNext
<1>3. CASE c \in Token
  BY <1>3, DeadToken DEF DeadNext
<1>4. CASE c \in SessionCookie
  <2>1. clock \in Nat /\ clock' \in Nat /\ c.until \in Nat
    BY <1>4, SessionAssumption, SessionTypeStep DEF TypeOK, SessionTypeOK, SessionCookie
  <2> QED
    BY <1>1, <1>4, <2>1, DeadSession DEF DeadNext
<1>5. CASE c \notin Key /\ c \notin Token /\ c \notin SessionCookie
  BY <1>5 DEF DeadNext
<1> QED
  BY <1>2, <1>3, <1>4, <1>5

(* A credential that was dead on arrival is dead, and gets past neither its
   lookup nor, if its user is gone, the gate. *)
Screened ==
  \A r \in Req :
    /\ pc[r] # "idle" /\ stale[r] => Dead(cred[r])
    /\ pc[r] \in {"user", "subject"} \/ actor[r] # NoUser => ~stale[r]
    /\ actor[r] # NoUser => seen[r]

ScreenedNext(r) ==
  /\ pc'[r] # "idle" /\ stale'[r] => DeadNext(cred'[r])
  /\ pc'[r] \in {"user", "subject"} \/ actor'[r] # NoUser => ~stale'[r]
  /\ actor'[r] # NoUser => seen'[r]

LEMMA ScreenedInduction ==
  /\ Init => Typed /\ Screened
  /\ Typed /\ Screened /\ [Next]_vars => (Typed /\ Screened)'
<1>1. ASSUME Init PROVE Typed /\ Screened
  BY <1>1, TypedInduction DEF Init, IdentityInit, Screened
<1>2. ASSUME Typed, Screened, Next PROVE (Typed /\ Screened)'
  <2>1. TypeOK /\ StagesFit /\ Typed'
    BY <1>2, TypedInduction DEF Typed
  <2>2. ASSUME NEW r \in Req PROVE ScreenedNext(r)
    <3>1. Moved(r)
      BY <1>2, <2>1, RequestStep
    <3>2. /\ pc[r] # "idle" /\ stale[r] => Dead(cred[r])
          /\ pc[r] \in {"user", "subject"} \/ actor[r] # NoUser => ~stale[r]
          /\ actor[r] # NoUser => seen[r]
      BY <1>2 DEF Screened
    <3>3. pc[r] \notin {"handler", "broken", "rejected", "done", "notfound"} => actor[r] = NoUser
      BY <2>1 DEF TypeOK, IdentityTypeOK
    <3>4. /\ pc'[r] = "idle" => actor'[r] = NoUser
          /\ stale'[r] <=> /\ pc'[r] # "idle"
                           /\ IF pc[r] = "idle" THEN DeadNext(cred'[r]) ELSE stale[r]
          /\ seen'[r] <=> /\ pc'[r] # "idle"
                          /\ \/ pc[r] # "idle" /\ seen[r]
                             \/ Behind(cred'[r]) \cap active' # {}
      BY <1>2, <2>1, ObservedOf DEF Typed, TypeOK, IdentityTypeOK
    <3>5. pc'[r] # "idle" /\ Dead(cred[r]) => DeadNext(cred[r])
      BY <1>2, <2>1, DeadForGood
    <3>6. CASE Ends(r)
      BY <3>4, <3>6 DEF Ends, ScreenedNext
    <3>7. CASE Arrives(r)
      BY <3>3, <3>4, <3>7 DEF Arrives, ScreenedNext
    <3>8. CASE pc'[r] # "idle" /\ pc[r] # "idle"
               /\ (Same(r) \/ Answers(r) \/ Breaks(r) \/ Fails(r) \/ Refused(r) \/ Advanced(r))
      <4>1. cred'[r] = cred[r] /\ actor'[r] = actor[r]
        BY <3>8 DEF Same, StaysUnresolved, Answers, Breaks, Fails, Refused, Advanced
      <4>2. pc'[r] \in {"user", "subject"} => pc[r] \in {"user", "subject"} \/ ~Dead(cred[r])
        BY <3>8 DEF Same, Answers, Breaks, Fails, Refused, Advanced
      <4> QED
        BY <3>2, <3>4, <3>5, <3>8, <4>1, <4>2 DEF ScreenedNext
    <3>9. CASE pc'[r] # "idle" /\ pc[r] # "idle" /\ LetThrough(r)
      <4>1. UNCHANGED active
        BY <1>2, <2>1, <3>9, Apart DEF LetThrough
      <4> QED
        BY <3>2, <3>4, <3>5, <3>9, <4>1 DEF LetThrough, ScreenedNext
    <3>10. CASE Same(r) /\ pc[r] = "idle"
      BY <3>3, <3>4, <3>10 DEF Same, StaysUnresolved, ScreenedNext
    <3>11. Answers(r) \/ Breaks(r) \/ Fails(r) => pc[r] # "idle" /\ pc'[r] # "idle"
      BY DEF Answers, Breaks, Fails
    <3>12. Resolving(r) => /\ pc[r] # "idle" /\ pc'[r] # "idle"
                           /\ Refused(r) \/ Advanced(r) \/ LetThrough(r)
      BY DEF Resolving, Resolved, Refused, Advanced, LetThrough
    <3>13. Same(r) => pc'[r] = pc[r]
      BY DEF Same
    <3> QED
      BY <3>1, <3>6, <3>7, <3>8, <3>9, <3>10, <3>11, <3>12, <3>13 DEF Moved
  <2>3. \A r \in Req : pc'[r] # "idle" /\ stale'[r] => Dead(cred[r])'
    BY <2>2, DeadPrime DEF ScreenedNext
  <2> QED
    BY <2>1, <2>2, <2>3 DEF Screened, ScreenedNext
<1>3. ASSUME Typed, Screened, UNCHANGED vars PROVE (Typed /\ Screened)'
  <2>1. Typed'
    BY <1>3, TypedInduction
  <2> QED
    BY <1>3, <2>1 DEF Screened, Dead
<1> QED
  BY <1>1, <1>2, <1>3

(* I9: no request is let through whose credential was already revoked,
   expired or not for this audience when it arrived, or whose user has not
   been active since. *)
THEOREM DeadStaysOut == Spec => []DeadCredentialRefused
<1>1. Screened => DeadCredentialRefused
  BY DEF Screened, DeadCredentialRefused
<1> QED
  BY <1>1, ScreenedInduction, PTL DEF Spec

(* I7: a credential that has been acceptable ever since it arrived is never
   answered with 401, however old the cached key set is, unless a query or
   the forced refresh of the key set has failed in its own resolution. *)
THEOREM GoodGetsIn == Spec => []GoodCredentialAccepted
<1> DEFINE Inv == Typed /\ GoodCredentialAccepted
<1>1. Init => Inv
  BY TypedInduction DEF Init, IdentityInit, GoodCredentialAccepted
<1>2. ASSUME Inv, Next PROVE Inv'
  <2>1. TypeOK /\ StagesFit /\ Typed'
    BY <1>2, TypedInduction DEF Typed
  <2>2. ASSUME NEW r \in Req, pc'[r] = "refused" PROVE ~good'[r] \/ r \in faulted'
    <3>1. Moved(r)
      BY <1>2, <2>1, RequestStep
    <3>2. good'[r] => (pc[r] = "idle" \/ good[r]) /\ AcceptableNext(surface'[r], cred'[r])
      BY <1>2, ObservedOf
    <3>3. CASE pc[r] = "refused"
      BY <1>2, <2>2, <3>2, <3>3, FaultsKept DEF GoodCredentialAccepted
    <3>4. CASE Arrives(r)
      <4>1. cred'[r] = NoCred
        BY <2>2, <3>4 DEF Arrives
      <4>2. DeadNext(NoCred)
        BY CredentialAssumption, CookiesAreNoBearers DEF DeadNext, Bearer
      <4> QED
        BY <3>2, <4>1, <4>2 DEF AcceptableNext
    <3>5. CASE Resolving(r)
      <4>1. surface'[r] = surface[r] /\ cred'[r] = cred[r] /\ ~Acceptable(surface[r], cred[r])
        BY <2>2, <3>5 DEF Resolving, Resolved, Refused, Advanced, LetThrough, StaysUnresolved
      <4>2. UNCHANGED <<active, revoked, expired, published, clock, secret>>
        BY <1>2, <2>1, <2>2, <3>5, Apart DEF Resolving
      <4>3. Dead(cred[r]) <=> DeadNext(cred[r])
        BY <4>2 DEF Dead, DeadNext
      <4> QED
        BY <3>2, <4>1, <4>2, <4>3 DEF Acceptable, AcceptableNext
    <3>6. CASE Fails(r)
      BY <3>6 DEF Fails
    <3> QED
      BY <2>2, <3>1, <3>3, <3>4, <3>5, <3>6 DEF Moved, Same, Answers, Breaks, Ends
  <2> QED
    BY <2>1, <2>2 DEF GoodCredentialAccepted
<1>3. ASSUME Inv, UNCHANGED vars PROVE Inv'
  <2>1. Typed'
    BY <1>3, TypedInduction
  <2> QED
    BY <1>3, <2>1 DEF GoodCredentialAccepted
<1>4. Inv => GoodCredentialAccepted
  OBVIOUS
<1> QED
  BY <1>1, <1>2, <1>3, <1>4, PTL DEF Spec

-----------------------------------------------------------------------------
(* Logins. *)

(* A step of the gateway, seen from the browser. *)
SpoilAll == tab' = [t \in Tab |-> [tab[t] EXCEPT !.spoiled = @ \/ tab[t].at # "idle"]]

LEMMA BrowserStep ==
  ASSUME Next
  PROVE  \/ UNCHANGED <<active, sessionVars>>
         \/ UNCHANGED active /\ \E t \in Tab : LoginStep(t)
         \/ UNCHANGED active /\ (Tick \/ Restart)
         \/ SpoilAll /\ UNCHANGED <<clock, secret, logins, stateCookie, sessionCookie>>
<1>1. ASSUME NEW r \in Req, ResolveActor(r) \/ Handle(r) \/ Break(r) \/ Finish(r) PROVE UNCHANGED active
  <2>1. ASSUME NEW k \in Key, RevokeKey(r, k) PROVE UNCHANGED active
    BY <2>1 DEF RevokeKey
  <2> QED
    BY <1>1, <2>1 DEF ResolveActor, TryAPIKey, LoadKeyUser, LookupCached, RefreshOnMiss,
       LoadSubject, Handle, Invalid, ListKeys, Break, Finish
<1>2. ASSUME NEW r \in Req,
             \/ RejectActorFields(r) \/ ArriveAtAPI(r) \/ ArriveAtBFF(r)
             \/ ResolveBearer(r) \/ ResolveSession(r) \/ Respond(r)
      PROVE  UNCHANGED <<active, sessionVars>>
  BY <1>1, <1>2 DEF RejectActorFields, ArriveAtAPI, ArriveAtBFF, Arrive, ResolveBearer,
     ResolveSession, RequireJSONSession, ParseSession, LoadSessionUser, Respond
<1>3. CASE TablesChange
  BY <1>3 DEF TablesChange, ExpireKey, SpoilAll
<1>4. CASE IssuerChanges
  BY <1>4 DEF IssuerChanges, ScheduledRefresh, PublishKey, RetireKey
<1>5. CASE BrowserMoves \/ ServerRestart
  BY <1>5 DEF BrowserMoves, ServerRestart
<1>6. ASSUME NEW r \in Req, FailResolution(r) PROVE UNCHANGED <<active, sessionVars>>
  BY <1>6, FailingEffect
<1> QED
  BY <1>2, <1>3, <1>4, <1>5, <1>6 DEF Next

(* Until something comes in between, the one state cookie is this login's,
   signed with the secret that will check it. *)
OwnCookie(t) ==
  tab[t].at \in {"idp", "code"} /\ ~tab[t].spoiled =>
    /\ stateCookie # NoCookie /\ stateCookie.login = tab[t].login
    /\ stateCookie.until = tab[t].until /\ stateCookie.key = secret

GrantOfOwner(t) == tab[t].grant # NoCookie => Role[tab[t].grant.user] = "owner"

VerifierFits(t) ==
  tab[t].at \in {"exchange", "user", "granted"} => tab[t].sent.login = tab[t].login

FailsForReason(t) ==
  tab[t].at = "failed" =>
    \/ tab[t].spoiled
    \/ clock >= tab[t].until
    \/ \A u \in GetUserBySSOSubject(tab[t].who) : Role[u] # "owner" \/ u \notin active

LoginSound(t) == OwnCookie(t) /\ GrantOfOwner(t) /\ VerifierFits(t) /\ FailsForReason(t)

LoginsSound == SessionTypeOK /\ SessionNamesOwner /\ \A t \in Tab : LoginSound(t)

USE DEF LoginSound, OwnCookie, GrantOfOwner, VerifierFits, FailsForReason

(* A spoiled or an idle tab has no claim left to defend. *)
LEMMA SpoiledIsSound ==
  ASSUME SessionTypeOK, NEW t \in Tab, LoginSound(t),
         \/ tab'[t] = [tab[t] EXCEPT !.spoiled = @ \/ tab[t].at # "idle"] /\ UNCHANGED clock
         \/ tab'[t] = Idle
  PROVE  LoginSound(t)'
<1>1. tab[t] \in TabState
  BY DEF SessionTypeOK
<1>2. CASE tab'[t] = [tab[t] EXCEPT !.spoiled = @ \/ tab[t].at # "idle"] /\ UNCHANGED clock
  <2>1. /\ tab'[t].at = tab[t].at /\ tab'[t].grant = tab[t].grant /\ tab'[t].sent = tab[t].sent
        /\ tab'[t].login = tab[t].login
        /\ tab[t].at # "idle" => tab'[t].spoiled
    BY <1>1, <1>2 DEF TabState
  <2> QED
    BY <2>1 DEF GetUserBySSOSubject
<1>3. CASE tab'[t] = Idle
  BY <1>3 DEF Idle
<1> QED
  BY <1>2, <1>3

(* Nothing but time passes for it. *)
LEMMA UndisturbedIsSound ==
  ASSUME SessionTypeOK, SessionTypeOK', NEW t \in Tab, LoginSound(t),
         tab'[t] = tab[t], UNCHANGED <<stateCookie, secret, active>>, clock <= clock'
  PROVE  LoginSound(t)'
<1>1. clock \in Nat /\ clock' \in Nat /\ tab[t].until \in Nat
  BY SessionAssumption DEF SessionTypeOK, TabState
<1>2. OwnCookie(t)' /\ GrantOfOwner(t)' /\ VerifierFits(t)'
  OBVIOUS
<1>3. FailsForReason(t)'
  BY <1>1 DEF GetUserBySSOSubject
<1> QED
  BY <1>2, <1>3

LEMMA LoginStepSound ==
  ASSUME LoginsSound, SessionTypeOK', UNCHANGED active, NEW t \in Tab, LoginStep(t)
  PROVE  LoginsSound'
<1> USE SessionAssumption
<1>1. SessionTypeOK /\ SessionNamesOwner /\ \A u \in Tab : LoginSound(u)
  BY DEF LoginsSound
<1>2. /\ tab[t] \in TabState /\ tab \in [Tab -> TabState]
      /\ clock \in Nat /\ \A u \in Tab : tab[u].until \in Nat
  BY <1>1 DEF SessionTypeOK, TabState
<1>3. ASSUME NEW f, Goes(t, f), LoginSound(t)', UNCHANGED <<clock, secret, stateCookie, sessionCookie>>
      PROVE  LoginsSound'
  <2>1. ASSUME NEW u \in Tab, u # t PROVE LoginSound(u)'
    <3>1. tab'[u] = tab[u]
      BY <1>2, <1>3, <2>1 DEF Goes
    <3> QED
      BY <1>1, <1>2, <1>3, <3>1, UndisturbedIsSound
  <2> QED
    BY <1>1, <1>3, <2>1 DEF LoginsSound, SessionNamesOwner
<1>4. ASSUME NEW f, tab' = SpoilOthers(t, f), LoginSound(t)', SessionNamesOwner', UNCHANGED clock
      PROVE  LoginsSound'
  <2>1. ASSUME NEW u \in Tab, u # t PROVE LoginSound(u)'
    <3>1. tab'[u] = [tab[u] EXCEPT !.spoiled = @ \/ tab[u].at # "idle"]
      BY <1>4, <2>1 DEF SpoilOthers
    <3> QED
      BY <1>1, <1>4, <3>1, SpoiledIsSound
  <2> QED
    BY <1>4, <2>1 DEF LoginsSound
<1>5. CASE Login(t)
  <2> DEFINE f == [Idle EXCEPT !.at = "idp", !.login = logins + 1, !.until = clock + StateTTL]
  <2>1. tab' = SpoilOthers(t, f) /\ UNCHANGED <<clock, sessionCookie>>
    BY <1>5 DEF Login
  <2>2. tab'[t] = f
    BY <2>1 DEF SpoilOthers
  <2>3. /\ f.at = "idp" /\ f.grant = NoCookie /\ f.login = logins + 1 /\ f.until = clock + StateTTL
    BY DEF Idle
  <2>4. /\ stateCookie' # NoCookie /\ stateCookie'.login = logins + 1
        /\ stateCookie'.until = clock + StateTTL /\ stateCookie'.key = secret'
    <3>1. stateCookie' = [login |-> logins + 1, until |-> clock + StateTTL, key |-> secret]
          /\ logins' = logins + 1 /\ UNCHANGED <<clock, secret>>
      BY <1>5 DEF Login
    <3>2. stateCookie' \in StateCookie
      <4>1. logins + 1 \in 1..MaxLogins
        BY <1>1, <1>5 DEF Login, SessionTypeOK
      <4>2. clock + StateTTL \in 0..(MaxTime + StateTTL)
        BY <1>1 DEF SessionTypeOK
      <4> QED
        BY <1>1, <3>1, <4>1, <4>2 DEF SessionTypeOK, StateCookie
    <3> QED
      BY <3>1, <3>2, CookieAssumption
  <2>5. LoginSound(t)'
    BY <2>2, <2>3, <2>4
  <2>6. SessionNamesOwner'
    BY <1>1, <2>1 DEF SessionNamesOwner
  <2> QED
    BY <1>4, <2>1, <2>5, <2>6
<1>6. ASSUME NEW s \in Subject, Authorize(t, s) PROVE LoginsSound'
  <2> DEFINE f == [tab[t] EXCEPT !.at = "code", !.who = s]
  <2>1. Goes(t, f) /\ tab[t].at = "idp" /\ UNCHANGED <<clock, secret, stateCookie, sessionCookie>>
    BY <1>6 DEF Authorize
  <2>2. /\ f.at = "code" /\ f.spoiled = tab[t].spoiled /\ f.login = tab[t].login
        /\ f.until = tab[t].until /\ f.grant = tab[t].grant
    BY <1>2 DEF TabState
  <2>3. tab'[t] = f
    BY <1>2, <2>1 DEF Goes
  <2>4. LoginSound(t)'
    BY <1>1, <2>1, <2>2, <2>3
  <2> QED
    BY <1>3, <2>1, <2>4
<1>7. CASE Callback(t)
  <2> DEFINE f == [tab[t] EXCEPT !.at = IF StateMatches(t) THEN "exchange" ELSE "failed",
                                 !.sent = stateCookie]
  <2>1. Goes(t, f) /\ tab[t].at = "code" /\ UNCHANGED <<clock, secret, stateCookie, sessionCookie>>
    BY <1>7 DEF Callback
  <2>2. /\ f.at = IF StateMatches(t) THEN "exchange" ELSE "failed"
        /\ f.spoiled = tab[t].spoiled /\ f.login = tab[t].login
        /\ f.until = tab[t].until /\ f.grant = tab[t].grant /\ f.sent = stateCookie
    BY <1>2 DEF TabState
  <2>3. tab'[t] = f
    BY <1>2, <2>1 DEF Goes
  <2>4. CASE StateMatches(t)
    <3>1. stateCookie.login = tab[t].login
      BY <2>4 DEF StateMatches
    <3>2. LoginSound(t)'
      BY <1>1, <2>1, <2>2, <2>3, <2>4, <3>1
    <3> QED
      BY <1>3, <2>1, <3>2
  <2>5. CASE ~StateMatches(t)
    <3>1. tab[t].spoiled \/ clock >= tab[t].until
      BY <1>1, <1>2, <2>1, <2>5 DEF StateMatches, Authentic
    <3>2. LoginSound(t)'
      BY <1>1, <2>1, <2>2, <2>3, <2>5, <3>1
    <3> QED
      BY <1>3, <2>1, <3>2
  <2> QED
    BY <2>4, <2>5
<1>8. CASE Exchange(t)
  <2> DEFINE f == [tab[t] EXCEPT !.at = IF tab[t].sent.login = tab[t].login THEN "user" ELSE "failed"]
  <2>1. Goes(t, f) /\ tab[t].at = "exchange" /\ UNCHANGED <<clock, secret, stateCookie, sessionCookie>>
    BY <1>8 DEF Exchange
  <2>2. /\ tab[t].sent.login = tab[t].login /\ f.at = "user" /\ f.login = tab[t].login
        /\ f.grant = tab[t].grant /\ f.sent = tab[t].sent
    BY <1>1, <1>2, <2>1 DEF TabState
  <2>3. tab'[t] = f
    BY <1>2, <2>1 DEF Goes
  <2>4. LoginSound(t)'
    BY <1>1, <2>2, <2>3
  <2> QED
    BY <1>3, <2>1, <2>4
<1>9. CASE LoginBreaks(t)
  <2> DEFINE f == [tab[t] EXCEPT !.at = "failed", !.spoiled = TRUE]
  <2>1. Goes(t, f) /\ UNCHANGED <<clock, secret, stateCookie, sessionCookie>>
    BY <1>9 DEF LoginBreaks
  <2>2. f.at = "failed" /\ f.spoiled /\ f.grant = tab[t].grant
    BY <1>2 DEF TabState
  <2>3. tab'[t] = f
    BY <1>2, <2>1 DEF Goes
  <2>4. LoginSound(t)'
    BY <1>1, <2>2, <2>3
  <2> QED
    BY <1>3, <2>1, <2>4
<1>10. CASE GrantSession(t)
  <2> DEFINE owner == {u \in GetUserBySSOSubject(tab[t].who) : IsOwner(u)}
  <2>1. tab[t].at = "user" /\ UNCHANGED <<clock, secret, stateCookie, sessionCookie>>
    BY <1>10 DEF GrantSession
  <2>2. CASE owner = {} /\ Goes(t, [tab[t] EXCEPT !.at = "failed"])
    <3> DEFINE f == [tab[t] EXCEPT !.at = "failed"]
    <3>1. f.at = "failed" /\ f.who = tab[t].who /\ f.grant = tab[t].grant
      BY <1>2 DEF TabState
    <3>2. tab'[t] = f
      BY <1>2, <2>2 DEF Goes
    <3>3. \A u \in GetUserBySSOSubject(tab[t].who) : Role[u] # "owner" \/ u \notin active
      BY <2>2 DEF IsOwner
    <3>4. LoginSound(t)'
      BY <1>1, <3>1, <3>2, <3>3 DEF GetUserBySSOSubject
    <3> QED
      BY <1>3, <2>1, <2>2, <3>4
  <2>3. ASSUME NEW u \in owner,
               Goes(t, [tab[t] EXCEPT !.at = "granted",
                          !.grant = [user |-> u, until |-> clock + SessionTTL, key |-> secret]])
        PROVE  LoginsSound'
    <3> DEFINE f == [tab[t] EXCEPT !.at = "granted",
                       !.grant = [user |-> u, until |-> clock + SessionTTL, key |-> secret]]
    <3>1. /\ f.at = "granted" /\ f.grant.user = u /\ f.sent = tab[t].sent /\ f.login = tab[t].login
      BY <1>2 DEF TabState
    <3>2. tab'[t] = f
      BY <1>2, <2>3 DEF Goes
    <3>3. Role[u] = "owner"
      BY <2>3 DEF IsOwner
    <3>4. LoginSound(t)'
      BY <1>1, <2>1, <3>1, <3>2, <3>3
    <3> QED
      BY <1>3, <2>1, <2>3, <3>4
  <2> QED
    BY <1>10, <2>2, <2>3 DEF GrantSession
<1>11. CASE CallbackResponse(t)
  <2>1. /\ tab' = SpoilOthers(t, Idle) /\ UNCHANGED clock
        /\ sessionCookie' = IF tab[t].at = "granted" THEN tab[t].grant ELSE sessionCookie
    BY <1>11 DEF CallbackResponse
  <2>2. tab'[t] = Idle
    BY <2>1 DEF SpoilOthers
  <2>3. LoginSound(t)'
    BY <1>1, <2>2, SpoiledIsSound
  <2>4. SessionNamesOwner'
    BY <1>1, <2>1 DEF SessionNamesOwner
  <2> QED
    BY <1>4, <2>1, <2>3, <2>4
<1> QED
  BY <1>5, <1>6, <1>7, <1>8, <1>9, <1>10, <1>11 DEF LoginStep

LEMMA LoginsInduction ==
  /\ Init => Typed /\ LoginsSound
  /\ Typed /\ LoginsSound /\ [Next]_vars => (Typed /\ LoginsSound)'
<1>1. ASSUME Init PROVE Typed /\ LoginsSound
  <2>1. Typed /\ SessionTypeOK
    BY <1>1, TypedInduction DEF Typed, TypeOK
  <2> QED
    BY <1>1, <2>1 DEF Init, SessionInit, Idle, LoginsSound, SessionNamesOwner
<1>2. ASSUME Typed, LoginsSound, Next PROVE (Typed /\ LoginsSound)'
  <2>1. Typed' /\ SessionTypeOK'
    BY <1>2, TypedInduction DEF Typed, TypeOK
  <2>2. SessionTypeOK /\ SessionNamesOwner /\ \A t \in Tab : LoginSound(t)
    BY <1>2 DEF LoginsSound
  <2>3. clock \in Nat /\ tab \in [Tab -> TabState]
    BY <2>2, SessionAssumption DEF SessionTypeOK
  <2>4. CASE UNCHANGED sessionCookie /\ \A t \in Tab : LoginSound(t)'
    BY <2>1, <2>2, <2>4 DEF LoginsSound, SessionNamesOwner
  <2>5. CASE UNCHANGED <<active, sessionVars>>
    BY <2>1, <2>2, <2>3, <2>4, <2>5, UndisturbedIsSound
  <2>6. ASSUME UNCHANGED active, NEW t \in Tab, LoginStep(t) PROVE LoginsSound'
    BY <1>2, <2>1, <2>6, LoginStepSound
  <2>7. CASE UNCHANGED active /\ Tick
    <3>1. clock <= clock'
      BY <2>3, <2>7, SessionAssumption DEF Tick
    <3> QED
      BY <2>1, <2>2, <2>4, <2>7, <3>1, UndisturbedIsSound DEF Tick
  <2>8. CASE UNCHANGED active /\ Restart
    <3>1. UNCHANGED <<clock, sessionCookie>>
      BY <2>8 DEF Restart
    <3>2. ASSUME NEW t \in Tab PROVE LoginSound(t)'
      <4>1. \/ tab'[t] = Idle
            \/ tab[t].at \in {"idp", "code"} /\ tab'[t] = [tab[t] EXCEPT !.spoiled = TRUE]
        BY <2>3, <2>8 DEF Restart, TabState
      <4>2. tab[t].at \in {"idp", "code"} =>
              [tab[t] EXCEPT !.spoiled = TRUE] = [tab[t] EXCEPT !.spoiled = @ \/ tab[t].at # "idle"]
        OBVIOUS
      <4> QED
        BY <2>2, <3>1, <4>1, <4>2, SpoiledIsSound
    <3> QED
      BY <2>4, <3>1, <3>2
  <2>9. CASE SpoilAll /\ UNCHANGED <<clock, secret, logins, stateCookie, sessionCookie>>
    <3>1. \A t \in Tab : tab'[t] = [tab[t] EXCEPT !.spoiled = @ \/ tab[t].at # "idle"]
      BY <2>9 DEF SpoilAll
    <3> QED
      BY <2>2, <2>4, <2>9, <3>1, SpoiledIsSound
  <2> QED
    BY <1>2, <2>1, <2>5, <2>6, <2>7, <2>8, <2>9, BrowserStep
<1>3. ASSUME Typed, LoginsSound, UNCHANGED vars PROVE (Typed /\ LoginsSound)'
  <2>1. Typed' /\ SessionTypeOK'
    BY <1>3, TypedInduction DEF Typed, TypeOK
  <2>2. clock <= clock
    BY <1>3, SessionAssumption DEF LoginsSound, SessionTypeOK
  <2> QED
    BY <1>3, <2>1, <2>2, UndisturbedIsSound DEF LoginsSound, SessionNamesOwner
<1> QED
  BY <1>1, <1>2, <1>3

(* I12: whoever signs in at the identity provider, a session names the owner. *)
THEOREM SessionsNameOwner == Spec => []SessionNamesOwner
<1>1. LoginsSound => SessionNamesOwner
  BY DEF LoginsSound
<1> QED
  BY <1>1, LoginsInduction, PTL DEF Spec

(* I11: with any number of tabs, a code is redeemed only with the verifier of
   the login that asked for it. *)
THEOREM VerifiersMatch == Spec => []VerifierMatchesCode
<1>1. LoginsSound => VerifierMatchesCode
  BY DEF LoginsSound, VerifierMatchesCode
<1> QED
  BY <1>1, LoginsInduction, PTL DEF Spec

(* A login that nothing came in the way of, and that took less than the
   cookie's lifetime, fails only for a subject that is not the active owner. *)
THEOREM LoginsFailForReason == Spec => []LoginFailsForReason
<1>1. LoginsSound => LoginFailsForReason
  BY DEF LoginsSound, LoginFailsForReason
<1> QED
  BY <1>1, LoginsInduction, PTL DEF Spec
=============================================================================
