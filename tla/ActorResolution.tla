-------------------------- MODULE ActorResolution --------------------------
(***************************************************************************)
(* How a Bearer credential becomes an agent: ResolveActor of               *)
(* internal/identity/service.go, which tries the credential as an API key  *)
(* and then as a JWT, whose signing key is looked up in a cached JWKS that *)
(* a miss refreshes once (jwt.go).                                         *)
(***************************************************************************)
EXTENDS Identity

CONSTANTS
  Kid,        \* the issuer's signing keys
  Token,      \* JWTs: [signer : Kid, named : BOOLEAN, sub : Subject, aud : ...]
  JWTEnabled  \* SSO_ISSUER and AUTH_AUDIENCE are both set

ASSUME TokenAssumption ==
  Token \subseteq [signer : Kid, named : BOOLEAN, sub : Subject, aud : {"api", "client"}]
ASSUME CredentialAssumption == Token \cap Key = {} /\ NoCred \notin Token \cup Key
ASSUME KidAssumption == Kid # {}
ASSUME JWTEnabledAssumption == JWTEnabled \in BOOLEAN

Bearer == Key \cup Token \cup {NoCred}

VARIABLES
  published,  \* the issuer's jwks.json
  cached      \* the key set in the verifier's cache

jwksVars == <<published, cached>>

(* NewJWTVerifier blocks until the first fetch has succeeded. *)
JWKSInit ==
  /\ published \in {{k} : k \in Kid}
  /\ cached = published

(* The key the token names; without a name, the sole key of the set. *)
LookupRS256Key(set, t) ==
  IF t.named THEN set \cap {t.signer}
             ELSE {k \in set : set = {k}}

(* RS256 with that key; issuer, audience and expiry. *)
Validates(t, keys) == t.signer \in keys /\ t.aud = "api"

(* Seeded fault: the API path forgets the owner. *)
ActiveOnly(r, u) == IF u \in active THEN Enter(r, u) ELSE Refuse(r)

(* The one gate of both branches. *)
Gate(r, u) == IF Role[u] # "owner" /\ u \in active THEN Enter(r, u) ELSE Refuse(r)

(* A row that is revoked or expired ends the resolution; no row at all     *)
(* leaves it to the JWT branch.                                            *)
TryAPIKey(r) ==
  /\ pc[r] = "key"
  /\ \/ /\ cred[r] \in Key
        /\ Live(cred[r])
        /\ pc' = [pc EXCEPT ![r] = "user"]
        /\ UNCHANGED <<surface, cred, actor, listed>>
     \/ /\ cred[r] \in Key
        /\ ~Live(cred[r])
        /\ Refuse(r)
     \/ /\ cred[r] \notin Key
        /\ JWTEnabled
        /\ pc' = [pc EXCEPT ![r] = "jwks"]
        /\ UNCHANGED <<surface, cred, actor, listed>>
     \/ /\ cred[r] \notin Key
        /\ ~JWTEnabled
        /\ Refuse(r)
  /\ UNCHANGED <<tableVars, jwksVars>>

LoadKeyUser(r) ==
  /\ pc[r] = "user"
  /\ surface[r] = "api"
  /\ Gate(r, KeyUser[cred[r]])
  /\ UNCHANGED <<tableVars, jwksVars>>

AfterLookup(r, keys) ==
  IF Validates(cred[r], keys)
    THEN pc' = [pc EXCEPT ![r] = "subject"] /\ UNCHANGED <<surface, cred, actor, listed>>
    ELSE Refuse(r)

(* FetchKeys: the cached set first; *)
LookupCached(r) ==
  /\ pc[r] = "jwks"
  /\ LET keys == LookupRS256Key(cached, cred[r]) IN
       IF keys = {}
         THEN pc' = [pc EXCEPT ![r] = "refresh"] /\ UNCHANGED <<surface, cred, actor, listed>>
         ELSE AfterLookup(r, keys)
  /\ UNCHANGED <<tableVars, jwksVars>>

(* Seeded fault: a miss is final until the scheduled refresh. *)
GiveUp(r) ==
  /\ pc[r] = "refresh"
  /\ Refuse(r)
  /\ UNCHANGED <<tableVars, jwksVars>>

(* a miss refreshes it once, and the second miss is final. *)
RefreshOnMiss(r) ==
  /\ pc[r] = "refresh"
  /\ cached' = published
  /\ AfterLookup(r, LookupRS256Key(published, cred[r]))
  /\ UNCHANGED <<tableVars, published>>

(* The issuer cannot be reached: the token does not verify, 401. *)
RefreshFails(r) ==
  /\ pc[r] = "refresh"
  /\ Refuse(r)
  /\ UNCHANGED <<tableVars, jwksVars>>

(* A subject without a users row is refused, never created. *)
LoadSubject(r) ==
  /\ pc[r] = "subject"
  /\ IF GetUserBySSOSubject(cred[r].sub) = {}
       THEN Refuse(r)
       ELSE \E u \in GetUserBySSOSubject(cred[r].sub) : Gate(r, u)
  /\ UNCHANGED <<tableVars, jwksVars>>

ResolveActor(r) ==
  \/ TryAPIKey(r) \/ LoadKeyUser(r)
  \/ LookupCached(r) \/ RefreshOnMiss(r) \/ LoadSubject(r)

(* The issuer adds or drops a signing key; the cache's own schedule. *)
PublishKey(k) ==
  /\ k \notin published
  /\ published' = published \cup {k}
  /\ UNCHANGED <<tableVars, requestVars, cached>>

RetireKey(k) ==
  /\ k \in published
  /\ published # {k}
  /\ published' = published \ {k}
  /\ UNCHANGED <<tableVars, requestVars, cached>>

ScheduledRefresh ==
  /\ cached # published
  /\ cached' = published
  /\ UNCHANGED <<tableVars, requestVars, published>>
=============================================================================
