------------------------------ MODULE Identity ------------------------------
(***************************************************************************)
(* The users and api_keys tables as the running server reads and writes    *)
(* them (internal/identity/repo.go over internal/db), and the requests     *)
(* that are being resolved against them.                                   *)
(***************************************************************************)
CONSTANTS
  User, NoUser,
  Role,                           \* users.role of each user
  Subject, NoSubject, SubjectOf,  \* users.sso_subject of each user, or NoSubject
  Key, KeyUser,                   \* api_keys and their user_id
  Req,                            \* requests the server can be serving at once
  NoCred                          \* no (well-formed) credential

Surface == {"api", "bff"}

ASSUME RoleAssumption == Role \in [User -> {"agent", "owner"}]
ASSUME UserAssumption == NoUser \notin User
ASSUME SubjectAssumption ==
  /\ SubjectOf \in [User -> Subject \cup {NoSubject}]
  /\ NoSubject \notin Subject
  /\ \A u, v \in User : SubjectOf[u] = SubjectOf[v] => u = v \/ SubjectOf[u] = NoSubject
ASSUME KeyAssumption == KeyUser \in [Key -> User]

VARIABLES
  active,   \* users with active = 1
  revoked,  \* keys with a revoked_at
  expired,  \* keys whose expires_at has passed
  pc,       \* where each request is
  surface,  \* the engine that serves it
  cred,     \* what it carries
  actor,    \* the user its middleware resolved
  listed    \* the keys it was answered with

tableVars == <<active, revoked, expired>>
requestVars == <<pc, surface, cred, actor, listed>>

IdentityInit ==
  /\ active = User
  /\ revoked = {} /\ expired = {}
  /\ pc = [r \in Req |-> "idle"]
  /\ surface = [r \in Req |-> "api"]
  /\ cred = [r \in Req |-> NoCred]
  /\ actor = [r \in Req |-> NoUser]
  /\ listed = [r \in Req |-> {}]

-----------------------------------------------------------------------------
(* The queries. *)

GetUserBySSOSubject(s) == {u \in User : SubjectOf[u] = s}

(* Seeded fault: a revoked key still authenticates until it expires. *)
Unexpired(k) == k \notin expired

(* What tryAPIKey asks of a row of GetAPIKeyByHash. *)
Live(k) == k \notin revoked \cup expired

(* Expired keys are listed, revoked ones are not. *)
ListAPIKeysByOwner(u) == {k \in Key : KeyUser[k] = u} \ revoked

(* Seeded fault: the join on users.role is dropped. *)
AnyKeys == Key \ revoked

(* The join on users keeps the keys of agents. *)
ListAllAgentAPIKeys == {k \in Key : Role[KeyUser[k]] = "agent"} \ revoked

-----------------------------------------------------------------------------
(* Steps of a request. *)

Goto(r, from, to) ==
  /\ pc[r] = from
  /\ pc' = [pc EXCEPT ![r] = to]

(* The request has passed its middleware as user u.                        *)
Enter(r, u) ==
  /\ pc' = [pc EXCEPT ![r] = "handler"]
  /\ actor' = [actor EXCEPT ![r] = u]
  /\ UNCHANGED <<surface, cred, listed>>

(* 401; the response does not say why. *)
Refuse(r) ==
  /\ pc' = [pc EXCEPT ![r] = "refused"]
  /\ UNCHANGED <<surface, cred, actor, listed>>

(* What a request asks for matters only now, so it is drawn now. *)
Answer(r, status) ==
  /\ Goto(r, "handler", status)
  /\ UNCHANGED <<surface, cred, actor>>

(* The openapi validators run after authentication: 400. *)
Invalid(r) == Answer(r, "rejected") /\ UNCHANGED <<tableVars, listed>>

(* GetMe, ListUsers, and ListKeys: of these only the last is scoped. *)
ListKeys(r) ==
  /\ Answer(r, "done")
  /\ listed' = [listed EXCEPT ![r] =
       IF surface[r] = "api" THEN ListAPIKeysByOwner(actor[r]) ELSE ListAllAgentAPIKeys]
  /\ UNCHANGED tableVars

(* Seeded fault: the update is not scoped to its caller. *)
AnyUnrevoked(r, k) == k \notin revoked

(* WHERE id = ? AND user_id = ? AND revoked_at IS NULL, or the same without *)
(* the user on the owner's surface.                                         *)
Revocable(r, k) ==
  /\ k \notin revoked
  /\ surface[r] = "api" => KeyUser[k] = actor[r]

(* Somebody else's key, an unknown and a revoked one are the same 404. *)
RevokeKey(r, k) ==
  /\ Answer(r, IF Revocable(r, k) THEN "done" ELSE "notfound")
  /\ revoked' = IF Revocable(r, k) THEN revoked \cup {k} ELSE revoked
  /\ UNCHANGED <<active, expired, listed>>

Handle(r) == Invalid(r) \/ ListKeys(r) \/ \E k \in Key : RevokeKey(r, k)

(* A query of the resolution fails: 401, as for an unknown credential. *)
LookupFails(r) ==
  /\ pc[r] \in {"key", "user", "subject"}
  /\ Refuse(r)
  /\ UNCHANGED tableVars

(* A query of a handler fails: 500. *)
Break(r) == Answer(r, "broken") /\ UNCHANGED <<tableVars, listed>>

(* Seeded fault: the context of a request is handed to the next one. *)
KeepContext(R) ==
  /\ pc' = [r \in Req |-> IF r \in R THEN "idle" ELSE pc[r]]
  /\ surface' = [r \in Req |-> IF r \in R THEN "api" ELSE surface[r]]
  /\ cred' = [r \in Req |-> IF r \in R THEN NoCred ELSE cred[r]]
  /\ UNCHANGED <<actor, listed>>

Reset(R) ==
  /\ pc' = [r \in Req |-> IF r \in R THEN "idle" ELSE pc[r]]
  /\ surface' = [r \in Req |-> IF r \in R THEN "api" ELSE surface[r]]
  /\ cred' = [r \in Req |-> IF r \in R THEN NoCred ELSE cred[r]]
  /\ actor' = [r \in Req |-> IF r \in R THEN NoUser ELSE actor[r]]
  /\ listed' = [r \in Req |-> IF r \in R THEN {} ELSE listed[r]]

Answered(r) == pc[r] \in {"refused", "broken", "rejected", "done", "notfound"}

Finish(r) == Answered(r) /\ Reset({r}) /\ UNCHANGED tableVars

(* By hand, in the database: no code writes users.active. *)
SetActive(u, on) ==
  /\ on # (u \in active)
  /\ active' = IF on THEN active \cup {u} ELSE active \ {u}
  /\ UNCHANGED <<revoked, expired, requestVars>>

ExpireKey(k) ==
  /\ k \notin expired
  /\ expired' = expired \cup {k}
  /\ UNCHANGED <<active, revoked, requestVars>>

-----------------------------------------------------------------------------
Stages == {"idle", "key", "jwks", "refresh", "subject", "session", "user", "handler",
           "refused", "broken", "rejected", "done", "notfound"}

(* Nothing of a request is left to the next one, and only requests past
   their middleware have an actor. *)
IdentityTypeOK ==
  /\ active \subseteq User /\ revoked \subseteq Key /\ expired \subseteq Key
  /\ pc \in [Req -> Stages]
  /\ surface \in [Req -> Surface]
  /\ DOMAIN cred = Req
  /\ actor \in [Req -> User \cup {NoUser}]
  /\ listed \in [Req -> SUBSET Key]
  /\ \A r \in Req : pc[r] \in {"handler", "broken", "done", "notfound"} => actor[r] # NoUser
  /\ \A r \in Req : pc[r] \notin {"handler", "broken", "rejected", "done", "notfound"} =>
                      actor[r] = NoUser /\ listed[r] = {}
=============================================================================
