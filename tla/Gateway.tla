------------------------------ MODULE Gateway ------------------------------
(***************************************************************************)
(* The server's two surfaces over one set of tables: /api/v1, where        *)
(* Bearer credentials become agents, and /api/bff, where session cookies   *)
(* become the owner (cmd/server/main.go).  Keys are revoked and expire,    *)
(* users are deactivated, signing keys rotate, cookies age, tabs race and  *)
(* the server restarts while requests are being resolved.                  *)
(***************************************************************************)
EXTENDS ActorResolution, OwnerSession

ASSUME CookiesAreNoBearers ==
  (SessionCookie \cup {NoCookie}) \cap Bearer = {}

VARIABLES
  good,    \* history: the credential has been acceptable ever since it arrived
  stale,   \* history: it was a dead one when it arrived
  seen,    \* history: its user has been active at some moment since
  faulted  \* history: a query or a key set refresh of its resolution has failed

historyVars == <<good, stale, seen, faulted>>
vars == <<tableVars, requestVars, jwksVars, sessionVars, historyVars>>

Init ==
  /\ IdentityInit /\ JWKSInit /\ SessionInit
  /\ good = [r \in Req |-> FALSE]
  /\ stale = [r \in Req |-> FALSE]
  /\ seen = [r \in Req |-> FALSE]
  /\ faulted = {}

(* The user a credential speaks for, if any. *)
Behind(c) ==
  CASE c \in Key -> {KeyUser[c]}
    [] c \in Token -> GetUserBySSOSubject(c.sub)
    [] c \in SessionCookie -> {c.user}
    [] OTHER -> {}

(* What the documents promise to each kind of credential. *)
Dead(c) ==
  CASE c \in Key -> c \in revoked \cup expired
    [] c \in Token -> c.aud # "api"
    [] c \in SessionCookie -> c.key # secret \/ c.until <= clock
    [] OTHER -> TRUE

Acceptable(s, c) ==
  /\ ~Dead(c)
  /\ c \in Token => JWTEnabled /\ c.named /\ c.signer \in published
  /\ \E u \in Behind(c) : u \in active /\ Role[u] = (IF s = "api" THEN "agent" ELSE "owner")

(* What is noted of every request, and of those whose resolution fails now. *)
Observe(failing) ==
  /\ good' = [r \in Req |-> /\ pc'[r] # "idle"
                            /\ pc[r] = "idle" \/ good[r]
                            /\ Acceptable(surface[r], cred[r])']
  /\ stale' = [r \in Req |-> /\ pc'[r] # "idle"
                             /\ IF pc[r] = "idle" THEN Dead(cred[r])' ELSE stale[r]]
  /\ seen' = [r \in Req |-> /\ pc'[r] # "idle"
                            /\ \/ pc[r] # "idle" /\ seen[r]
                               \/ (Behind(cred[r]) \cap active # {})']
  /\ faulted' = {r \in faulted \cup failing : pc'[r] # "idle"}

(* RejectActorFields: 400 before any credential is looked at. *)
RejectActorFields(r) ==
  /\ Goto(r, "idle", "rejected")
  /\ UNCHANGED <<surface, cred, actor, listed, tableVars, jwksVars, sessionVars>>
  /\ Observe({})

(* The mux picks the engine by path. *)
Arrive(r, s, c, stage) ==
  /\ Goto(r, "idle", stage)
  /\ surface' = [surface EXCEPT ![r] = s]
  /\ cred' = [cred EXCEPT ![r] = c]
  /\ UNCHANGED <<actor, listed, tableVars, jwksVars, sessionVars>>
  /\ Observe({})

ArriveAtAPI(r) ==
  \E c \in Bearer : Arrive(r, "api", c, IF c = NoCred THEN "refused" ELSE "key")

(* The browser sends whatever session cookie it holds. *)
ArriveAtBFF(r) == Arrive(r, "bff", sessionCookie, "session")

ResolveBearer(r) ==
  /\ ResolveActor(r)
  /\ UNCHANGED sessionVars
  /\ Observe({})

ResolveSession(r) ==
  /\ RequireJSONSession(r)
  /\ UNCHANGED jwksVars
  /\ Observe({})

(* RequireActor and RequireJSONSession answer 401 to every error, a failed
   query and an unreachable issuer included. *)
FailResolution(r) ==
  /\ \/ RefreshFails(r)
     \/ LookupFails(r) /\ UNCHANGED jwksVars
  /\ UNCHANGED sessionVars
  /\ Observe({r})

Respond(r) ==
  /\ Handle(r) \/ Break(r) \/ Finish(r)
  /\ UNCHANGED <<jwksVars, sessionVars>>
  /\ Observe({})

(* Time and other people. *)
TablesChange ==
  /\ \/ \E k \in Key : ExpireKey(k) /\ UNCHANGED tab
     \/ \E u \in User, on \in BOOLEAN :
          /\ SetActive(u, on)
          /\ tab' = [t \in Tab |-> [tab[t] EXCEPT !.spoiled = @ \/ tab[t].at # "idle"]]
  /\ UNCHANGED <<jwksVars, clock, secret, logins, stateCookie, sessionCookie>>
  /\ Observe({})

IssuerChanges ==
  /\ ScheduledRefresh \/ \E k \in Kid : PublishKey(k) \/ RetireKey(k)
  /\ UNCHANGED sessionVars
  /\ Observe({})

BrowserMoves ==
  /\ Tick \/ \E t \in Tab : LoginStep(t)
  /\ UNCHANGED <<tableVars, requestVars, jwksVars>>
  /\ Observe({})

(* What was being served is lost; the key set is fetched anew. *)
ServerRestart ==
  /\ Restart
  /\ Reset(Req)
  /\ cached' = published
  /\ UNCHANGED <<tableVars, published>>
  /\ Observe({})

Next ==
  \/ \E r \in Req : RejectActorFields(r) \/ ArriveAtAPI(r) \/ ArriveAtBFF(r)
  \/ \E r \in Req : ResolveBearer(r) \/ ResolveSession(r) \/ FailResolution(r) \/ Respond(r)
  \/ TablesChange \/ IssuerChanges \/ BrowserMoves \/ ServerRestart

Spec == Init /\ [][Next]_vars

-----------------------------------------------------------------------------
TypeOK ==
  /\ IdentityTypeOK /\ SessionTypeOK
  /\ published \subseteq Kid /\ cached \subseteq Kid
  /\ \A r \in Req : cred[r] \in IF surface[r] = "api" THEN Bearer ELSE SessionCookie \cup {NoCookie}
  /\ good \in [Req -> BOOLEAN] /\ stale \in [Req -> BOOLEAN] /\ seen \in [Req -> BOOLEAN]
  /\ faulted \subseteq Req

(* I2 and I12: a Bearer credential never becomes the owner and a session
   never an agent, on either path of ResolveActor and whatever changes while
   a request is being resolved. *)
SurfacesAreDisjoint ==
  \A r \in Req :
    actor[r] # NoUser => Role[actor[r]] = (IF surface[r] = "api" THEN "agent" ELSE "owner")

(* I9, checked live: a request is let through only if its credential was
   still good when it arrived (not revoked, not expired, not for another
   audience), and its user has been active since. *)
DeadCredentialRefused ==
  \A r \in Req : actor[r] # NoUser => ~stale[r] /\ seen[r]

(* I7 and the rest of ResolveActor and RequireJSONSession: a credential that
   was acceptable from the moment it arrived is answered with 401 only if a
   query or the forced refresh of the key set failed in its own resolution;
   in particular a token of a signing key that the issuer publishes is
   accepted however old the cached key set is. *)
GoodCredentialAccepted ==
  \A r \in Req : pc[r] = "refused" => ~good[r] \/ r \in faulted

(* I3 and I21: an agent revokes and is shown only keys of its own, the owner
   is shown only keys of agents. *)
KeysAreScoped ==
  [][/\ \A k \in revoked' \ revoked :
          \E r \in Req : /\ pc[r] = "handler" /\ pc'[r] = "done"
                         /\ surface[r] = "bff" \/ KeyUser[k] = actor[r]
     /\ \A r \in Req : \A k \in listed'[r] :
          IF surface'[r] = "api" THEN KeyUser[k] = actor'[r] ELSE Role[KeyUser[k]] = "agent"]_vars
=============================================================================
