---------------------------- MODULE OwnerSession ----------------------------
(***************************************************************************)
(* How a browser becomes the owner's session: GET /login and GET /callback *)
(* around the identity provider, with one signed cookie for the login that *)
(* is under way and one for the session (internal/transport/bff), in       *)
(* several tabs of one browser; and RequireJSONSession, which reads the    *)
(* session cookie back on every request.                                   *)
(***************************************************************************)
EXTENDS Identity, Naturals

CONSTANTS
  Tab,         \* tabs of the browser
  NoCookie,
  StateTTL,    \* five minutes, in ticks
  SessionTTL,  \* an hour, in ticks
  MaxTime,     \* bound on the clock
  MaxLogins,   \* bound on the number of logins
  MaxSecret    \* 1: SESSION_SECRET is set; else bound on restarts without it

ASSUME SessionAssumption ==
  /\ {StateTTL, SessionTTL, MaxTime, MaxLogins, MaxSecret} \subseteq Nat
  /\ MaxSecret > 0

(* `login` stands for the state value and the PKCE verifier, which are     *)
(* drawn together, afresh for every login.                                 *)
StateCookie == [login : 1..MaxLogins, until : 0..(MaxTime + StateTTL), key : 1..MaxSecret]
SessionCookie == [user : User, until : 0..(MaxTime + SessionTTL), key : 1..MaxSecret]

ASSUME CookieAssumption == NoCookie \notin StateCookie \cup SessionCookie

VARIABLES
  clock,
  secret,        \* the HMAC key the running process signs with
  logins,        \* logins started
  stateCookie,   \* `oauth_state` in the browser's jar
  sessionCookie, \* `session` in the browser's jar
  tab            \* where each tab is

sessionVars == <<clock, secret, logins, stateCookie, sessionCookie, tab>>

Idle == [at |-> "idle", login |-> 0, until |-> 0, who |-> NoSubject, sent |-> NoCookie,
         grant |-> NoCookie, spoiled |-> FALSE]

SessionInit ==
  /\ clock = 0 /\ secret = 1 /\ logins = 0
  /\ stateCookie = NoCookie /\ sessionCookie = NoCookie
  /\ tab = [t \in Tab |-> Idle]

(* Signer.verify and the expiry check of ParseStateCookie/ParseSessionCookie. *)
Authentic(c) == c # NoCookie /\ c.key = secret /\ clock < c.until

Goes(t, f) == tab' = [tab EXCEPT ![t] = f]

(* Whatever another tab does to the shared cookie may cost this one its    *)
(* login: history, for LoginFailsForReason.                                *)
SpoilOthers(t, f) == [u \in Tab |-> IF u = t THEN f ELSE [tab[u] EXCEPT !.spoiled = @ \/ tab[u].at # "idle"]]

(* Seeded fault: the verifier and the state of a tab's first login are kept. *)
LoginOnce(t) ==
  /\ tab[t].at = "idle"
  /\ logins < MaxLogins
  /\ logins' = logins + 1
  /\ stateCookie' = IF stateCookie = NoCookie
                      THEN [login |-> logins + 1, until |-> clock + StateTTL, key |-> secret]
                      ELSE stateCookie
  /\ tab' = SpoilOthers(t, [Idle EXCEPT !.at = "idp", !.login = logins + 1, !.until = clock + StateTTL])
  /\ UNCHANGED <<clock, secret, sessionCookie>>

(* GET /login overwrites the one state cookie and goes to the provider. *)
Login(t) ==
  /\ tab[t].at = "idle"
  /\ logins < MaxLogins
  /\ logins' = logins + 1
  /\ stateCookie' = [login |-> logins + 1, until |-> clock + StateTTL, key |-> secret]
  /\ tab' = SpoilOthers(t, [Idle EXCEPT !.at = "idp", !.login = logins + 1, !.until = clock + StateTTL])
  /\ UNCHANGED <<clock, secret, sessionCookie>>

(* The provider redirects back, with a code bound to the login's challenge. *)
Authorize(t, s) ==
  /\ tab[t].at = "idp"
  /\ Goes(t, [tab[t] EXCEPT !.at = "code", !.who = s])
  /\ UNCHANGED <<clock, secret, logins, stateCookie, sessionCookie>>

(* Seeded fault: the state of the callback is not compared. *)
AnyState(t) == Authentic(stateCookie)

(* The state parameter must be the cookie's. *)
StateMatches(t) == Authentic(stateCookie) /\ stateCookie.login = tab[t].login

(* GET /callback up to the exchange: it goes on with the cookie's verifier. *)
Callback(t) ==
  /\ tab[t].at = "code"
  /\ Goes(t, [tab[t] EXCEPT !.at = IF StateMatches(t) THEN "exchange" ELSE "failed",
                            !.sent = stateCookie])
  /\ UNCHANGED <<clock, secret, logins, stateCookie, sessionCookie>>

(* The provider redeems the code for the verifier it was challenged with;  *)
(* the id token it returns verifies.                                       *)
Exchange(t) ==
  /\ tab[t].at = "exchange"
  /\ Goes(t, [tab[t] EXCEPT !.at = IF tab[t].sent.login = tab[t].login THEN "user" ELSE "failed"])
  /\ UNCHANGED <<clock, secret, logins, stateCookie, sessionCookie>>

(* The provider, or the database, fails. *)
LoginBreaks(t) ==
  /\ tab[t].at \in {"exchange", "user"}
  /\ Goes(t, [tab[t] EXCEPT !.at = "failed", !.spoiled = TRUE])
  /\ UNCHANGED <<clock, secret, logins, stateCookie, sessionCookie>>

(* Seeded fault: any subject with a users row gets a session. *)
IsUser(u) == u \in active

IsOwner(u) == Role[u] = "owner" /\ u \in active

(* No row is created for an unknown subject. *)
GrantSession(t) ==
  /\ tab[t].at = "user"
  /\ LET owner == {u \in GetUserBySSOSubject(tab[t].who) : IsOwner(u)}
     IN \/ /\ owner = {}
           /\ Goes(t, [tab[t] EXCEPT !.at = "failed"])
        \/ \E u \in owner :
             Goes(t, [tab[t] EXCEPT !.at = "granted",
                        !.grant = [user |-> u, until |-> clock + SessionTTL, key |-> secret]])
  /\ UNCHANGED <<clock, secret, logins, stateCookie, sessionCookie>>

(* The response reaches the browser.  It deletes the state cookie, even if *)
(* that belongs to another login by now, unless the handler saw none.      *)
CallbackResponse(t) ==
  /\ tab[t].at \in {"failed", "granted"}
  /\ stateCookie' = IF tab[t].sent = NoCookie THEN stateCookie ELSE NoCookie
  /\ sessionCookie' = IF tab[t].at = "granted" THEN tab[t].grant ELSE sessionCookie
  /\ tab' = SpoilOthers(t, Idle)
  /\ UNCHANGED <<clock, secret, logins>>

LoginStep(t) ==
  \/ Login(t) \/ Callback(t) \/ Exchange(t) \/ LoginBreaks(t)
  \/ GrantSession(t) \/ CallbackResponse(t)
  \/ \E s \in Subject : Authorize(t, s)

(* Seeded fault: a session cookie is taken for expired a tick early. *)
ExpiresEarly(r) ==
  /\ pc[r] = "session"
  /\ IF Authentic(cred[r]) /\ clock + 1 < cred[r].until
       THEN pc' = [pc EXCEPT ![r] = "user"] /\ UNCHANGED <<surface, cred, actor, listed>>
       ELSE Refuse(r)
  /\ UNCHANGED <<tableVars, sessionVars>>

(* RequireJSONSession: the cookie, then its user. *)
ParseSession(r) ==
  /\ pc[r] = "session"
  /\ IF Authentic(cred[r])
       THEN pc' = [pc EXCEPT ![r] = "user"] /\ UNCHANGED <<surface, cred, actor, listed>>
       ELSE Refuse(r)
  /\ UNCHANGED <<tableVars, sessionVars>>

(* Seeded fault: the user behind the cookie is not looked at again. *)
TrustCookie(r) ==
  /\ pc[r] = "user"
  /\ surface[r] = "bff"
  /\ Enter(r, cred[r].user)
  /\ UNCHANGED <<tableVars, sessionVars>>

LoadSessionUser(r) ==
  /\ pc[r] = "user"
  /\ surface[r] = "bff"
  /\ IF Role[cred[r].user] # "agent" /\ cred[r].user \in active
       THEN Enter(r, cred[r].user)
       ELSE Refuse(r)
  /\ UNCHANGED <<tableVars, sessionVars>>

RequireJSONSession(r) == ParseSession(r) \/ LoadSessionUser(r)

Tick ==
  /\ clock < MaxTime
  /\ clock' = clock + 1
  /\ UNCHANGED <<secret, logins, stateCookie, sessionCookie, tab>>

(* Connections break.  A secret that is not configured is drawn anew. *)
Restart ==
  /\ secret' = IF MaxSecret = 1 THEN secret ELSE secret + 1
  /\ secret' <= MaxSecret
  /\ tab' = [t \in Tab |-> IF tab[t].at \in {"exchange", "user", "failed", "granted"} THEN Idle
                           ELSE IF tab[t].at = "idle" THEN Idle
                           ELSE [tab[t] EXCEPT !.spoiled = TRUE]]
  /\ UNCHANGED <<clock, logins, stateCookie, sessionCookie>>

-----------------------------------------------------------------------------
TabState ==
  [at : {"idle", "idp", "code", "exchange", "user", "failed", "granted"},
   login : 0..MaxLogins, until : 0..(MaxTime + StateTTL),
   who : Subject \cup {NoSubject},
   sent : StateCookie \cup {NoCookie}, grant : SessionCookie \cup {NoCookie},
   spoiled : BOOLEAN]

SessionTypeOK ==
  /\ clock \in 0..MaxTime /\ secret \in 1..MaxSecret /\ logins \in 0..MaxLogins
  /\ stateCookie \in StateCookie \cup {NoCookie}
  /\ sessionCookie \in SessionCookie \cup {NoCookie}
  /\ tab \in [Tab -> TabState]

(* I11: a code is redeemed only with the verifier of the login that asked
   for it, however many tabs share the one state cookie. *)
VerifierMatchesCode ==
  \A t \in Tab : tab[t].at \in {"exchange", "user", "granted"} => tab[t].sent.login = tab[t].login

(* I12: a session is only ever issued to the owner, whoever the identity
   provider says has signed in. *)
SessionNamesOwner ==
  sessionCookie # NoCookie => Role[sessionCookie.user] = "owner"

(* A login fails only if another tab's login or callback came in between, it
   took longer than five minutes, the server was restarted or something broke,
   or its subject is not the active owner's. *)
LoginFailsForReason ==
  \A t \in Tab :
    tab[t].at = "failed" =>
      \/ tab[t].spoiled
      \/ clock >= tab[t].until
      \/ \A u \in GetUserBySSOSubject(tab[t].who) : Role[u] # "owner" \/ u \notin active
=============================================================================
