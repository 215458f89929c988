----------------------------- MODULE MCGateway -----------------------------
(* An agent and the owner; the agent has an SSO subject as well, as an     *)
(* operator may give it one.                                               *)
EXTENDS Gateway, TLC

CONSTANTS bobsKey, ownersKey

MCRole == [u \in User |-> IF u = "owner" THEN "owner" ELSE "agent"]
MCSubjectOf == [u \in User |-> u]
(* `issue-key -handle owner` gives the owner a key. *)
MCKeyUser == [k \in Key |-> IF k = ownersKey THEN "owner" ELSE "bob"]
MCToken ==
  {[signer |-> "s2", named |-> TRUE, sub |-> "bob", aud |-> "api"],
   [signer |-> "s1", named |-> FALSE, sub |-> "owner", aud |-> "api"],
   [signer |-> "s2", named |-> TRUE, sub |-> "bob", aud |-> "client"],
   [signer |-> "s2", named |-> TRUE, sub |-> "stranger", aud |-> "api"]}
NoToken == {}
(* A request meets the tabs in the session cookie only, and no tab a key:   *)
(* requests are resolved beside the first login, and between logins later; *)
(* other logins race without any.                                          *)
RequestsBesideFirstLogin ==
  \/ logins <= 1
  \/ \A t \in Tab : tab[t].at = "idle"
  \/ (\A r \in Req : pc[r] = "idle") /\ revoked \cup expired = {}
Symmetry == Permutations(Req) \cup Permutations(Tab)
=============================================================================
