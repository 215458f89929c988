---------------------------- MODULE KeyLifecycle ----------------------------
(***************************************************************************)
(* API keys, from `issue-key` and `issue-key -rotate` through the users    *)
(* and api_keys tables to the key files and the resolver script that hands *)
(* the keys out.  Invocations run statement by statement, several at once, *)
(* beside the seeding of the owner and revocations from the settings page  *)
(* or by an agent itself, and may die between any two statements.          *)
(***************************************************************************)
EXTENDS Naturals, Sequences, FiniteSets

CONSTANTS
  Proc,         \* issue-key invocations that may overlap
  Handle,       \* users.handle, up to case
  Name,         \* the spellings given on the command line
  HandleOf,     \* the handle that a spelling matches (COLLATE NOCASE)
  OwnerHandle,  \* the handle that cmd/seed gives the owner
  NoName,       \* an idle invocation's name
  MaxKeys,      \* bound on the number of keys ever issued
  Disturbed     \* TRUE: a rotation may die, or meet a revocation, half way

ASSUME HandleOfAssumption == HandleOf \in [Name -> Handle]
ASSUME OwnerHandleAssumption == OwnerHandle \in Handle
ASSUME NoNameAssumption == NoName \notin Name
ASSUME MaxKeysAssumption == MaxKeys \in Nat
ASSUME DisturbedAssumption == Disturbed \in BOOLEAN

(* Keys are numbered in the order of issue. *)
Key == 1..MaxKeys
NoKey == 0      \* no key file
Empty == MaxKeys + 1  \* a truncated key file

VARIABLES
  role,      \* the users table: each handle's role, or "none"
  keyUser,   \* the api_keys table: the handle each key was issued to
  revoked,   \* keys with a revoked_at
  horizon,   \* keys up to this one have expired
  byHand,    \* history: keys revoked by their agent or by the owner
  rotated,   \* history: keys whose rotation has disabled the others
  keyFile,   \* ~/.my-token/keys/<name>
  resolver,  \* ~/.my-token/bin/key: "missing", "torn", "current" or "edited"
  seeding,   \* cmd/seed has found no owner row yet
  pc,        \* where each invocation is
  name,      \* the name it was given
  newKey,    \* the key it issued
  todo       \* keys that its rotation has still to disable

tableVars == <<role, keyUser, revoked, horizon, byHand, rotated>>
fileVars == <<keyFile, resolver>>
procVars == <<pc, name, newKey, todo>>
vars == <<tableVars, fileVars, seeding, procVars>>

Issued == 1..Len(keyUser)
KeysOf(h) == {k \in Issued : keyUser[k] = h}
Unrevoked(h) == KeysOf(h) \ revoked
Live(h) == {k \in Unrevoked(h) : k > horizon}
HandleAt(p) == HandleOf[name[p]]

Init ==
  /\ role = [h \in Handle |-> "none"]
  /\ keyUser = <<>>
  /\ revoked = {} /\ horizon = 0 /\ byHand = {} /\ rotated = {}
  /\ keyFile = [n \in Name |-> NoKey]
  /\ resolver = "missing"
  /\ seeding = FALSE
  /\ pc = [p \in Proc |-> "idle"]
  /\ name = [p \in Proc |-> NoName]
  /\ newKey = [p \in Proc |-> NoKey]
  /\ todo = [p \in Proc |-> {}]

Goto(p, from, to) ==
  /\ pc[p] = from
  /\ pc' = [pc EXCEPT ![p] = to]

Exit(p) ==
  /\ pc' = [pc EXCEPT ![p] = "idle"]
  /\ name' = [name EXCEPT ![p] = NoName]
  /\ newKey' = [newKey EXCEPT ![p] = NoKey]
  /\ todo' = [todo EXCEPT ![p] = {}]

(* GetUserByHandle of IssueAPIKeyForHandle. *)
StartIssue(p, n) ==
  /\ Goto(p, "idle", IF role[HandleOf[n]] = "none" THEN "create_user" ELSE "issue_key")
  /\ name' = [name EXCEPT ![p] = n]
  /\ UNCHANGED <<tableVars, fileVars, seeding, newKey, todo>>

(* Seeded fault: the users table has no unique index on handle. *)
NotUnique(h) == TRUE

HandleIsFree(h) == role[h] = "none"

(* The unique index refuses a handle that appeared after the lookup. *)
CreateUser(p) ==
  /\ pc[p] = "create_user"
  /\ IF HandleIsFree(HandleAt(p))
       THEN /\ role' = [role EXCEPT ![HandleAt(p)] = "agent"]
            /\ pc' = [pc EXCEPT ![p] = "issue_key"]
            /\ UNCHANGED <<name, newKey, todo>>
       ELSE UNCHANGED role /\ Exit(p)
  /\ UNCHANGED <<keyUser, revoked, horizon, byHand, rotated, fileVars, seeding>>

(* Seeded fault: the error of the insert is dropped. *)
LoseKey(p) ==
  /\ Len(keyUser) < MaxKeys
  /\ UNCHANGED keyUser
  /\ newKey' = [newKey EXCEPT ![p] = Len(keyUser) + 1]

StoreKey(p) ==
  /\ Len(keyUser) < MaxKeys
  /\ keyUser' = Append(keyUser, HandleAt(p))
  /\ newKey' = [newKey EXCEPT ![p] = Len(keyUser) + 1]

IssueKey(p) ==
  /\ Goto(p, "issue_key", "persist")
  /\ StoreKey(p)
  /\ UNCHANGED <<role, revoked, horizon, byHand, rotated, fileVars, seeding, name, todo>>

(* Rotate never creates a user: an unknown handle is ErrNotFound. *)
StartRotate(p, n) ==
  /\ Goto(p, "idle", "rotate_key")
  /\ role[HandleOf[n]] # "none"
  /\ name' = [name EXCEPT ![p] = n]
  /\ UNCHANGED <<tableVars, fileVars, seeding, newKey, todo>>

(* Step 1 of a rotation: the new key is stored. *)
RotateKey(p) ==
  /\ Goto(p, "rotate_key", "list")
  /\ StoreKey(p)
  /\ UNCHANGED <<role, revoked, horizon, byHand, rotated, fileVars, seeding, name, todo>>

(* Seeded fault: the new key is among the others. *)
AllUnrevoked(p) == Unrevoked(HandleAt(p))

(* Seeded fault: expired keys are left out of the list, and so unrevoked. *)
LiveOthers(p) == Live(HandleAt(p)) \ {newKey[p]}

Others(p) == Unrevoked(HandleAt(p)) \ {newKey[p]}

(* Step 2: DisableOtherAPIKeys lists, *)
ListOthers(p) ==
  /\ Goto(p, "list", "revoke")
  /\ todo' = [todo EXCEPT ![p] = Others(p)]
  /\ UNCHANGED <<tableVars, fileVars, seeding, name, newKey>>

(* then revokes, newest first.  A key revoked since by somebody else is    *)
(* ErrNotFound, and ends the rotation there.                               *)
RevokeNext(p) ==
  /\ pc[p] = "revoke"
  /\ \E k \in todo[p] :
       /\ \A j \in todo[p] : j <= k
       /\ IF k \in revoked
            THEN UNCHANGED revoked /\ Exit(p)
            ELSE /\ revoked' = revoked \cup {k}
                 /\ todo' = [todo EXCEPT ![p] = @ \ {k}]
                 /\ UNCHANGED <<pc, name, newKey>>
  /\ UNCHANGED <<role, keyUser, horizon, byHand, rotated, fileVars, seeding>>

FinishRotation(p) ==
  /\ Goto(p, "revoke", "persist")
  /\ todo[p] = {}
  /\ rotated' = rotated \cup {newKey[p]}
  /\ UNCHANGED <<role, keyUser, revoked, horizon, byHand, fileVars, seeding, name, newKey, todo>>

(* Seeded fault: the key file of a handle is written once. *)
KeepKeyFile(p) ==
  /\ Goto(p, "persist", "resolver")
  /\ keyFile' = [keyFile EXCEPT ![name[p]] = IF @ = NoKey THEN newKey[p] ELSE @]
  /\ UNCHANGED <<tableVars, resolver, seeding, name, newKey, todo>>

(* writeKeyFile: os.WriteFile truncates, *)
TruncateKeyFile(p) ==
  /\ Goto(p, "persist", "write")
  /\ keyFile' = [keyFile EXCEPT ![name[p]] = Empty]
  /\ UNCHANGED <<tableVars, resolver, seeding, name, newKey, todo>>

(* then writes. *)
WriteKeyFile(p) ==
  /\ Goto(p, "write", "resolver")
  /\ keyFile' = [keyFile EXCEPT ![name[p]] = newKey[p]]
  /\ UNCHANGED <<tableVars, resolver, seeding, name, newKey, todo>>

(* ensureKeyResolver: a script with the current content is left alone, *)
KeepResolver(p) ==
  /\ pc[p] = "resolver"
  /\ resolver = "current"
  /\ Exit(p)
  /\ UNCHANGED <<tableVars, fileVars, seeding>>

(* any other is truncated, *)
TruncateResolver(p) ==
  /\ Goto(p, "resolver", "script")
  /\ resolver # "current"
  /\ resolver' = "torn"
  /\ UNCHANGED <<tableVars, keyFile, seeding, name, newKey, todo>>

(* then written. *)
WriteResolver(p) ==
  /\ pc[p] = "script"
  /\ resolver' = "current"
  /\ Exit(p)
  /\ UNCHANGED <<tableVars, keyFile, seeding>>

(* A database error or the end of the process.  Undisturbed, only before   *)
(* anything has been disabled or truncated.                                *)
Abort(p) ==
  /\ pc[p] # "idle"
  /\ Disturbed \/ pc[p] \in {"create_user", "issue_key", "rotate_key"}
  /\ Exit(p)
  /\ UNCHANGED <<tableVars, fileVars, seeding>>

Calm == Disturbed \/ \A p \in Proc : pc[p] # "revoke"

RevokeByHand(k) ==
  /\ revoked' = revoked \cup {k}
  /\ byHand' = byHand \cup {k}
  /\ UNCHANGED <<role, keyUser, horizon, rotated, fileVars, seeding, procVars>>

(* DELETE /api/v1/keys/{id}: an agent with a live key, on a key of its own. *)
RevokeAPIKey(h, k) ==
  /\ Calm
  /\ role[h] = "agent"
  /\ Live(h) # {}
  /\ k \in Unrevoked(h)
  /\ RevokeByHand(k)

(* DELETE /api/bff/keys/{id}: the owner's session, on any key. *)
RevokeAnyAgentAPIKey(k) ==
  /\ Calm
  /\ role[OwnerHandle] = "owner"
  /\ k \in Issued \ revoked
  /\ RevokeByHand(k)

(* Keys have one lifetime, so they expire in the order of issue; a key      *)
(* lasts months and an invocation seconds.                                  *)
Expire ==
  /\ horizon + 1 \in Issued
  /\ \A p \in Proc : newKey[p] # horizon + 1
  /\ horizon' = horizon + 1
  /\ UNCHANGED <<role, keyUser, revoked, byHand, rotated, fileVars, seeding, procVars>>

(* seedOwner: no user has the configured sso_subject yet, *)
SeedLookup ==
  /\ ~seeding
  /\ role[OwnerHandle] # "owner"
  /\ seeding' = TRUE
  /\ UNCHANGED <<tableVars, fileVars, procVars>>

(* so it creates one, with the handle "owner" (an error if that is taken). *)
SeedCreate ==
  /\ seeding
  /\ seeding' = FALSE
  /\ role' = IF HandleIsFree(OwnerHandle) THEN [role EXCEPT ![OwnerHandle] = "owner"] ELSE role
  /\ UNCHANGED <<keyUser, revoked, horizon, byHand, rotated, fileVars, procVars>>

(* Somebody adapts the script to the host, as its own comment suggests. *)
EditResolver ==
  /\ resolver = "current"
  /\ resolver' = "edited"
  /\ UNCHANGED <<tableVars, keyFile, seeding, procVars>>

ProcStep(p) ==
  \/ \E n \in Name : StartIssue(p, n) \/ StartRotate(p, n)
  \/ CreateUser(p) \/ IssueKey(p)
  \/ RotateKey(p) \/ ListOthers(p) \/ RevokeNext(p) \/ FinishRotation(p)
  \/ TruncateKeyFile(p) \/ WriteKeyFile(p)
  \/ KeepResolver(p) \/ TruncateResolver(p) \/ WriteResolver(p)
  \/ Abort(p)

Next ==
  \/ \E p \in Proc : ProcStep(p)
  \/ \E k \in Key : RevokeAnyAgentAPIKey(k) \/ \E h \in Handle : RevokeAPIKey(h, k)
  \/ Expire
  \/ SeedLookup \/ SeedCreate
  \/ EditResolver

Spec == Init /\ [][Next]_vars

-----------------------------------------------------------------------------
TypeOK ==
  /\ role \in [Handle -> {"none", "agent", "owner"}]
  /\ keyUser \in Seq(Handle) /\ Len(keyUser) <= MaxKeys
  /\ revoked \subseteq Issued
  /\ horizon \in Nat /\ horizon <= Len(keyUser)
  /\ byHand \subseteq revoked
  /\ rotated \subseteq Issued
  /\ keyFile \in [Name -> Key \cup {NoKey, Empty}]
  /\ resolver \in {"missing", "torn", "current", "edited"}
  /\ seeding \in BOOLEAN
  /\ pc \in [Proc -> {"idle", "create_user", "issue_key", "rotate_key", "list", "revoke",
                      "persist", "write", "resolver", "script"}]
  /\ name \in [Proc -> Name \cup {NoName}]
  /\ newKey \in [Proc -> Key \cup {NoKey}]
  /\ todo \in [Proc -> SUBSET Issued]
  /\ \A p \in Proc : pc[p] # "idle" => name[p] \in Name
  /\ \A p \in Proc :
       pc[p] \in {"list", "revoke", "persist", "write", "resolver", "script"} => newKey[p] \in Issued

(* A finished rotation has disabled every key its handle held before, the
   leaked one among them, however many invocations overlap and whichever of
   them die (Rotate, DisableOtherAPIKeys). *)
RotateKillsOlder ==
  \A k \in rotated : \A j \in KeysOf(keyUser[k]) : j < k => j \in revoked

(* A user's role is what the first of cmd/seed and issue-key made it: their
   lookups and inserts race, and the unique index decides. *)
RoleNeverChanges ==
  [][\A h \in Handle : role[h] # "none" => role'[h] = role[h]]_role

(* I13: rotation leaves no gap in which its caller holds zero valid keys,
   unless somebody revoked the new key by hand. *)
NeverStranded ==
  [][\A p \in Proc :
       RevokeNext(p) => Live(HandleAt(p))' # {} \/ newKey[p] \in byHand]_vars

(* I14: once a rotation has disabled a key of a handle, then between
   invocations the resolver script is there and whole, and no key file for
   that handle is empty or holds a disabled key: running it again recovers. *)
ResolverNeverStale ==
  (\A p \in Proc : pc[p] = "idle") =>
    \A n \in Name :
      LET disabled == KeysOf(HandleOf[n]) \cap (revoked \ byHand)
      IN disabled # {} /\ keyFile[n] # NoKey =>
           resolver \in {"current", "edited"} /\ keyFile[n] \notin disabled \cup {Empty}
=============================================================================
