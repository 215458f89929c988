------------------------- MODULE KeyLifecycleProofs -------------------------
(***************************************************************************)
(* Proofs about KeyLifecycle, for every number of overlapping invocations, *)
(* handles, names and keys, disturbed or not: type correctness, that a     *)
(* finished rotation has disabled every older key of its handle, and that  *)
(* a user's role never changes; and, for undisturbed invocations one after *)
(* another, that nobody is stranded and no key file is left stale.         *)
(***************************************************************************)
EXTENDS KeyLifecycle, TLAPS

USE DEF tableVars, fileVars, procVars, vars

(* Storing a key appends it and leaves every older key where it was. *)
LEMMA StoreKeyEffect ==
  ASSUME TypeOK, NEW p \in Proc, name[p] \in Name, StoreKey(p)
  PROVE  /\ keyUser' \in Seq(Handle)
         /\ Len(keyUser') = Len(keyUser) + 1 /\ Len(keyUser') <= MaxKeys
         /\ \A k \in Issued : keyUser'[k] = keyUser[k]
         /\ keyUser'[Len(keyUser) + 1] = HandleAt(p)
         /\ newKey' = [newKey EXCEPT ![p] = Len(keyUser) + 1]
         /\ Issued' = Issued \cup {Len(keyUser) + 1}
<1>1. HandleAt(p) \in Handle
  BY HandleOfAssumption DEF HandleAt
<1>2. keyUser \in Seq(Handle) /\ Len(keyUser) \in Nat
  BY DEF TypeOK
<1>3. /\ keyUser' \in Seq(Handle)
      /\ Len(keyUser') = Len(keyUser) + 1
      /\ \A k \in 1..Len(keyUser) : keyUser'[k] = keyUser[k]
      /\ keyUser'[Len(keyUser) + 1] = HandleAt(p)
  BY <1>1, <1>2 DEF StoreKey
<1> QED
  BY <1>2, <1>3, MaxKeysAssumption DEF StoreKey, Issued

(* Every variable of the key lifecycle keeps its type; an invocation past the
   insert holds a key that is in api_keys. *)
THEOREM TypeCorrect == Spec => []TypeOK
<1>1. Init => TypeOK
  <2> SUFFICES ASSUME Init PROVE TypeOK
    OBVIOUS
  <2>1. keyUser \in Seq(Handle) /\ Len(keyUser) = 0
    BY DEF Init
  <2>2. /\ role \in [Handle -> {"none", "agent", "owner"}]
        /\ horizon \in Nat /\ horizon <= Len(keyUser) /\ Len(keyUser) <= MaxKeys
        /\ keyFile \in [Name -> Key \cup {NoKey, Empty}]
    BY <2>1, MaxKeysAssumption DEF Init
  <2>3. /\ revoked \subseteq Issued /\ byHand \subseteq revoked /\ rotated \subseteq Issued
        /\ resolver \in {"missing", "torn", "current", "edited"} /\ seeding \in BOOLEAN
    BY DEF Init
  <2>4. /\ pc = [p \in Proc |-> "idle"]
        /\ name \in [Proc -> Name \cup {NoName}]
        /\ newKey \in [Proc -> Key \cup {NoKey}]
        /\ todo \in [Proc -> SUBSET Issued]
    BY DEF Init
  <2> QED
    BY <2>1, <2>2, <2>3, <2>4 DEF TypeOK
<1>2. TypeOK /\ [Next]_vars => TypeOK'
  <2> SUFFICES ASSUME TypeOK, [Next]_vars PROVE TypeOK'
    OBVIOUS
  <2> USE MaxKeysAssumption DEF TypeOK
  <2>1. ASSUME NEW p \in Proc, NEW n \in Name, StartIssue(p, n) PROVE TypeOK'
    BY <2>1 DEF StartIssue, Goto, Issued
  <2>2. ASSUME NEW p \in Proc, CreateUser(p) PROVE TypeOK'
    BY <2>2 DEF CreateUser, Exit, Issued
  <2>3. ASSUME NEW p \in Proc, IssueKey(p) \/ RotateKey(p) PROVE TypeOK'
    <3>1. name[p] \in Name /\ StoreKey(p)
      BY <2>3 DEF IssueKey, RotateKey, Goto
    <3>2. Len(keyUser) + 1 \in Key /\ Len(keyUser) + 1 \in Issued' /\ Issued \subseteq Issued'
      BY <3>1, StoreKeyEffect DEF Key, Issued
    <3>3. keyUser' \in Seq(Handle) /\ Len(keyUser') <= MaxKeys /\ horizon <= Len(keyUser')
      BY <3>1, StoreKeyEffect
    <3>4. newKey' = [newKey EXCEPT ![p] = Len(keyUser) + 1]
      BY <3>1, StoreKeyEffect
    <3>5. /\ pc' \in [Proc -> {"idle", "create_user", "issue_key", "rotate_key", "list", "revoke",
                      "persist", "write", "resolver", "script"}]
          /\ \A x \in Proc : x # p => pc'[x] = pc[x]
          /\ UNCHANGED <<role, revoked, horizon, byHand, rotated, fileVars, seeding, name, todo>>
      BY <2>3 DEF IssueKey, RotateKey, Goto
    <3> QED
      BY <3>1, <3>2, <3>3, <3>4, <3>5
  <2>4. ASSUME NEW p \in Proc, NEW n \in Name, StartRotate(p, n) PROVE TypeOK'
    BY <2>4 DEF StartRotate, Goto, Issued
  <2>5. ASSUME NEW p \in Proc, ListOthers(p) PROVE TypeOK'
    <3>1. Others(p) \subseteq Issued
      BY DEF Others, Unrevoked, KeysOf
    <3> QED
      BY <2>5, <3>1 DEF ListOthers, Goto, Issued
  <2>6. ASSUME NEW p \in Proc, RevokeNext(p) PROVE TypeOK'
    <3>1. PICK k \in todo[p] :
            IF k \in revoked
              THEN UNCHANGED revoked /\ Exit(p)
              ELSE /\ revoked' = revoked \cup {k}
                   /\ todo' = [todo EXCEPT ![p] = @ \ {k}]
                   /\ UNCHANGED <<pc, name, newKey>>
      BY <2>6 DEF RevokeNext
    <3>2. UNCHANGED <<role, keyUser, horizon, byHand, rotated, fileVars, seeding>>
          /\ Issued' = Issued
      BY <2>6 DEF RevokeNext, Issued
    <3>3. k \in Issued
      OBVIOUS
    <3>4. CASE k \in revoked
      BY <3>1, <3>2, <3>4 DEF Exit
    <3>5. CASE k \notin revoked
      BY <3>1, <3>2, <3>3, <3>5
    <3> QED
      BY <3>4, <3>5
  <2>7. ASSUME NEW p \in Proc, FinishRotation(p) PROVE TypeOK'
    BY <2>7 DEF FinishRotation, Goto, Issued
  <2>8. ASSUME NEW p \in Proc, TruncateKeyFile(p) PROVE TypeOK'
    BY <2>8 DEF TruncateKeyFile, Goto, Issued
  <2>9. ASSUME NEW p \in Proc, WriteKeyFile(p) PROVE TypeOK'
    BY <2>9 DEF WriteKeyFile, Goto, Issued
  <2>10. ASSUME NEW p \in Proc, KeepResolver(p) \/ TruncateResolver(p) \/ WriteResolver(p)
         PROVE  TypeOK'
    BY <2>10 DEF KeepResolver, TruncateResolver, WriteResolver, Goto, Exit, Issued
  <2>11. ASSUME NEW p \in Proc, Abort(p) PROVE TypeOK'
    BY <2>11 DEF Abort, Exit, Issued
  <2>12. ASSUME NEW k \in Key,
                RevokeAnyAgentAPIKey(k) \/ \E h \in Handle : RevokeAPIKey(h, k)
         PROVE  TypeOK'
    <3>1. k \in Issued /\ RevokeByHand(k)
      BY <2>12 DEF RevokeAnyAgentAPIKey, RevokeAPIKey, Unrevoked, KeysOf
    <3> QED
      BY <3>1 DEF RevokeByHand, Issued
  <2>13. CASE Expire
    BY <2>13 DEF Expire, Issued
  <2>14. CASE SeedLookup \/ SeedCreate
    BY <2>14, OwnerHandleAssumption DEF SeedLookup, SeedCreate, Issued
  <2>15. CASE EditResolver
    BY <2>15 DEF EditResolver, Issued
  <2>16. CASE UNCHANGED vars
    BY <2>16 DEF Issued
  <2> QED
    BY <2>1, <2>2, <2>3, <2>4, <2>5, <2>6, <2>7, <2>8, <2>9, <2>10, <2>11, <2>12, <2>13, <2>14,
       <2>15, <2>16 DEF Next, ProcStep
<1> QED
  BY <1>1, <1>2, PTL DEF Spec

-----------------------------------------------------------------------------
(* What RotateKillsOlder rests on: the key of a running rotation belongs to
   the handle it was asked to rotate, and, once the others are listed, every
   older key of that handle is revoked or still to be. *)
OwnKey(p) == pc[p] \in {"list", "revoke"} => keyUser[newKey[p]] = HandleAt(p)

Covered(p) ==
  pc[p] = "revoke" =>
    \A j \in Issued :
      keyUser[j] = HandleAt(p) /\ j < newKey[p] => j \in revoked \cup todo[p]

(* RotateKillsOlder with KeysOf spelled out. *)
OlderRevoked ==
  \A k \in rotated : \A j \in Issued : keyUser[j] = keyUser[k] /\ j < k => j \in revoked

KeyInv == OlderRevoked /\ \A p \in Proc : OwnKey(p) /\ Covered(p)

(* One step of the key lifecycle keeps the rotation invariant. *)
LEMMA KeyStep ==
  ASSUME TypeOK, KeyInv, [Next]_vars
  PROVE  KeyInv'
<1> USE DEF TypeOK, KeyInv
<1>0. ASSUME UNCHANGED <<keyUser, rotated>>, revoked \subseteq revoked'
      PROVE  OlderRevoked' /\ Issued' = Issued
  BY <1>0 DEF OlderRevoked, Issued
<1>1. ASSUME NEW p \in Proc,
             pc'[p] \notin {"list", "revoke"},
             \A x \in Proc : x # p =>
               pc'[x] = pc[x] /\ name'[x] = name[x] /\ newKey'[x] = newKey[x] /\ todo'[x] = todo[x],
             UNCHANGED <<keyUser, rotated>>, revoked \subseteq revoked'
      PROVE  KeyInv'
  BY <1>0, <1>1 DEF OwnKey, Covered, HandleAt
<1>2. ASSUME UNCHANGED <<keyUser, rotated, procVars>>, revoked \subseteq revoked'
      PROVE  KeyInv'
  BY <1>0, <1>2 DEF OwnKey, Covered, HandleAt
<1>3. ASSUME NEW p \in Proc, NEW n \in Name, StartIssue(p, n) PROVE KeyInv'
  BY <1>1, <1>3 DEF StartIssue, Goto
<1>4. ASSUME NEW p \in Proc, CreateUser(p) PROVE KeyInv'
  BY <1>1, <1>4 DEF CreateUser, Exit
<1>5. ASSUME NEW p \in Proc, IssueKey(p) \/ RotateKey(p) PROVE KeyInv'
  <2>1. name[p] \in Name /\ StoreKey(p) /\ UNCHANGED <<revoked, rotated, name, todo>>
    BY <1>5 DEF IssueKey, RotateKey, Goto
  <2>2. /\ \A k \in Issued : keyUser'[k] = keyUser[k]
        /\ keyUser'[Len(keyUser) + 1] = HandleAt(p)
        /\ newKey' = [newKey EXCEPT ![p] = Len(keyUser) + 1]
        /\ Issued' = Issued \cup {Len(keyUser) + 1}
    BY <2>1, StoreKeyEffect
  <2>3. \A k \in Issued : k \in Nat /\ k < Len(keyUser) + 1
    BY DEF Issued
  <2>4. pc'[p] \in {"persist", "list"} /\ \A x \in Proc : x # p => pc'[x] = pc[x]
    BY <1>5 DEF IssueKey, RotateKey, Goto
  <2>5. OlderRevoked'
    BY <2>1, <2>2, <2>3 DEF OlderRevoked
  <2>6. ASSUME NEW x \in Proc PROVE OwnKey(x)' /\ Covered(x)'
    <3>1. CASE x = p
      BY <2>1, <2>2, <2>4, <3>1 DEF OwnKey, Covered, HandleAt
    <3>2. CASE x # p
      <4>1. pc'[x] = pc[x] /\ newKey'[x] = newKey[x] /\ name'[x] = name[x] /\ todo'[x] = todo[x]
        BY <2>1, <2>2, <2>4, <3>2
      <4>2. pc[x] \in {"list", "revoke"} => newKey[x] \in Issued
        OBVIOUS
      <4> QED
        BY <2>1, <2>2, <2>3, <4>1, <4>2 DEF OwnKey, Covered, HandleAt
    <3> QED
      BY <3>1, <3>2
  <2> QED
    BY <2>5, <2>6
<1>6. ASSUME NEW p \in Proc, NEW n \in Name, StartRotate(p, n) PROVE KeyInv'
  BY <1>1, <1>6 DEF StartRotate, Goto
<1>7. ASSUME NEW p \in Proc, ListOthers(p) PROVE KeyInv'
  <2>1. UNCHANGED <<keyUser, rotated, revoked, name, newKey>> /\ pc[p] = "list"
    BY <1>7 DEF ListOthers, Goto
  <2>2. \A x \in Proc :
          /\ pc'[x] = IF x = p THEN "revoke" ELSE pc[x]
          /\ todo'[x] = IF x = p THEN Others(p) ELSE todo[x]
    BY <1>7 DEF ListOthers, Goto
  <2>3. \A j \in Issued : keyUser[j] = HandleAt(p) /\ j < newKey[p] => j \in revoked \cup Others(p)
    BY <2>1 DEF Others, Unrevoked, KeysOf, Issued
  <2> QED
    BY <1>0, <2>1, <2>2, <2>3 DEF OwnKey, Covered, HandleAt
<1>8. ASSUME NEW p \in Proc, RevokeNext(p) PROVE KeyInv'
  <2>1. PICK k \in todo[p] :
          IF k \in revoked
            THEN UNCHANGED revoked /\ Exit(p)
            ELSE /\ revoked' = revoked \cup {k}
                 /\ todo' = [todo EXCEPT ![p] = @ \ {k}]
                 /\ UNCHANGED <<pc, name, newKey>>
    BY <1>8 DEF RevokeNext
  <2>2. UNCHANGED <<keyUser, rotated>>
    BY <1>8 DEF RevokeNext
  <2>3. CASE k \in revoked
    BY <1>1, <2>1, <2>2, <2>3 DEF Exit
  <2>4. CASE k \notin revoked
    <3>1. \A x \in Proc : todo'[x] = IF x = p THEN todo[x] \ {k} ELSE todo[x]
      BY <2>1, <2>4
    <3> QED
      BY <1>0, <2>1, <2>2, <2>4, <3>1 DEF OwnKey, Covered, HandleAt
  <2> QED
    BY <2>3, <2>4
<1>9. ASSUME NEW p \in Proc, FinishRotation(p) PROVE KeyInv'
  <2>1. UNCHANGED <<keyUser, revoked, name, newKey, todo>> /\ rotated' = rotated \cup {newKey[p]}
        /\ pc[p] = "revoke" /\ todo[p] = {}
    BY <1>9 DEF FinishRotation, Goto
  <2>2. \A x \in Proc : pc'[x] = IF x = p THEN "persist" ELSE pc[x]
    BY <1>9 DEF FinishRotation, Goto
  <2>3. \A j \in Issued : keyUser[j] = keyUser[newKey[p]] /\ j < newKey[p] => j \in revoked
    BY <2>1 DEF OwnKey, Covered
  <2>4. OlderRevoked' /\ Issued' = Issued
    BY <2>1, <2>3 DEF OlderRevoked, Issued
  <2> QED
    BY <2>1, <2>2, <2>4 DEF OwnKey, Covered, HandleAt
<1>10. ASSUME NEW p \in Proc, TruncateKeyFile(p) \/ WriteKeyFile(p) PROVE KeyInv'
  BY <1>1, <1>10 DEF TruncateKeyFile, WriteKeyFile, Goto
<1>11. ASSUME NEW p \in Proc,
              KeepResolver(p) \/ TruncateResolver(p) \/ WriteResolver(p) \/ Abort(p)
       PROVE  KeyInv'
  BY <1>1, <1>11 DEF KeepResolver, TruncateResolver, WriteResolver, Abort, Goto, Exit
<1>12. ASSUME NEW k \in Key,
              RevokeAnyAgentAPIKey(k) \/ \E h \in Handle : RevokeAPIKey(h, k)
       PROVE  KeyInv'
  BY <1>2, <1>12 DEF RevokeAnyAgentAPIKey, RevokeAPIKey, RevokeByHand
<1>13. CASE Expire \/ SeedLookup \/ SeedCreate \/ EditResolver
  BY <1>2, <1>13 DEF Expire, SeedLookup, SeedCreate, EditResolver
<1>14. CASE UNCHANGED vars
  BY <1>2, <1>14
<1> QED
  BY <1>3, <1>4, <1>5, <1>6, <1>7, <1>8, <1>9, <1>10, <1>11, <1>12, <1>13, <1>14 DEF Next, ProcStep

(* A rotation that has finished disabling (DisableOtherAPIKeys) has revoked
   every key that its handle held before, whatever ran beside it. *)
THEOREM RotationKills == Spec => []RotateKillsOlder
<1>1. Init => KeyInv
  BY DEF Init, KeyInv, OlderRevoked, OwnKey, Covered
<1>2. TypeOK /\ KeyInv /\ [Next]_vars => KeyInv'
  BY KeyStep
<1>3. TypeOK /\ KeyInv => RotateKillsOlder
  BY DEF KeyInv, OlderRevoked, RotateKillsOlder, KeysOf
<1> QED
  BY <1>1, <1>2, <1>3, TypeCorrect, PTL DEF Spec

(* A users row is never given another role: cmd/seed and issue-key only ever
   insert, and only a handle that is still free. *)
THEOREM RolesStay == Spec => RoleNeverChanges
<1>1. TypeOK /\ [Next]_vars => [\A h \in Handle : role[h] # "none" => role'[h] = role[h]]_role
  <2> SUFFICES ASSUME TypeOK, [Next]_vars, NEW h \in Handle, role[h] # "none"
               PROVE  role'[h] = role[h]
    OBVIOUS
  <2>1. ASSUME NEW p \in Proc, CreateUser(p) PROVE role'[h] = role[h]
    BY <2>1 DEF CreateUser, HandleIsFree, TypeOK
  <2>2. CASE SeedCreate
    BY <2>2 DEF SeedCreate, HandleIsFree, TypeOK
  <2>3. ASSUME ~SeedCreate, ~\E p \in Proc : CreateUser(p) PROVE UNCHANGED role
    BY <2>3 DEF Next, ProcStep, StartIssue, IssueKey, StartRotate, RotateKey, ListOthers, RevokeNext,
                FinishRotation, TruncateKeyFile, WriteKeyFile, KeepResolver, TruncateResolver,
                WriteResolver, Abort,
                RevokeAnyAgentAPIKey, RevokeAPIKey, RevokeByHand, Expire, SeedLookup, EditResolver
  <2> QED
    BY <2>1, <2>2, <2>3
<1> QED
  BY <1>1, TypeCorrect, PTL DEF Spec, RoleNeverChanges

-----------------------------------------------------------------------------
(* One invocation at a time, undisturbed and each handle under one name: what
   NeverStranded and ResolverNeverStale rest on. *)
Orderly ==
  /\ ~Disturbed
  /\ \A p, q \in Proc : p = q
  /\ \A m, n \in Name : HandleOf[m] = HandleOf[n] => m = n

(* The keys that rotations have disabled, not their users. *)
Disabled == revoked \ byHand

(* The key of an invocation is its handle's, has not expired, is not disabled
   and not about to be; what it is about to disable is its handle's too. *)
OwnKeySafe(p) ==
  pc[p] \in {"list", "revoke", "persist", "write", "resolver", "script"} =>
    /\ newKey[p] > horizon
    /\ newKey[p] \notin Disabled \cup todo[p]
    /\ keyUser[newKey[p]] = HandleAt(p)

Pending(p) ==
  /\ pc[p] # "revoke" => todo[p] = {}
  /\ todo[p] \cap revoked = {}
  /\ \A k \in todo[p] : keyUser[k] = HandleAt(p)

(* A key file is bad only while the invocation that will write it is between
   its first revocation and its write, and without a whole resolver script only
   before that invocation has written it. *)
Rewriting(n) == \E p \in Proc : pc[p] \in {"revoke", "persist", "write"} /\ name[p] = n

FileGood(n) ==
  /\ ~Rewriting(n) =>
       /\ keyFile[n] # Empty
       /\ keyFile[n] \in Disabled => keyUser[keyFile[n]] # HandleOf[n]
  /\ \/ keyFile[n] = NoKey
     \/ resolver \in {"current", "edited"}
     \/ \E p \in Proc : pc[p] \in {"write", "resolver", "script"}

FilesInv ==
  /\ \A p \in Proc : OwnKeySafe(p) /\ Pending(p)
  /\ \A n \in Name : FileGood(n)

LEMMA FilesStep ==
  ASSUME TypeOK, Orderly, FilesInv, [Next]_vars
  PROVE  FilesInv'
<1> USE DEF TypeOK, Orderly, FilesInv, OwnKeySafe, Pending, Disabled
<1> DEFINE Safe == \A p \in Proc : OwnKeySafe(p) /\ Pending(p)
           Good == \A n \in Name : FileGood(n)
<1>1. ASSUME NEW p \in Proc, NEW n \in Name, StartIssue(p, n) \/ StartRotate(p, n) PROVE FilesInv'
  <2>1. UNCHANGED <<tableVars, fileVars, todo>> /\ pc[p] = "idle"
        /\ pc'[p] \in {"create_user", "issue_key", "rotate_key"}
    BY <1>1 DEF StartIssue, StartRotate, Goto
  <2>2. Safe'
    BY <2>1
  <2>3. Good'
    BY <2>1 DEF FileGood, Rewriting
  <2> QED
    BY <2>2, <2>3
<1>2. ASSUME NEW p \in Proc, CreateUser(p) \/ Abort(p) PROVE FilesInv'
  <2>1. UNCHANGED <<keyUser, revoked, horizon, byHand, rotated, fileVars>>
        /\ pc[p] \in {"create_user", "issue_key", "rotate_key"}
        /\ pc'[p] \in {"idle", "issue_key"} /\ todo'[p] = {}
    BY <1>2 DEF CreateUser, Abort, Exit
  <2>2. Safe'
    BY <2>1
  <2>3. Good'
    BY <2>1 DEF FileGood, Rewriting
  <2> QED
    BY <2>2, <2>3
<1>3. ASSUME NEW p \in Proc, IssueKey(p) \/ RotateKey(p) PROVE FilesInv'
  <2>1. /\ StoreKey(p) /\ name[p] \in Name
        /\ UNCHANGED <<revoked, horizon, byHand, fileVars, name, todo>>
        /\ pc[p] \in {"issue_key", "rotate_key"} /\ pc'[p] \in {"persist", "list"}
    BY <1>3 DEF IssueKey, RotateKey, Goto
  <2>2. /\ \A k \in Issued : keyUser'[k] = keyUser[k]
        /\ keyUser'[Len(keyUser) + 1] = HandleAt(p)
        /\ newKey'[p] = Len(keyUser) + 1
        /\ Len(keyUser) + 1 \notin Issued
    BY <2>1, StoreKeyEffect DEF Issued
  <2>3. Safe'
    <3>1. OwnKeySafe(p)'
      BY <2>1, <2>2 DEF HandleAt
    <3>2. Pending(p)'
      BY <2>1, <2>2
    <3> QED
      BY <3>1, <3>2
  <2>4. ASSUME NEW n \in Name, ~Rewriting(n)', keyFile[n] \in Disabled
        PROVE  keyUser'[keyFile[n]] # HandleOf[n]
    <3>1. ~Rewriting(n)
      BY <2>1 DEF Rewriting
    <3> QED
      BY <2>2, <2>4, <3>1 DEF FileGood
  <2>5. \A n \in Name : ~Rewriting(n)' => ~Rewriting(n) /\ keyFile[n] # Empty
    BY <2>1 DEF FileGood, Rewriting
  <2>6. Good'
    BY <2>1, <2>4, <2>5 DEF FileGood
  <2> QED
    BY <2>3, <2>6
<1>4. ASSUME NEW p \in Proc, ListOthers(p) PROVE FilesInv'
  <2>1. /\ UNCHANGED <<tableVars, fileVars, name, newKey>>
        /\ pc[p] = "list" /\ pc'[p] = "revoke" /\ todo'[p] = Others(p)
    BY <1>4 DEF ListOthers, Goto
  <2>2. /\ Others(p) \cap revoked = {} /\ newKey[p] \notin Others(p)
        /\ \A k \in Others(p) : keyUser[k] = HandleAt(p)
    BY DEF Others, Unrevoked, KeysOf
  <2>3. Safe'
    BY <2>1, <2>2 DEF HandleAt
  <2>4. Good'
    BY <2>1 DEF FileGood, Rewriting
  <2> QED
    BY <2>3, <2>4
<1>5. ASSUME NEW p \in Proc, RevokeNext(p) PROVE FilesInv'
  <2>1. PICK k \in todo[p] : /\ revoked' = revoked \cup {k}
                             /\ todo' = [todo EXCEPT ![p] = @ \ {k}]
                             /\ UNCHANGED <<pc, name, newKey>>
    BY <1>5 DEF RevokeNext
  <2>2. UNCHANGED <<keyUser, horizon, byHand, fileVars>> /\ pc[p] = "revoke"
    BY <1>5 DEF RevokeNext
  <2>3. Safe'
    BY <2>1, <2>2 DEF HandleAt
  <2>4. ASSUME NEW n \in Name PROVE FileGood(n)'
    <3>1. CASE n = name[p]
      BY <2>1, <2>2, <3>1 DEF FileGood, Rewriting
    <3>2. CASE n # name[p]
      <4>1. keyUser[k] # HandleOf[n]
        BY <2>2, <3>2 DEF HandleAt
      <4> QED
        BY <2>1, <2>2, <4>1 DEF FileGood, Rewriting
    <3> QED
      BY <3>1, <3>2
  <2> QED
    BY <2>3, <2>4
<1>6. ASSUME NEW p \in Proc, FinishRotation(p) PROVE FilesInv'
  <2>1. /\ UNCHANGED <<keyUser, revoked, horizon, byHand, fileVars, name, newKey, todo>>
        /\ pc[p] = "revoke" /\ pc'[p] = "persist" /\ todo[p] = {}
    BY <1>6 DEF FinishRotation, Goto
  <2>2. Safe'
    BY <2>1 DEF HandleAt
  <2>3. Good'
    BY <2>1 DEF FileGood, Rewriting
  <2> QED
    BY <2>2, <2>3
<1>7. ASSUME NEW p \in Proc, TruncateKeyFile(p) PROVE FilesInv'
  <2>1. /\ UNCHANGED <<tableVars, resolver, name, newKey, todo>>
        /\ pc[p] = "persist" /\ pc'[p] = "write" /\ name[p] \in Name
        /\ keyFile' = [keyFile EXCEPT ![name[p]] = Empty]
    BY <1>7 DEF TruncateKeyFile, Goto
  <2>2. Safe'
    BY <2>1 DEF HandleAt
  <2>3. Good'
    BY <2>1 DEF FileGood, Rewriting
  <2> QED
    BY <2>2, <2>3
<1>8. ASSUME NEW p \in Proc, WriteKeyFile(p) PROVE FilesInv'
  <2>1. /\ UNCHANGED <<tableVars, resolver, name, newKey, todo>>
        /\ pc[p] = "write" /\ pc'[p] = "resolver" /\ name[p] \in Name
        /\ keyFile' = [keyFile EXCEPT ![name[p]] = newKey[p]]
    BY <1>8 DEF WriteKeyFile, Goto
  <2>2. Safe'
    BY <2>1 DEF HandleAt
  <2>3. newKey[p] # Empty /\ newKey[p] \notin Disabled
    BY <2>1, MaxKeysAssumption DEF Empty, Key, NoKey
  <2>4. Good'
    BY <2>1, <2>3 DEF FileGood, Rewriting
  <2> QED
    BY <2>2, <2>4
<1>9. ASSUME NEW p \in Proc, KeepResolver(p) \/ WriteResolver(p) PROVE FilesInv'
  <2>1. /\ UNCHANGED <<tableVars, keyFile>> /\ resolver' = "current"
        /\ pc[p] \in {"resolver", "script"} /\ pc'[p] = "idle" /\ todo'[p] = {}
    BY <1>9 DEF KeepResolver, WriteResolver, Exit
  <2>2. Safe'
    BY <2>1
  <2>3. Good'
    BY <2>1 DEF FileGood, Rewriting
  <2> QED
    BY <2>2, <2>3
<1>10. ASSUME NEW p \in Proc, TruncateResolver(p) PROVE FilesInv'
  <2>1. /\ UNCHANGED <<tableVars, keyFile, name, newKey, todo>>
        /\ pc[p] = "resolver" /\ pc'[p] = "script"
    BY <1>10 DEF TruncateResolver, Goto
  <2>2. Safe'
    BY <2>1 DEF HandleAt
  <2>3. Good'
    BY <2>1 DEF FileGood, Rewriting
  <2> QED
    BY <2>2, <2>3
<1>11. ASSUME NEW k \in Key, RevokeAnyAgentAPIKey(k) \/ \E h \in Handle : RevokeAPIKey(h, k)
       PROVE  FilesInv'
  <2>1. RevokeByHand(k) /\ Calm
    BY <1>11 DEF RevokeAnyAgentAPIKey, RevokeAPIKey
  <2>2. /\ UNCHANGED <<keyUser, horizon, fileVars, procVars>>
        /\ revoked' = revoked \cup {k} /\ byHand' = byHand \cup {k}
        /\ \A p \in Proc : todo[p] = {}
    BY <2>1 DEF RevokeByHand, Calm
  <2>3. Safe'
    BY <2>2 DEF HandleAt
  <2>4. Good'
    BY <2>2 DEF FileGood, Rewriting
  <2> QED
    BY <2>3, <2>4
<1>12. CASE Expire
  <2>1. /\ UNCHANGED <<keyUser, revoked, byHand, fileVars, procVars>>
        /\ horizon' = horizon + 1 /\ \A p \in Proc : newKey[p] # horizon + 1
    BY <1>12 DEF Expire
  <2>2. Safe'
    BY <2>1 DEF HandleAt, Key, NoKey
  <2>3. Good'
    BY <2>1 DEF FileGood, Rewriting
  <2> QED
    BY <2>2, <2>3
<1>13. CASE SeedLookup \/ SeedCreate \/ EditResolver \/ UNCHANGED vars
  <2>1. /\ UNCHANGED <<keyUser, revoked, horizon, byHand, keyFile, procVars>>
        /\ resolver' = resolver \/ resolver' = "edited"
    BY <1>13 DEF SeedLookup, SeedCreate, EditResolver
  <2>2. Safe'
    BY <2>1 DEF HandleAt
  <2>3. Good'
    BY <2>1 DEF FileGood, Rewriting
  <2> QED
    BY <2>2, <2>3
<1> QED
  BY <1>1, <1>2, <1>3, <1>4, <1>5, <1>6, <1>7, <1>8, <1>9, <1>10, <1>11, <1>12, <1>13
     DEF Next, ProcStep

LEMMA FilesInvariant == Orderly => (Spec => []FilesInv)
<1> SUFFICES ASSUME Orderly PROVE Spec => []FilesInv
  OBVIOUS
<1>1. Init => FilesInv
  BY MaxKeysAssumption
     DEF Init, FilesInv, OwnKeySafe, Pending, Disabled, FileGood, Rewriting, Empty, NoKey
<1>2. TypeOK /\ FilesInv /\ [Next]_vars => FilesInv'
  BY FilesStep
<1> QED
  BY <1>1, <1>2, TypeCorrect, PTL DEF Spec

(* Once a rotation has disabled a key, no key file is left with a disabled key
   or empty, and the resolver script is there and whole, whenever no invocation runs
   (Rotate, PersistKey, EnsureKeyResolver). *)
THEOREM FilesNeverStale ==
  ASSUME ~Disturbed, \A p, q \in Proc : p = q,
         \A m, n \in Name : HandleOf[m] = HandleOf[n] => m = n
  PROVE  Spec => []ResolverNeverStale
<1>1. Orderly
  BY DEF Orderly
<1>2. FilesInv => ResolverNeverStale
  BY DEF FilesInv, FileGood, Rewriting, Disabled, ResolverNeverStale, KeysOf
<1> QED
  BY <1>1, <1>2, FilesInvariant, PTL

(* A rotation revokes the other keys of its handle only while the new one is
   good (Rotate stores before it disables), unless that was revoked by hand. *)
THEOREM RotationStrandsNobody ==
  ASSUME ~Disturbed, \A p, q \in Proc : p = q,
         \A m, n \in Name : HandleOf[m] = HandleOf[n] => m = n
  PROVE  Spec => NeverStranded
<1> DEFINE Held == \A p \in Proc :
                     RevokeNext(p) => Live(HandleAt(p))' # {} \/ newKey[p] \in byHand
<1>1. Orderly
  BY DEF Orderly
<1>2. ASSUME TypeOK, FilesInv PROVE [Held]_vars
  <2> USE DEF FilesInv, OwnKeySafe, Pending, Disabled
  <2> SUFFICES ASSUME NEW p \in Proc, RevokeNext(p), newKey[p] \notin byHand
               PROVE  newKey[p] \in Live(HandleAt(p))'
    OBVIOUS
  <2>1. PICK k \in todo[p] : revoked' = revoked \cup {k} /\ UNCHANGED name
    BY <1>2 DEF RevokeNext
  <2>2. UNCHANGED <<keyUser, horizon>> /\ pc[p] = "revoke"
    BY DEF RevokeNext
  <2>3. newKey[p] \notin revoked'
    BY <1>2, <2>1, <2>2
  <2> QED
    BY <1>2, <2>1, <2>2, <2>3 DEF TypeOK, Live, Unrevoked, KeysOf, Issued, HandleAt
<1> HIDE DEF Held
<1>3. Spec => [][Held]_vars
  BY <1>1, <1>2, FilesInvariant, TypeCorrect, PTL
<1> QED
  BY <1>3 DEF Held, NeverStranded
=============================================================================
