---------------------------- MODULE UsageLedger ----------------------------
(***************************************************************************)
(* What reporting usage promises, with no process, network or file in it:  *)
(* a usage id is recorded at most once, its record never changes, and the  *)
(* reporting side never counts as settled an id that is not recorded.      *)
(* CollectorDelivery implements this module.                               *)
(***************************************************************************)
CONSTANTS
  Id,      \* message ids
  Row,     \* what can be recorded under an id
  NoRow    \* "nothing recorded"

VARIABLES
  ledger,  \* the record of each id, or NoRow
  settled  \* the ids the reporting side will not report again

ledgerVars == <<ledger, settled>>

Recorded == {id \in Id : ledger[id] # NoRow}

Init ==
  /\ ledger = [id \in Id |-> NoRow]
  /\ settled = {}

(* Reports arrive, any number of times: only unrecorded ids take effect. *)
Record ==
  /\ ledger' \in [Id -> Row \cup {NoRow}]
  /\ \A id \in Recorded : ledger'[id] = ledger[id]
  /\ UNCHANGED settled

(* The reporting side may learn that ids are recorded and may forget it. *)
Settle ==
  /\ settled' \in SUBSET Recorded
  /\ UNCHANGED ledger

Next == Record \/ Settle

Spec == Init /\ [][Next]_ledgerVars
=============================================================================
