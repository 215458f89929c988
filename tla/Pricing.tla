------------------------------ MODULE Pricing ------------------------------
(***************************************************************************)
(* What a turn costs (internal/domain/usage/pricing.go; the collector has  *)
(* a copy for its own estimate).  A model name is the set of the fragments *)
(* the code looks for in it; amounts are in hundredths of a millionth of a *)
(* dollar, so that every rate is a whole number.                           *)
(***************************************************************************)
EXTENDS Naturals

rate(input, output, write, read) ==
  [input |-> input, output |-> output, write |-> write, read |-> read]

pricingTable ==
  [fable        |-> rate(1000, 5000, 1250, 100),
   opus         |-> rate(500, 2500, 625, 50),
   opus_legacy  |-> rate(1500, 7500, 1875, 150),
   sonnet       |-> rate(300, 1500, 375, 30),
   haiku        |-> rate(100, 500, 125, 10),
   haiku_legacy |-> rate(80, 400, 100, 8)]

Contains(model, fragments) == model \cap fragments # {}

(* A later version of a family has the newer price; what is not recognised *)
(* is priced like sonnet.                                                  *)
modelFamily(model) ==
  IF Contains(model, {"fable", "mythos"}) THEN "fable"
  ELSE IF "opus" \in model THEN
    IF /\ Contains(model, {"4-0", "4-1", "4.0", "4.1"})
       /\ ~Contains(model, {"4-5", "4-6", "4-7", "4-8", "4.5", "4.6", "4.7", "4.8"})
      THEN "opus_legacy" ELSE "opus"
  ELSE IF "sonnet" \in model THEN "sonnet"
  ELSE IF "haiku" \in model THEN
    IF Contains(model, {"3-5", "3.5"}) THEN "haiku_legacy" ELSE "haiku"
  ELSE IF "synthetic" \in model THEN "haiku"
  ELSE "sonnet"

(* A family the table does not list has the zero rate. *)
RateOf(model) ==
  IF modelFamily(model) \in DOMAIN pricingTable
    THEN pricingTable[modelFamily(model)] ELSE rate(0, 0, 0, 0)

CostForUsage(model, u) ==
  LET r == RateOf(model)
  IN u.input * r.input + u.output * r.output + u.read * r.read + u.write * r.write

tokensFor(u) == u.input + u.output + u.read + u.write
=============================================================================
