--------------------------- MODULE BalanceCircuit ---------------------------
(***************************************************************************)
(* The balance part of the spend circuit (vole-act/src/circuit.rs): two    *)
(* ripple-carry additions over wires,                                      *)
(*                                                                         *)
(*     base + topup = effective = fresh + spend,                           *)
(*                                                                         *)
(* whose carries are wires of the witness too.  The wires are read bit by  *)
(* bit, and any bit may be on any wire; SpendCircuit says what an honest   *)
(* prover puts there.  The order of the assertions does not matter to      *)
(* acceptance, so those about a bit are one step.                          *)
(***************************************************************************)
EXTENDS Integers

CONSTANT BALANCE_BITS   (* 64 in the code.                                 *)

ASSUME BitsAssumption == BALANCE_BITS \in Nat \ {0}

Bit == {0, 1}
Kinds == {"direct", "token"}
Values == {"base", "topup", "effective", "fresh", "spend"}
Carries == {"old", "new"}
Wires == Values \cup Carries

VARIABLES
  kind,         (* Direct credential or signed token.                       *)
  bit, weight,  (* Bits read, and 2^bit.                                    *)
  value,        (* The numbers that the bits read so far stand for.         *)
  carry,        (* The carry wires read last.                               *)
  outcome       (* "open", "accepted" or "rejected".                        *)

vars == <<kind, bit, weight, value, carry, outcome>>

Init ==
  /\ kind \in Kinds
  /\ bit = 0
  /\ weight = 1
  /\ value = [v \in Values |-> 0]
  /\ carry = [c \in Carries |-> 0]
  /\ outcome = "open"

(* (a & b) | (carry & (a ^ b)). *)
WitnessCarry(a, b, in) ==
  IF (a = 1 /\ b = 1) \/ (in = 1 /\ a # b) THEN 1 ELSE 0

(* assert_u64_sum for one bit, over GF(2). *)
SumHolds(a, b, in, sum, out) ==
  /\ (a + b + in + sum) % 2 = 0
  /\ (a * b + in * a + in * b + out) % 2 = 0

BitHolds(w) ==
  /\ kind = "direct" => w["topup"] = 0
  /\ SumHolds(w["base"], w["topup"], carry["old"], w["effective"], w["old"])
  /\ SumHolds(w["fresh"], w["spend"], carry["new"], w["effective"], w["new"])

MoreBits == bit < BALANCE_BITS

ReadBit(w) ==
  /\ outcome = "open" /\ MoreBits
  /\ IF BitHolds(w)
     THEN /\ value' = [v \in Values |-> value[v] + weight * w[v]]
          /\ carry' = [c \in Carries |-> w[c]]
          /\ bit' = bit + 1
          /\ weight' = 2 * weight
          /\ UNCHANGED <<kind, outcome>>
     ELSE /\ outcome' = "rejected"
          /\ UNCHANGED <<kind, bit, weight, value, carry>>

(* Mutant: only the first addition asserts its final carry. *)
OldCarryZero(c) == c["old"] = 0

FinalCarriesZero(c) == c["old"] = 0 /\ c["new"] = 0

Finish ==
  /\ outcome = "open" /\ bit = BALANCE_BITS
  /\ outcome' = IF FinalCarriesZero(carry) THEN "accepted" ELSE "rejected"
  /\ UNCHANGED <<kind, bit, weight, value, carry>>

Next == (\E w \in [Wires -> Bit] : ReadBit(w)) \/ Finish

Spec == Init /\ [][Next]_vars
-----------------------------------------------------------------------------
(* Whatever bits a prover puts on the wires, an accepted spend neither
   creates nor destroys credits: both additions hold as additions of
   unsigned integers that do not wrap, and a direct credential has no top-up
   (circuit.rs, "exact unsigned integer additions with a zero final
   carry"). *)
AcceptedBalances ==
  outcome = "accepted" =>
    /\ value["base"] + value["topup"] = value["effective"]
    /\ value["fresh"] + value["spend"] = value["effective"]
    /\ kind = "direct" => value["topup"] = 0
=============================================================================
