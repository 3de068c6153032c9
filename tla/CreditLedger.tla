---------------------------- MODULE CreditLedger ----------------------------
(***************************************************************************)
(* What VOLE-ACT credits promise as money (DESIGN.md 2.2): value enters    *)
(* only by authorised issuance, a lineage is spent at most once, and a     *)
(* spend turns the whole value of one lineage into redeemed value plus the *)
(* value of one fresh lineage, exactly.                                    *)
(***************************************************************************)
EXTENDS Integers

CONSTANTS
  Lineages,     (* Credential openings; one nullifier each.                 *)
  Largest       (* The largest amount, U64Max of the protocol.              *)

Amounts == 0 .. Largest

VARIABLES
  worth,        (* Value of each lineage: Unborn, an amount, or Spent.      *)
  redeemed      (* Total value handed over to the application.              *)

vars == <<worth, redeemed>>

Unborn == -1
Spent == -2

Init ==
  /\ worth = [l \in Lineages |-> Unborn]
  /\ redeemed = 0

IsLive(l) == worth[l] \in Amounts
IsUnborn(l) == worth[l] = Unborn

(* The application authorises value v on a new lineage. *)
Mint(l, v) ==
  /\ worth' = [worth EXCEPT ![l] = v]
  /\ UNCHANGED redeemed

(* Lineage l is spent: s leaves it, t of that is returned, and the change
   lives on the fresh lineage f. *)
Settle(l, f, s, t) ==
  /\ worth' = [worth EXCEPT ![l] = Spent, ![f] = worth[l] - s + t]
  /\ redeemed' = redeemed + (s - t)

(* Exactly one lineage is born in a step. *)
Born(f) == IsUnborn(f) /\ worth'[f] # Unborn

Next ==
  \E f \in Lineages :
    /\ Born(f)
    /\ \/ \E v \in Amounts : Mint(f, v)
       \/ \E l \in {live \in Lineages : IsLive(live)} :
            \E s \in 0 .. worth[l] : \E t \in 0 .. s : Settle(l, f, s, t)

Spec == Init /\ [][Next]_vars
=============================================================================
