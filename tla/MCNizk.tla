------------------------------- MODULE MCNizk -------------------------------
(* A bounded instance of Nizk: lambda = 4 and expressions of degree up to 3. *)
EXTENDS Nizk, TLC

Geometry(tau, k) == [tau |-> tau, k |-> k]
MCGeometries == {Geometry(2, 2), Geometry(4, 1), Geometry(3, 2)}

Call(op, a, b) == [op |-> op, a |-> a, b |-> b]
Bit == Call("witness_bit", 0, 0)

(* One bit asserted zero; the product of two bits; a cube, with a sum on the
   way; a multiplication gate; a product that is too high and never asserted;
   no witness at all. *)
MCCircuits ==
  { << Bit, Call("assert_expr_zero", 1, 0) >>,
    << Bit, Bit, Call("expr_mul", 1, 2), Call("assert_expr_zero", 3, 0) >>,
    << Bit, Call("expr_mul", 1, 1), Call("expr_add", 1, 2), Call("expr_mul", 1, 3),
       Call("assert_expr_zero", 4, 0) >>,
    << Bit, Call("assert_mul", 1, 1) >>,
    << Bit, Call("expr_mul", 1, 1), Call("expr_mul", 2, 2), Call("assert_expr_zero", 1, 0) >>,
    << >> }

MCSymmetry == Permutations(Publics)
=============================================================================
