---------------------------- MODULE SolverSteps -----------------------------
(***************************************************************************)
(* sample_solution column by column, for every small system.               *)
(***************************************************************************)
EXTENDS LinearSolver

CONSTANTS
  Equations, Unknowns, (* Shape of the system.                                     *)
  Matrices,     (* The matrices to solve with.                              *)
  Probes,       (* Corrections that SameSolutions tries.                    *)
  RightSides,   (* Right-hand sides.                                        *)
  Randoms       (* Values of the random vector r.                           *)

VARIABLES a, y, r, s, column

solverVars == <<a, y, r, s, column>>

SolverInit ==
  /\ a \in Matrices
  /\ y \in RightSides
  /\ r \in Randoms
  /\ s = Augmented(a, y, r)
  /\ column = 0

Pivot ==
  /\ column < Unknowns
  /\ s' = PivotStep(s, column)
  /\ column' = column + 1
  /\ UNCHANGED <<a, y, r>>

SolverNext == Pivot

SolverSpec == SolverInit /\ [][SolverNext]_solverVars

Result == IF FullRank(s) THEN Solution(s, r) ELSE None
-----------------------------------------------------------------------------
(* After any number of columns the matrix is in reduced echelon form up to
   there: a pivot column is a unit vector at its own pivot row, pivot rows
   are distinct and without gaps, and a column without a pivot is zero from
   the next target row on (mat.rs sample_solution, the replacement of row
   swaps by additions). *)
ReducedEchelon ==
  LET pivots == {c \in Indices(column) : s.isPivot[c]}
  IN /\ s.pivotRow = Cardinality(pivots)
     /\ {s.pivotRows[c] : c \in pivots} = Indices(s.pivotRow)
     /\ \A c \in pivots, i \in Indices(Equations) :
          s.aug[i][c] = IF i = s.pivotRows[c] THEN 1 ELSE 0
     /\ \A c \in Indices(column) \ pivots, i \in s.pivotRow .. Equations - 1 :
          s.aug[i][c] = 0

(* No solution is lost or gained by the additions that replace swaps: a
   correction solves the original residual system iff it solves the current
   one. *)
SameSolutions ==
  LET start == Augmented(a, y, r).aug
      Solves(aug, x) ==
        \A i \in Indices(Equations) :
          GFSum(Unknowns, LAMBDA c : aug[i][c] ** x[c]) = aug[i][Unknowns]
  IN \A x \in Probes : Solves(start, x) <=> Solves(s.aug, x)

(* The result solves the system, and there is none exactly when some
   row is a combination of the later ones (the documented None). *)
SolvesOrDeficient ==
  column = Unknowns =>
    LET DependsOnLater(i) ==
          \E w \in [Indices(Equations - 1 - i) -> GF] : \A c \in Indices(Unknowns) :
            a[i][c] = GFSum(Equations - 1 - i, LAMBDA k : w[k] ** a[i + 1 + k][c])
        deficient == \E i \in Indices(Equations) : DependsOnLater(i)
    IN IF Result = None THEN deficient
       ELSE ~deficient /\ MulVec(a, Result) = y
=============================================================================
