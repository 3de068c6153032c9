---------------------------- MODULE LinearSolver ----------------------------
(***************************************************************************)
(* sample_solution of mayo/src/mat.rs: Gauss-Jordan elimination on a fixed *)
(* schedule.  Rows are never swapped: a target row whose pivot is zero is  *)
(* replaced by its sum with the first usable row below, and the ordinary   *)
(* elimination moves the old target into that row.                         *)
(*                                                                         *)
(* A matrix is a function of rows of functions, indexed from 0.            *)
(***************************************************************************)
EXTENDS GF16

Height(a) == Cardinality(DOMAIN a)
Width(a) == Cardinality(DOMAIN a[0])

MulVec(a, x) ==
  [i \in DOMAIN a |-> GFSum(Cardinality(DOMAIN x), LAMBDA c : a[i][c] ** x[c])]

(* x <- r, y <- y - A r: the augmented matrix and no pivots yet. *)
Augmented(a, y, r) ==
  [aug |-> [i \in DOMAIN a |->
              [c \in 0 .. Width(a) |->
                 IF c < Width(a) THEN a[i][c] ELSE y[i] ++ MulVec(a, r)[i]]],
   pivotRow |-> 0,
   pivotRows |-> [c \in Indices(Width(a)) |-> 0],
   isPivot |-> [c \in Indices(Width(a)) |-> FALSE]]

(* Rows at or below the target with a usable pivot. *)
Usable(s, column) ==
  {i \in DOMAIN s.aug : i >= s.pivotRow /\ s.aug[i][column] # 0}

(* Mutant: the lower row replaces the target, which is lost. *)
SelectedSourceOnly(s, column) == s.aug[Min(Usable(s, column))]

(* The target row, plus the first usable row when that is a lower one. *)
Selected(s, column) ==
  LET source == Min(Usable(s, column))
  IN [c \in DOMAIN s.aug[0] |->
        IF source = s.pivotRow THEN s.aug[source][c]
        ELSE s.aug[s.pivotRow][c] ++ s.aug[source][c]]

Normalized(s, column) ==
  LET selected == Selected(s, column)
  IN [c \in DOMAIN selected |-> Inv(selected[column]) ** selected[c]]

(* The normalised row is written at the target, then every other row is
   cleared in the pivot column. *)
Eliminated(s, column) ==
  LET pivot == Normalized(s, column)
  IN [i \in DOMAIN s.aug |->
        IF i = s.pivotRow THEN pivot
        ELSE [c \in DOMAIN pivot |-> s.aug[i][c] ++ (s.aug[i][column] ** pivot[c])]]

(* One column.  Without a usable row all masks are zero. *)
PivotStep(s, column) ==
  LET found == Usable(s, column) # {}
  IN [aug |-> IF found THEN Eliminated(s, column) ELSE s.aug,
      pivotRow |-> IF found THEN s.pivotRow + 1 ELSE s.pivotRow,
      pivotRows |-> [s.pivotRows EXCEPT ![column] = s.pivotRow],
      isPivot |-> [s.isPivot EXCEPT ![column] = found]]

FullRank(s) == s.pivotRow = Height(s.aug)

(* Free variables keep r, pivot variables add the right-hand side. *)
Solution(s, r) ==
  [c \in DOMAIN r |->
     IF s.isPivot[c] THEN r[c] ++ s.aug[s.pivotRows[c]][Width(s.aug) - 1] ELSE r[c]]

None == <<>>

SampleSolution(a, y, r) ==
  LET after[column \in 0 .. Width(a)] ==
        IF column = 0 THEN Augmented(a, y, r)
        ELSE PivotStep(after[column - 1], column - 1)
      s == after[Width(a)]
  IN IF FullRank(s) THEN Solution(s, r) ELSE None
=============================================================================
