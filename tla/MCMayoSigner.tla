---------------------------- MODULE MCMayoSigner ----------------------------
(* Bounds for TLC: three equations in two vinegar and two oil variables, three
   blocks, f(z) = z^3 + z^2 + z + x^3 (the tail of MAYO1).  Key material is
   spread over the field by a formula; zero vinegar values give singular
   systems, hence retries. *)
EXTENDS MayoSigner

Spread(id, n) == (7 * id + 5 * n + 3 * id * n * n + n * n) % 16

Fill(id, salt, rows, cols) ==
  [i \in Indices(rows) |-> [j \in Indices(cols) |-> Spread(id, salt + 3 * i + j)]]

MCFTail == [d \in 0 .. 2 |-> IF d = 0 THEN 8 ELSE 1]

MCKeyMaterial ==
  {[o |-> Fill(id, 1, V, O),
    p1 |-> [a \in Equations |->
              [i \in Indices(V) |-> [j \in Indices(V) |->
                 IF i <= j THEN Spread(id, 11 * a + 4 * i + j) ELSE 0]]],
    p2 |-> [a \in Equations |-> Fill(id, 6 + 13 * a, V, O)]] : id \in 1 .. 3}

MCTargets == {[a \in Equations |-> (t + 6 * a) % 16] : t \in {0, 9}}
MCVinegars ==
  [Blocks -> [Indices(V) -> {0, 5}]]
MCRandoms == {[c \in Indices(K * O) |-> 0], [c \in Indices(K * O) |-> 3 + c]}
=============================================================================
