--------------------------- MODULE MCSpendCircuit ---------------------------
(* A key with three equations, an odd number, in four variables.  The last
   variable multiplies the others, so a preimage consists of roots of three
   quadratic equations; with a zero there, each equation is a square and has
   one.  Some pairs of variables have no term. *)
EXTENDS SpendCircuit

Factor == <<7, 0, 9>>
MCForms ==
  [i \in 1 .. 3 |-> [r \in 0 .. 3 |-> [c \in 0 .. 3 |->
     IF r = i - 1 /\ c = r THEN 1 ELSE IF r = i - 1 /\ c = 3 THEN Factor[i] ELSE 0]]]

Vinegars == {0, 1, 3, 8}
Roots ==
  [i \in 1 .. 3 |-> [v \in Vinegars |-> [t \in GF |->
     {x \in GF : (x ** x) ++ (Factor[i] ** (x ** v)) = t}]]]
MCSign(t) ==
  LET v == Max({w \in Vinegars : \A i \in 1 .. 3 : Roots[i][w][t[i]] # {}})
  IN  [i \in 1 .. 4 |-> IF i = 4 THEN v ELSE Min(Roots[i][v][t[i]])]

(* A hash that mixes the bits, modulo primes. *)
MCShake(m, n) ==
  LET Number(prime, start) ==
        FoldLeft(LAMBDA x, b : (x * 2 + b + 1) % prime, start, m.bits)
      start == IF m.domain = "CRED_DOMAIN" THEN 17 ELSE 1001
      one == Number(4093, start)
      two == Number(3583, start + 5)
      mixed == [i \in 1 .. 24 |->
                  IF i <= 12 THEN ((one * one + 3 * two) \div 2 ^ (i - 1)) % 2
                  ELSE ((two * two + one) \div 2 ^ (i - 11)) % 2]
  IN  SubSeq(mixed, 1, n)

MCSecrets == {<<0>>, <<1>>}

(* Draws that tell key from nonce, the two openings, and the salt. *)
Draw(key, nonce, freshKey, freshNonce, s) ==
  [opening |-> [key |-> <<key>>, nonce |-> <<nonce>>],
   fresh |-> [key |-> <<freshKey>>, nonce |-> <<freshNonce>>], salt |-> <<s>>]
MCDraws == {Draw(0, 1, 1, 0, 1), Draw(1, 0, 0, 1, 0), Draw(0, 0, 1, 1, 0), Draw(1, 1, 0, 1, 1)}
=============================================================================
