---------------------------- MODULE KeccakCircuit ---------------------------
(***************************************************************************)
(* SHAKE256 of one rate block twice: natively on lanes (keccak.rs), which  *)
(* also makes the witness, and as the bit-level circuit that is proved     *)
(* (circuit.rs), which commits to the state after every fourth round only. *)
(*                                                                         *)
(* A lane is the set of its bit positions, a state a function of 25 lanes; *)
(* the circuit's state is the set of its positions 64(x + 5y) + z.         *)
(***************************************************************************)
EXTENDS Integers, Sequences, FiniteSetsExt

CONSTANTS
  M,            (* Nibbles of a target: the output starts with them.        *)
  Messages,     (* Records of bytes and the bits set in them.               *)
  Flips         (* Positions in the witness that a prover may flip.         *)

RATE_BYTES == 136
ROUNDS == 24
Lane == 0 .. 24
Z == 0 .. 63
StateBits == 0 .. 1599
Xor(a, b) == SymDiff(a, b)

ASSUME OutputAssumption == M \in Nat /\ 4 * M + 256 <= 8 * RATE_BYTES
ASSUME MessagesAssumption ==
  \A m \in Messages : m.bytes \in 0 .. RATE_BYTES - 1 /\ m.bits \subseteq 0 .. 8 * m.bytes - 1
ASSUME FlipsAssumption == Flips \subseteq (1 .. 6) \X StateBits

RC == <<{0}, {1, 7, 15}, {1, 3, 7, 15, 63}, {15, 31, 63}, {0, 1, 3, 7, 15},
  {0, 31}, {0, 7, 15, 31, 63}, {0, 3, 15, 63}, {1, 3, 7}, {3, 7},
  {0, 3, 15, 31}, {1, 3, 31}, {0, 1, 3, 7, 15, 31}, {0, 1, 3, 7, 63},
  {0, 3, 7, 15, 63}, {0, 1, 15, 63}, {1, 15, 63}, {7, 63}, {1, 3, 15},
  {1, 3, 31, 63}, {0, 7, 15, 31, 63}, {7, 15, 63}, {0, 31}, {3, 15, 31, 63}>>

RHO == <<0, 1, 62, 28, 27, 36, 44, 6, 55, 20, 3, 10, 43, 25, 39,
         41, 45, 15, 21, 8, 18, 2, 61, 56, 14>>

VARIABLES
  message,      (* The absorbed message.                                    *)
  flip,         (* The witness position that is flipped, or None.           *)
  native,       (* The native state.                                        *)
  witness,      (* Checkpoints so far, each the positions set in it.        *)
  inCircuit,    (* Is the witness complete and the circuit being built?     *)
  round,        (* Rounds done, natively and then in the circuit.           *)
  state,        (* The circuit's state, empty while the witness is made.    *)
  failed        (* Did an assertion about a checkpoint fail?                *)

vars == <<message, flip, native, witness, inCircuit, round, state, failed>>

None == <<>>
-----------------------------------------------------------------------------
(* keccak.rs *)

Padded(m) ==
  {8 * m.bytes + i : i \in 0 .. 4} \cup {8 * RATE_BYTES - 1}
Absorbed(m) ==
  LET block == m.bits \cup Padded(m)
  IN [l \in Lane |-> {z \in Z : 64 * l + z \in block}]

RotateLeft(lane, n) == {(z + n) % 64 : z \in lane}

Round(a, rc) ==
  LET c == [x \in 0 .. 4 |-> Xor(a[x], Xor(a[x + 5], Xor(a[x + 10], Xor(a[x + 15], a[x + 20]))))]
      d == [x \in 0 .. 4 |-> Xor(c[(x + 4) % 5], RotateLeft(c[(x + 1) % 5], 1))]
      b == [l \in Lane |-> RotateLeft(Xor(a[l], d[l % 5]), RHO[l + 1])]
      p == [l \in Lane |->
              b[CHOOSE s \in Lane : s \div 5 = l % 5
                  /\ (2 * (s % 5) + 3 * (s \div 5)) % 5 = l \div 5]]
      right(l, n) == ((l + n) % 5) + 5 * (l \div 5)
      out(l) == Xor(p[l], p[right(l, 2)] \ p[right(l, 1)])
  IN [l \in Lane |-> IF l = 0 THEN Xor(out(0), rc) ELSE out(l)]

StateBit(a, i) == i % 64 \in a[i \div 64]
Squeezed(a) == {i \in 0 .. 8 * RATE_BYTES - 1 : StateBit(a, i)}

(* credential_target and derive_nullifier: nibbles of the output, then 256
   bits after them, read from bytes. *)
Target(output) ==
  [i \in 0 .. M - 1 |-> {e \in 0 .. 3 : 8 * (i \div 2) + 4 * (i % 2) + e \in output}]

(* Mutant: the nullifier overlaps the target. *)
NullifierFromStart(output) == {bit \in 0 .. 255 : bit \in output}

Nullifier(output) == {bit \in 0 .. 255 : 4 * M + bit \in output}
-----------------------------------------------------------------------------
(* circuit.rs *)

InitialSpongeState(m) ==
  m.bits \cup {8 * m.bytes + i : i \in 0 .. 4} \cup {8 * RATE_BYTES - 1}

Parity(S) == Cardinality(S) % 2 = 1

Theta(s) ==
  LET column == {i \in 0 .. 319 : Parity({y \in 0 .. 4 : i + 320 * y \in s})}
      left(l, z) == 64 * (((l % 5) + 4) % 5) + z
      right(l, z) == 64 * (((l % 5) + 1) % 5) + ((z + 63) % 64)
  IN {i \in StateBits :
        LET l == i \div 64
            z == i % 64
        IN Parity({t \in 1 .. 3 : \/ t = 1 /\ i \in s
                                  \/ t = 2 /\ left(l, z) \in column
                                  \/ t = 3 /\ right(l, z) \in column})}

PiLane(l) == l \div 5 + 5 * ((2 * (l % 5) + 3 * (l \div 5)) % 5)

(* Mutant: lanes are rotated in the other direction. *)
PiRhoIndexReversed ==
  [i \in StateBits |->
     LET l == CHOOSE s \in Lane : PiLane(s) = i \div 64
     IN 64 * l + (((i % 64) + RHO[l + 1]) % 64)]

PiRhoIndex ==
  [i \in StateBits |->
     LET l == CHOOSE s \in Lane : PiLane(s) = i \div 64
     IN 64 * l + (((i % 64) + 64 - RHO[l + 1]) % 64)]

RoundExpr(s, rc) ==
  LET theta == Theta(s)
      At(x, y, z) == PiRhoIndex[64 * ((x % 5) + 5 * y) + z] \in theta
  IN {i \in StateBits :
        LET x == (i \div 64) % 5
            y == i \div 320
            z == i % 64
            chi == At(x, y, z) # (~At(x + 1, y, z) /\ At(x + 2, y, z))
        IN chi # (i < 64 /\ z \in rc)}

(* The output wires that the rest of the circuit reads. *)
HiddenTarget(s) == [i \in 0 .. M - 1 |-> {e \in 0 .. 3 : 4 * i + e \in s}]
HiddenNullifier(s) == {bit \in 0 .. 255 : 4 * M + bit \in s}
-----------------------------------------------------------------------------
Init ==
  /\ message \in Messages
  /\ flip \in {None} \cup Flips
  /\ native = Absorbed(message)
  /\ witness = <<>>
  /\ inCircuit = FALSE
  /\ round = 0
  /\ state = {}
  /\ failed = FALSE

(* n rounds are done. *)
IsCheckpoint(n) == n % 4 = 0

(* append_keccak_checkpoints; a prover may put another bit on a wire. *)
WitnessRound ==
  /\ ~inCircuit /\ round < ROUNDS
  /\ native' = Round(native, RC[round + 1])
  /\ round' = round + 1
  /\ witness' =
       IF IsCheckpoint(round')
       THEN LET bits == {i \in StateBits : StateBit(native', i)}
                flipped == {p[2] : p \in {p \in {flip} : p # None /\ p[1] = Len(witness) + 1}}
            IN Append(witness, Xor(bits, flipped))
       ELSE witness
  /\ UNCHANGED <<message, flip, inCircuit, state, failed>>

StartCircuit ==
  /\ ~inCircuit /\ round = ROUNDS
  /\ inCircuit' = TRUE
  /\ state' = InitialSpongeState(message)
  /\ round' = 0
  /\ UNCHANGED <<message, flip, native, witness, failed>>

Differs(expression, committed) == expression # committed

(* shake_degree16: four rounds of expressions, compared with the committed
   wires, from which the next group goes on. *)
CircuitRound ==
  /\ inCircuit /\ round < ROUNDS
  /\ round' = round + 1
  /\ LET expression == RoundExpr(state, RC[round + 1])
         committed == witness[(round + 1) \div 4]
     IN IF (round + 1) % 4 = 0
        THEN state' = committed /\ failed' = (failed \/ Differs(expression, committed))
        ELSE state' = expression /\ UNCHANGED failed
  /\ UNCHANGED <<message, flip, native, witness, inCircuit>>

Next == WitnessRound \/ StartCircuit \/ CircuitRound

Spec == Init /\ [][Next]_vars
-----------------------------------------------------------------------------
CircuitDone == inCircuit /\ round = ROUNDS

(* The checkpoint assertions decide: the honest witness satisfies each of
   them, so the circuit's index arithmetic for theta, rho, pi, chi and iota is
   the native round and groups and checkpoints line up, and a witness with
   one wrong bit fails, in whichever group the bit is (circuit.rs
   shake_degree16). *)
CheckpointsDecide ==
  /\ flip = None => ~failed
  /\ CircuitDone /\ flip # None => failed

(* When no assertion failed, the target nibbles and the nullifier bits that
   the circuit goes on with are those that the client computed outside
   (circuit.rs credential_target, derive_nullifier). *)
OutputsAgree ==
  CircuitDone /\ ~failed =>
    /\ HiddenTarget(state) = Target(Squeezed(native))
    /\ HiddenNullifier(state) = Nullifier(Squeezed(native))
=============================================================================
