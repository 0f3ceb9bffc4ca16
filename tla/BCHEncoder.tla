----------------------------- MODULE BCHEncoder -----------------------------
(* The code that protects a word of a page (BCHEncoder.cpp): 21 data bits get *)
(* ten check bits and one for even parity.                                    *)
(*                                                                            *)
(* A polynomial with coefficients 0 and 1, and so a word, a row of bits and   *)
(* an element of the field GF(2^5), is the set of the exponents, or of the    *)
(* bit numbers, where it is 1; "exclusive or" is the symmetric difference.    *)
EXTENDS Integers, FiniteSets, SequencesExt

m == 5
n == 31
k == 21
d == 5
p == {0, 2, 5}                    \* x^5 + x^2 + 1

Xor(a, b) == (a \ b) \cup (b \ a)

-----------------------------------------------------------------------------
(* The field, and the generator polynomial: the product of all (X + alpha^z)  *)
(* with z in the cycle of one of 1..d-1, where a cycle is closed under        *)
(* doubling.                                                                  *)

alpha_to ==
  LET Shift(a) == {e + 1 : e \in a}
      Double(a) == IF m \in Shift(a) THEN Xor(Shift(a), p) ELSE Shift(a)
      power[i \in 0..n - 1] == IF i = 0 THEN {0} ELSE Double(power[i - 1])
  IN power

index_of == [a \in (SUBSET (0..m - 1)) \ {{}} |-> CHOOSE i \in 0..n - 1 : alpha_to[i] = a]

\* alpha^z times a field element.
Times(z, a) == IF a = {} THEN {} ELSE alpha_to[(index_of[a] + z) % n]

cycle(z) == LET double[s \in 0..m - 1] == IF s = 0 THEN z ELSE (2 * double[s - 1]) % n
            IN {double[s] : s \in 0..m - 1}
zeros == UNION {cycle(root) : root \in 1..d - 1}

\* The coefficients of f * (X + alpha^z).
ByRoot(z, f) ==
  [i \in 0..n - k |-> Xor(Times(z, f[i]), IF i = 0 THEN {} ELSE f[i - 1])]

g == LET one == [i \in 0..n - k |-> IF i = 0 THEN {0} ELSE {}]
         product == FoldSet(ByRoot, one, zeros)
     IN {i \in 0..n - k : product[i] # {}}

-----------------------------------------------------------------------------
(* One word.                                                                  *)

\* Long division of the data, highest power first, by g; the rest is what stays
\* in the last ten places.
NoCarry(data) == {}               \* mutant: the check bits are not computed
Remainder(data) ==
  LET Step(start, Mr) ==
        IF start \in Mr THEN Xor(Mr, {start + (n - k) - j : j \in g}) ELSE Mr
  IN FoldLeft(LAMBDA Mr, i : Step(i - 1, Mr), data, [i \in 1..k |-> i])

\* The data as the bits 31 to 11 of a word.
SetData(word) == {31 - i : i \in word \cap 11..31}

GetEncodedData(word) ==
  LET data == SetData(word)
      recd == {31 - i : i \in data} \cup {31 - i : i \in Remainder(data)}
  IN IF Cardinality(recd) % 2 = 0 THEN recd ELSE recd \cup {0}

-----------------------------------------------------------------------------
(* What a receiver may count on.                                              *)

\* The value of a word at alpha^z, its parity bit left out: bit i stands for the
\* power i - 1.
ValueAt(word, z) ==
  FoldSet(LAMBDA i, sum : Xor(sum, alpha_to[((i - 1) * z) % n]), {}, word \ {0})

IsCodeword(word) ==
  Cardinality(word) % 2 = 0 /\ \A root \in 1..d - 1 : ValueAt(word, root) = {}
=============================================================================
