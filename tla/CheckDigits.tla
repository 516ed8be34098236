---------------------------- MODULE CheckDigits ----------------------------
(***************************************************************************)
(* The check digits of package veiculobr (RENAVAM, CPF and CNPJ), which    *)
(* package certa1 calculates again for the CNPJ of a certificate.  A       *)
(* character is its ASCII code less that of '0', the value it has in these *)
(* calculations: 0..9 are the digits and 17..42 the letters.  The sums are *)
(* written out, so that a proof can look at one position.                  *)
(***************************************************************************)
EXTENDS Integers, Sequences

Digits == 0..9

\* Two of the check digits are 11 less the remainder, or 0 for 10 and 11.
complement(r) == IF r < 2 THEN 0 ELSE 11 - r

\* The sums of the first n = 10, 9, 10, 12 and 13 characters with their weights.
SomaRenavam(v) ==
    3 * v[1] + 2 * v[2] + 9 * v[3] + 8 * v[4] + 7 * v[5]
    + 6 * v[6] + 5 * v[7] + 4 * v[8] + 3 * v[9] + 2 * v[10]

SomaCPF1(v) ==
    10 * v[1] + 9 * v[2] + 8 * v[3] + 7 * v[4] + 6 * v[5]
    + 5 * v[6] + 4 * v[7] + 3 * v[8] + 2 * v[9]

SomaCPF2(v) ==
    11 * v[1] + 10 * v[2] + 9 * v[3] + 8 * v[4] + 7 * v[5]
    + 6 * v[6] + 5 * v[7] + 4 * v[8] + 3 * v[9] + 2 * v[10]

\* Of a CNPJ, the eight characters of the root and the four of the order.
SomaCNPJ1(v) ==
    (5 * v[1] + 4 * v[2] + 3 * v[3] + 2 * v[4]
     + 9 * v[5] + 8 * v[6] + 7 * v[7] + 6 * v[8])
    + (5 * v[9] + 4 * v[10] + 3 * v[11] + 2 * v[12])

SomaCNPJ2(v) ==
    (6 * v[1] + 5 * v[2] + 4 * v[3] + 3 * v[4]
     + 2 * v[5] + 9 * v[6] + 8 * v[7] + 7 * v[8])
    + (6 * v[9] + 5 * v[10] + 4 * v[11] + 3 * v[12] + 2 * v[13])

dvRenavam(v) ==
    LET dv == (SomaRenavam(v) * 10) % 11
    IN  IF dv >= 10 THEN 0 ELSE dv

\* The two digits of a CPF agree with the calculation.
dvCPF(v) ==
    /\ v[10] = complement(SomaCPF1(v) % 11)
    /\ v[11] = complement(SomaCPF2(v) % 11)

dvCNPJ(v) ==
    /\ v[13] = complement(SomaCNPJ1(v) % 11)
    /\ v[14] = complement(SomaCNPJ2(v) % 11)

todosIguais(v) == \A i \in DOMAIN v : v[i] = v[1]
=============================================================================
