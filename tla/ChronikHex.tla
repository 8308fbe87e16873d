------------------------------ MODULE ChronikHex ------------------------------
(***************************************************************************)
(* The hex helpers the chronik client imports from ./hex (not in src/,     *)
(* modelled from spec.md 6, spec_modelled): toHex writes each byte as two  *)
(* hex digits, high nibble first, in byte order; toHexRev does so for the  *)
(* bytes reversed, the "display order" of hashes; fromHex and fromHexRev  *)
(* read such strings back.  A hex string is the sequence of its digit     *)
(* values 0..15, a byte string the sequence of its byte values.           *)
(*                                                                         *)
(* The module declares no recursion, so facts about the helpers can be    *)
(* proved for byte strings of every length (ChronikHexProofs).            *)
(***************************************************************************)
EXTENDS Naturals, Sequences

Bytes == 0..255

HexDigits == 0..15

\* The bytes of b in reverse order.
Reversed(b) == [i \in 1..Len(b) |-> b[Len(b) + 1 - i]]

ToHex(b) == [i \in 1..2 * Len(b) |->
                IF i % 2 = 1 THEN b[(i + 1) \div 2] \div 16 ELSE b[i \div 2] % 16]

ToHexRev(b) == ToHex(Reversed(b))

FromHex(h) == [i \in 1..Len(h) \div 2 |-> 16 * h[2 * i - 1] + h[2 * i]]

FromHexRev(h) == Reversed(FromHex(h))

=============================================================================
