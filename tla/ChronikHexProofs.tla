--------------------------- MODULE ChronikHexProofs ---------------------------
(***************************************************************************)
(* Facts about the hex helpers for byte strings of every length: what the *)
(* validateUtxos request and the display of hashes rely on.               *)
(***************************************************************************)
EXTENDS ChronikHex, SequenceTheorems, TLAPS

\* A byte is two hex digits, its high and its low nibble.
LEMMA NibbleSplit ==
  ASSUME NEW x \in Bytes
  PROVE  /\ x \div 16 \in HexDigits
         /\ x % 16 \in HexDigits
         /\ 16 * (x \div 16) + (x % 16) = x
BY DEF Bytes, HexDigits

\* Halving an even length.
LEMMA HalfOfDouble ==
  ASSUME NEW n \in Nat
  PROVE  (2 * n) \div 2 = n
OBVIOUS

\* toHex(b): two digits per byte, the high nibble at 2i-1, the low at 2i.
LEMMA ToHexShape ==
  ASSUME NEW b \in Seq(Bytes)
  PROVE  /\ ToHex(b) \in Seq(HexDigits)
         /\ Len(ToHex(b)) = 2 * Len(b)
         /\ \A i \in 1..Len(b) : /\ ToHex(b)[2 * i - 1] = b[i] \div 16
                                 /\ ToHex(b)[2 * i] = b[i] % 16
<1>1. Len(b) \in Nat /\ \A i \in 1..Len(b) : b[i] \in Bytes
  BY LenProperties
<1>2. \A i \in 1..2 * Len(b) :
        (IF i % 2 = 1 THEN b[(i + 1) \div 2] \div 16 ELSE b[i \div 2] % 16)
          \in HexDigits
  <2> SUFFICES ASSUME NEW i \in 1..2 * Len(b)
               PROVE  (IF i % 2 = 1 THEN b[(i + 1) \div 2] \div 16
                                   ELSE b[i \div 2] % 16) \in HexDigits
    OBVIOUS
  <2>1. CASE i % 2 = 1
    <3>1. (i + 1) \div 2 \in 1..Len(b)
      BY <1>1, <2>1
    <3>2. b[(i + 1) \div 2] \in Bytes
      BY <1>1, <3>1
    <3>3. QED
      BY <2>1, <3>2, NibbleSplit
  <2>2. CASE i % 2 # 1
    <3>1. i \div 2 \in 1..Len(b)
      BY <1>1, <2>2
    <3>2. b[i \div 2] \in Bytes
      BY <1>1, <3>1
    <3>3. QED
      BY <2>2, <3>2, NibbleSplit
  <2>3. QED
    BY <2>1, <2>2
<1>3. ToHex(b) \in Seq(HexDigits) /\ Len(ToHex(b)) = 2 * Len(b)
  BY <1>1, <1>2 DEF ToHex
<1>4. \A i \in 1..Len(b) : /\ ToHex(b)[2 * i - 1] = b[i] \div 16
                           /\ ToHex(b)[2 * i] = b[i] % 16
  BY <1>1 DEF ToHex
<1>5. QED
  BY <1>3, <1>4

\* Reversal keeps the length and the bytes, and undoes itself.
LEMMA ReversedShape ==
  ASSUME NEW S, NEW b \in Seq(S)
  PROVE  /\ Reversed(b) \in Seq(S)
         /\ Len(Reversed(b)) = Len(b)
         /\ \A i \in 1..Len(b) : Reversed(b)[i] = b[Len(b) + 1 - i]
         /\ Reversed(Reversed(b)) = b
<1>1. Len(b) \in Nat /\ b \in [1..Len(b) -> S]
  BY LenProperties
<1>2. Reversed(b) \in Seq(S) /\ Len(Reversed(b)) = Len(b)
  BY <1>1 DEF Reversed
<1>3. Reversed(Reversed(b)) = b
  BY <1>1, <1>2 DEF Reversed
<1>4. QED
  BY <1>2, <1>3 DEF Reversed

(***************************************************************************)
(* fromHex inverts toHex: the bytes a hex string was written from are the *)
(* bytes read back, for byte strings of every length.                     *)
(***************************************************************************)
THEOREM HexRoundTrip ==
  \A b \in Seq(Bytes) : FromHex(ToHex(b)) = b
<1> SUFFICES ASSUME NEW b \in Seq(Bytes) PROVE FromHex(ToHex(b)) = b
  OBVIOUS
<1>1. Len(b) \in Nat /\ b \in [1..Len(b) -> Bytes]
  BY LenProperties
<1>2. Len(ToHex(b)) = 2 * Len(b)
  BY ToHexShape
<1>3. Len(ToHex(b)) \div 2 = Len(b)
  BY <1>1, <1>2, HalfOfDouble
<1>4. \A i \in 1..Len(b) : ToHex(b)[2 * i - 1] = b[i] \div 16 /\ ToHex(b)[2 * i] = b[i] % 16
  BY ToHexShape
<1>5. \A i \in 1..Len(b) : 16 * (b[i] \div 16) + (b[i] % 16) = b[i]
  BY <1>1, NibbleSplit
<1>6. \A i \in 1..Len(b) : FromHex(ToHex(b))[i] = b[i]
  BY <1>3, <1>4, <1>5 DEF FromHex
<1>7. QED
  BY <1>1, <1>3, <1>6 DEF FromHex

(***************************************************************************)
(* The request side of validateUtxos: a txid shown in display order       *)
(* (toHexRev) and read back by fromHexRev, as the request encodes an       *)
(* outpoint the application took from an earlier result, is the txid's    *)
(* original bytes, for hashes of every length.                             *)
(***************************************************************************)
THEOREM HexRevRoundTrip ==
  \A b \in Seq(Bytes) : FromHexRev(ToHexRev(b)) = b
<1> SUFFICES ASSUME NEW b \in Seq(Bytes) PROVE FromHexRev(ToHexRev(b)) = b
  OBVIOUS
<1>1. Reversed(b) \in Seq(Bytes) /\ Reversed(Reversed(b)) = b
  BY ReversedShape
<1>2. FromHex(ToHex(Reversed(b))) = Reversed(b)
  BY <1>1, HexRoundTrip
<1>3. QED
  BY <1>1, <1>2 DEF FromHexRev, ToHexRev

\* Different byte strings show as different hex strings.
LEMMA ToHexInjective ==
  ASSUME NEW a \in Seq(Bytes), NEW b \in Seq(Bytes), ToHex(a) = ToHex(b)
  PROVE  a = b
BY HexRoundTrip

(***************************************************************************)
(* The two display conventions agree on a byte string exactly when it is  *)
(* a palindrome.  So convertToTxOutput's spentBy.txid, written with toHex, *)
(* equals the txid the spending transaction shows (toHexRev) only for a    *)
(* palindromic hash: the mismatch run rest_txid_display finds on 2-byte   *)
(* hashes happens at every hash length, 32 bytes included, for all but a  *)
(* vanishing share of txids.                                               *)
(***************************************************************************)
THEOREM DisplayOrdersAgree ==
  \A b \in Seq(Bytes) : ToHex(b) = ToHexRev(b) <=> Reversed(b) = b
<1> SUFFICES ASSUME NEW b \in Seq(Bytes) PROVE ToHex(b) = ToHexRev(b) <=> Reversed(b) = b
  OBVIOUS
<1>1. Reversed(b) \in Seq(Bytes)
  BY ReversedShape
<1>2. ToHex(b) = ToHexRev(b) => Reversed(b) = b
  BY <1>1, ToHexInjective DEF ToHexRev
<1>3. Reversed(b) = b => ToHex(b) = ToHexRev(b)
  BY DEF ToHexRev
<1>4. QED
  BY <1>2, <1>3

=============================================================================
