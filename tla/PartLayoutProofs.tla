-------------------------- MODULE PartLayoutProofs --------------------------
(***************************************************************************)
(* The parts of an upload tile it exactly, for every size and every        *)
(* setting of UPLOAD_PART_SIZE_BYTES.                                      *)
(***************************************************************************)
EXTENDS PartLayout, TLAPS

LEMMA DivisionFact ==
  ASSUME NEW a \in Nat, NEW p \in Nat \ {0}
  PROVE  /\ a \div p \in Nat
         /\ (a \div p) * p <= a
         /\ a < (a \div p + 1) * p
  OBVIOUS

LEMMA PartSizeFact ==
  ASSUME NEW size \in Nat \ {0}
  PROVE  PartSizeOf(size) \in Nat \ {0} /\ PartSizeOf(size) <= size
  BY PartSizeAssumption DEF PartSizeOf, Least

LEMMA TimesMonotone ==
  ASSUME NEW m \in Nat, NEW n \in Nat, m <= n, NEW p \in Nat
  PROVE  m * p <= n * p
  OBVIOUS

\* An upload has at least one part, numbered zero.
LEMMA FirstPart ==
  ASSUME NEW size \in Nat \ {0}
  PROVE  PartCount(size) \in Nat /\ 0 \in PartNumbers(size)
  <1>. DEFINE p == PartSizeOf(size)
  <1>1. p \in Nat \ {0} /\ p <= size
    BY PartSizeFact
  <1>. HIDE DEF p
  <1>. DEFINE a == size + p - 1
              q == a \div p
  <1>2. a \in Nat /\ a >= p
    BY <1>1
  <1>. HIDE DEF a
  <1>3. q \in Nat /\ a < (q + 1) * p
    BY <1>1, <1>2, DivisionFact
  <1>. HIDE DEF q
  <1>4. q # 0
    BY <1>1, <1>2, <1>3
  <1>5. PartCount(size) = q
    BY DEF PartCount, p, q, a
  <1>. QED
    BY <1>3, <1>4, <1>5 DEF PartNumbers

\* All parts but the last have part_size_bytes, each begins where the one
\* before it ends, and the last one ends the upload with at least a byte:
\* what expected_part_size accepts part by part is the whole file, once.
THEOREM PartsTile ==
  ASSUME NEW size \in Nat \ {0}, NEW n \in PartNumbers(size)
  PROVE  /\ ExpectedPartSize(n, size) \in 1 .. PartSizeOf(size)
         /\ PartOffset(0, size) = 0
         /\ n + 1 \in PartNumbers(size) =>
               PartOffset(n + 1, size) =
                   PartOffset(n, size) + ExpectedPartSize(n, size)
         /\ n + 1 = PartCount(size) =>
               PartOffset(n, size) + ExpectedPartSize(n, size) = size
  <1>. DEFINE p == PartSizeOf(size)
              q == PartCount(size)
              a == size + p - 1
  <1>1. p \in Nat \ {0} /\ p <= size
    BY PartSizeFact
  <1>2. q \in Nat /\ n \in 0 .. (q - 1)
    BY FirstPart DEF PartNumbers
  <1>3. q * p <= a /\ a < (q + 1) * p
    <2>1. a \in Nat
      BY <1>1
    <2>. QED
      BY <1>1, <2>1, DivisionFact DEF PartCount
  <1>. HIDE DEF p, q
  <1>4. (q - 1) * p < size /\ size <= q * p
    BY <1>1, <1>2, <1>3
  <1>5. n * p <= (q - 1) * p
    BY <1>1, <1>2, TimesMonotone
  <1>6. n * p \in Nat /\ n * p < size
    BY <1>1, <1>2, <1>4, <1>5
  <1>7. PartOffset(n, size) = n * p /\ PartOffset(0, size) = 0
    BY <1>1 DEF PartOffset, p
  <1>8. ExpectedPartSize(n, size) = Least(p, size - n * p)
    BY <1>7 DEF ExpectedPartSize, p
  <1>9. ExpectedPartSize(n, size) \in 1 .. p
    BY <1>1, <1>6, <1>8 DEF Least
  <1>10. ASSUME n + 1 \in PartNumbers(size)
         PROVE  PartOffset(n + 1, size) =
                    PartOffset(n, size) + ExpectedPartSize(n, size)
    <2>1. n + 1 <= q - 1
      BY <1>2, <1>10 DEF PartNumbers, q
    <2>2. (n + 1) * p <= (q - 1) * p
      BY <1>1, <1>2, <2>1, TimesMonotone
    <2>3. (n + 1) * p = n * p + p
      BY <1>1, <1>2
    <2>4. p < size - n * p
      BY <1>1, <1>4, <1>6, <2>2, <2>3, <1>2
    <2>5. ExpectedPartSize(n, size) = p
      BY <1>1, <1>6, <1>8, <2>4 DEF Least
    <2>. QED
      BY <1>7, <2>3, <2>5 DEF PartOffset, p
  <1>11. ASSUME n + 1 = q
         PROVE  PartOffset(n, size) + ExpectedPartSize(n, size) = size
    <2>1. size - n * p <= p
      <3>1. q * p = n * p + p
        BY <1>1, <1>2, <1>11
      <3>. QED
        BY <1>1, <1>4, <1>6, <3>1, <1>2
    <2>2. ExpectedPartSize(n, size) = size - n * p
      BY <1>1, <1>6, <1>8, <2>1 DEF Least
    <2>. QED
      BY <1>6, <1>7, <2>2
  <1>. QED
    BY <1>7, <1>9, <1>10, <1>11 DEF p, q
=============================================================================
