------------------------------- MODULE Codes -------------------------------
(***************************************************************************)
(* The codes that protect a volume (sector-codec): arithmetic over         *)
(* GF(2^FieldBits) by logarithm tables (gf.rs), the systematic             *)
(* Reed-Solomon code with a Cauchy parity matrix and its erasure decoder   *)
(* (rs.rs), the table-driven CRC (crc.rs) and the choice among copies      *)
(* (replicate.rs).  The widths and polynomials are the code's, narrowed.   *)
(***************************************************************************)
EXTENDS Integers, Sequences, SequencesExt, FiniteSets, Bitwise

CONSTANTS
  FieldBits,        \* 8 in the code
  FieldPolynomial,  \* 0x11D
  MaxN, MaxK,       \* 16 and 12
  ByteBits,         \* 8
  CrcBits,          \* 32
  CrcPolynomial     \* 0xEDB88320, reflected

ASSUME CodesAssumption ==
  /\ FieldBits \in Nat \ {0} /\ FieldPolynomial \in 2 ^ FieldBits .. 2 ^ (FieldBits + 1) - 1
  /\ MaxN \in 1 .. 2 ^ FieldBits /\ MaxK \in 1 .. MaxN
  /\ ByteBits \in Nat \ {0} /\ CrcBits >= ByteBits /\ CrcPolynomial \in 1 .. 2 ^ CrcBits - 1

None == "none"
XorAll(s) == FoldLeft(LAMBDA a, b : a ^^ b, 0, s)

---------------------------------------------------------------------------
(* gf.rs.                                                                  *)

Order == 2 ^ FieldBits - 1
Field == 0 .. Order

TimesGenerator(x) == IF 2 * x > Order THEN (2 * x) ^^ FieldPolynomial ELSE 2 * x

Antilog[i \in 0 .. Order] ==
  IF i = 0 \/ i = Order THEN 1 ELSE TimesGenerator(Antilog[i - 1])

\* build_tables leaves log[0] at 0 and the last exponent that reaches x in log[x].
Log == [x \in Field |->
  LET reach == {i \in 0 .. Order - 1 : Antilog[i] = x}
  IN  IF reach = {} THEN 0 ELSE CHOOSE i \in reach : \A j \in reach : j <= i]

Mul(a, b) == IF a = 0 \/ b = 0 THEN 0 ELSE Antilog[(Log[a] + Log[b]) % Order]

Div(a, b) ==
  IF b = 0 THEN None ELSE IF a = 0 THEN 0 ELSE Antilog[(Order + Log[a] - Log[b]) % Order]

Inv(a) == Div(1, a)

Pow(a, n) == IF a = 0 THEN (IF n = 0 THEN 1 ELSE 0) ELSE Antilog[(Log[a] * n) % Order]

---------------------------------------------------------------------------
(* rs.rs.  Blocks are sequences of field elements; rows and columns count  *)
(* from 0.                                                                 *)

NewCode(n, k) ==
  IF k = 0 \/ n > MaxN \/ k > MaxK \/ k > n THEN [error |-> "Parameters"]
  ELSE [n |-> n, k |-> k,
        parity |-> [i \in 0 .. n - k - 1 |-> [j \in 0 .. k - 1 |-> Inv((i + k) ^^ j)]]]

\* Parity rows counted one too far.
GeneratorRowNext(code, index) ==
  IF index < code.k THEN [j \in 0 .. code.k - 1 |-> IF j = index THEN 1 ELSE 0]
  ELSE code.parity[(index + 1 - code.k) % (code.n - code.k)]

GeneratorRow(code, index) ==
  IF index < code.k THEN [j \in 0 .. code.k - 1 |-> IF j = index THEN 1 ELSE 0]
  ELSE code.parity[index - code.k]

Ragged(blocks) == \E i, j \in DOMAIN blocks : Len(blocks[i]) # Len(blocks[j])

Combine(row, blocks) ==
  [byte \in DOMAIN blocks[1] |-> XorAll([j \in DOMAIN blocks |-> Mul(row[j - 1], blocks[j][byte])])]

EncodeBlocks(code, data) ==
  IF Len(data) # code.k THEN [error |-> "BufferSize"]
  ELSE IF Ragged(data) THEN [error |-> "RaggedBlocks"]
  ELSE [ok |-> [i \in 1 .. code.n - code.k |-> Combine(code.parity[i - 1], data)]]

\* One column of the elimination; "pair" holds the matrix and the inverse so far.
Eliminate(pair, col, k) ==
  LET pivots == {r \in col .. k - 1 : pair.m[r][col] # 0}
      pivot  == CHOOSE r \in pivots : \A o \in pivots : r <= o
      Scaled(a) == [[a EXCEPT ![pivot] = a[col]] EXCEPT ![col] =
                     [j \in 0 .. k - 1 |-> Mul(a[pivot][j], Inv(pair.m[pivot][col]))]]
      m1     == Scaled(pair.m)
      Cleared(a) == [r \in 0 .. k - 1 |-> [j \in 0 .. k - 1 |->
                      a[r][j] ^^ Mul(IF r = col THEN 0 ELSE m1[r][col], a[col][j])]]
  IN  IF pair.singular \/ pivots = {} THEN [pair EXCEPT !.singular = TRUE]
      ELSE [m |-> Cleared(m1), inv |-> Cleared(Scaled(pair.inv)), singular |-> FALSE]

Invert(m, k) ==
  LET identity == [i \in 0 .. k - 1 |-> [j \in 0 .. k - 1 |-> IF i = j THEN 1 ELSE 0]]
  IN  FoldLeft(LAMBDA pair, col : Eliminate(pair, col - 1, k),
               [m |-> m, inv |-> identity, singular |-> FALSE], [c \in 1 .. k |-> c])

\* A survivor is [index, block]; the first k are used.
Decode(code, survivors) ==
  LET used == SubSeq(survivors, 1, code.k)
      refused == [error |-> "TooManyErasures"]
      inverse == Invert([r \in 0 .. code.k - 1 |-> GeneratorRow(code, used[r + 1].index)], code.k)
  IN  IF Len(survivors) < code.k THEN refused
      ELSE IF Ragged([i \in DOMAIN survivors |-> survivors[i].block])
           THEN [error |-> "RaggedBlocks"]
      ELSE IF \E i \in DOMAIN used : used[i].index >= code.n THEN [error |-> "BufferSize"]
      ELSE IF inverse.singular THEN refused
      ELSE [ok |-> [r \in 1 .. code.k |->
                     Combine(inverse.inv[r - 1], [i \in DOMAIN used |-> used[i].block])]]

---------------------------------------------------------------------------
(* crc.rs.                                                                 *)

Seed == 2 ^ CrcBits - 1

ShiftOut(c) == IF c % 2 = 1 THEN CrcPolynomial ^^ (c \div 2) ELSE c \div 2

Table == [n \in 0 .. 2 ^ ByteBits - 1 |->
           FoldLeft(LAMBDA c, i : ShiftOut(c), n, [i \in 1 .. ByteBits |-> i])]

Crc(bytes) ==
  FoldLeft(LAMBDA crc, byte : Table[(crc ^^ byte) % 2 ^ ByteBits] ^^ (crc \div 2 ^ ByteBits),
           Seed, bytes) ^^ Seed

Verify(bytes, expected) == Crc(bytes) = expected

---------------------------------------------------------------------------
(* replicate.rs.                                                           *)

SelectCopy(copies, expected) == SelectInSeq(copies, LAMBDA copy : Verify(copy, expected))

\* What dst holds afterwards, and the selection: 0 for unrecoverable, 1 for the primary.
RepairBlock(dst, copies, expected) ==
  LET selected == SelectCopy(copies, expected)
  IN  IF selected > 1 /\ Len(copies[selected]) = Len(dst)
      THEN [dst |-> copies[selected], selection |-> selected]
      ELSE [dst |-> dst, selection |-> IF selected = 1 THEN 1 ELSE 0]

\* copies[c][b] is block b of copy c; a copy may be short.
AllBlocksRecoverable(copies, crcs) ==
  \A b \in DOMAIN crcs :
    \E c \in DOMAIN copies : b \in DOMAIN copies[c] /\ Verify(copies[c][b], crcs[b])

---------------------------------------------------------------------------
(* What the codes promise.                                                 *)

\* The product of two polynomials over GF(2), reduced: the tables compute this.
Product(a, b) ==
  LET Times(i) == FoldLeft(LAMBDA x, step : TimesGenerator(x), a, [s \in 1 .. i |-> s])
  IN  XorAll([i \in 1 .. FieldBits |-> IF (b \div 2 ^ (i - 1)) % 2 = 1 THEN Times(i - 1) ELSE 0])

\* Logarithm tables multiply as polynomials do, every element but 0 has an inverse that
\* division undoes, and powers are repeated products.
FieldSound(a, b, n) ==
  /\ Mul(a, b) = Product(a, b)
  /\ b # 0 => Mul(Div(a, b), b) = a /\ Mul(Inv(b), b) = 1
  /\ Pow(a, n + 1) = Mul(Pow(a, n), a)

\* Any k distinct surviving blocks, data or parity, in any order, give the data back;
\* survivors that repeat a block are refused and never decoded into something else.
AnyKSuffice(n, k, data, indices) ==
  LET code   == NewCode(n, k)
      blocks == data \o EncodeBlocks(code, data).ok
      result == Decode(code, [i \in DOMAIN indices |->
                  [index |-> indices[i], block |-> blocks[indices[i] + 1]]])
      used   == {indices[i] : i \in 1 .. k}
  IN  IF Len(indices) >= k /\ Cardinality(used) = k
      THEN result = [ok |-> data] ELSE result = [error |-> "TooManyErasures"]

\* The table computes the bit-serial register, so the CRC tells two messages apart when
\* they differ only within CrcBits consecutive bits: one burst is always localised.
BitsOf(bytes) ==
  [i \in 1 .. ByteBits * Len(bytes) |->
    (bytes[(i - 1) \div ByteBits + 1] \div 2 ^ ((i - 1) % ByteBits)) % 2]

BurstsDetected(a, b) ==
  LET differ == {i \in DOMAIN BitsOf(a) : BitsOf(a)[i] # BitsOf(b)[i]}
      serial == FoldLeft(LAMBDA c, bit : ShiftOut(IF bit = 1 THEN c ^^ 1 ELSE c), Seed, BitsOf(a))
  IN  /\ Crc(a) = serial ^^ Seed
      /\ differ # {} /\ (\A i, j \in differ : i - j < CrcBits) => ~Verify(b, Crc(a))

\* Selection per block: the codebook can be read from the copies exactly when every block
\* is whole in some copy, even when no copy is whole; repairing a block then leaves one
\* that verifies, and one that verified is never written.
CopiesRecover(copies, crcs) ==
  LET Of(b) == SelectSeq([c \in DOMAIN copies |-> IF b \in DOMAIN copies[c] THEN copies[c][b]
                                                  ELSE << >>], LAMBDA block : block # << >>)
      Fixed(b) == RepairBlock(copies[1][b], Of(b), crcs[b])
  IN  /\ AllBlocksRecoverable(copies, crcs) <=>
           \A b \in DOMAIN crcs : Fixed(b).selection > 0 /\ Verify(Fixed(b).dst, crcs[b])
      /\ \A b \in DOMAIN crcs :
           Verify(copies[1][b], crcs[b]) \/ Fixed(b).selection = 0 => Fixed(b).dst = copies[1][b]

=============================================================================
