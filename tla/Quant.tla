------------------------------- MODULE Quant -------------------------------
(***************************************************************************)
(* Fixed-point quantisation (sector-quant codebook.rs, adc.rs, rotate.rs,  *)
(* label.rs; sector-build encode.rs quantize, label_opt.rs; the query      *)
(* side of sector-os search.rs and sector-core query.rs).  Components are  *)
(* two's complement words of ComponentBits, scores of ScoreBits; a real    *)
(* value is an integer number of 1 / Unit.                                 *)
(***************************************************************************)
EXTENDS Integers, Sequences, SequencesExt, FiniteSets

CONSTANTS
  ComponentBits,  \* BETA, 8 in the code; a scale's denominator is its largest value
  ScoreBits,      \* 32
  MaxPasses,      \* passes of the label search, 8 in build_cmd
  Unit            \* reals are integers over Unit

Largest == 2 ^ (ComponentBits - 1) - 1
Component == -Largest - 1 .. Largest
Abs(x) == IF x < 0 THEN -x ELSE x
SumOf(s) == FoldLeft(LAMBDA a, b : a + b, 0, s)
MaxOf(S) == CHOOSE x \in S : \A y \in S : y <= x
MinOf(S) == CHOOSE x \in S : \A y \in S : x <= y
Clamp(x, lo, hi) == IF x < lo THEN lo ELSE IF x > hi THEN hi ELSE x
Dot(a, b) == SumOf([i \in DOMAIN a |-> a[i] * b[i]])
Wrapped(x) == ((x + 2 ^ (ScoreBits - 1)) % 2 ^ ScoreBits) - 2 ^ (ScoreBits - 1)
Fits(x) == x \in -(2 ^ (ScoreBits - 1)) .. 2 ^ (ScoreBits - 1) - 1
Saturated(x) == Clamp(x, -(2 ^ (ScoreBits - 1)), 2 ^ (ScoreBits - 1) - 1)
\* f32::round, half away from zero, of a / b with b > 0.
Rounded(a, b) == LET q == (2 * Abs(a) + b) \div (2 * b) IN IF a < 0 THEN -q ELSE q

---------------------------------------------------------------------------
(* codebook.rs.  A codebook is [rows, scale]; rows are numbered from 0.    *)

MaxDisplacement(num) == 2 ^ (ComponentBits - 1) * num
ScoreShiftBound(norm, delta) == Abs(norm) * Abs(delta)

Flipped(value, bit) ==
  LET word == value % 2 ^ ComponentBits
      set  == (word \div 2 ^ bit) % 2 = 1
      next == IF set THEN word - 2 ^ bit ELSE word + 2 ^ bit
  IN  IF next > Largest THEN next - 2 ^ ComponentBits ELSE next

FlipDisplacement(value, bit, num) == (Flipped(value, bit) - value) * num

Rows(book) == Cardinality(DOMAIN book.rows)
Width(book) == Len(book.rows[0])

---------------------------------------------------------------------------
(* adc.rs: the table, one row of centroids per subspace.                   *)

Refused(what) == [error |-> what]

Slice(q, j, ds) == SubSeq(q, (j - 1) * ds + 1, j * ds)

BuildTable(q, books, entries) ==
  LET centroids == Rows(books[1])
      ds == Width(books[1])
  IN  IF books = << >> THEN Refused("SubspaceCount")
      ELSE IF Len(q) # Len(books) * ds THEN Refused("QuerySize")
      ELSE IF entries # Len(books) * centroids THEN Refused("TableSize")
      ELSE IF \E j \in DOMAIN books : Rows(books[j]) # centroids \/ Width(books[j]) # ds
           THEN Refused("SubspaceCount")
      ELSE [table |-> [i \in 1 .. entries |->
              LET j == (i - 1) \div centroids + 1
              IN  Dot(Slice(q, j, ds), books[j].rows[(i - 1) % centroids])],
            macs |-> entries * ds]

BuildTableL2(q, books, entries) ==
  LET built == BuildTable(q, books, entries)
      centroids == Rows(books[1])
      Row(i) == books[(i - 1) \div centroids + 1].rows[(i - 1) % centroids]
  IN  IF "error" \in DOMAIN built THEN built
      ELSE [built EXCEPT !.table = [i \in DOMAIN @ |->
              Saturated(Saturated(2 * built.table[i]) - Dot(Row(i), Row(i)))]]

\* Slice splitting: a code past the row adds nothing.
ScoreB8(codes, table, centroids) ==
  Wrapped(SumOf([j \in DOMAIN codes |->
    IF j * centroids <= Len(table) /\ codes[j] < centroids
    THEN table[(j - 1) * centroids + codes[j] + 1] ELSE 0]))

\* Index arithmetic: a code past the row reads the next row, until the table ends.
ScoreIndexed(codes, table, centroids) ==
  Wrapped(SumOf([j \in DOMAIN codes |->
    LET at == (j - 1) * centroids + codes[j] + 1
    IN  IF at <= Len(table) THEN table[at] ELSE 0]))

\* Two codes to a byte, the low nibble first (Nibble is 16 in the code).
ScoreB4(bytes, table, centroids, m, nibble) ==
  LET CodeOf(j) == IF j % 2 = 1 THEN bytes[(j + 1) \div 2] % nibble
                   ELSE bytes[(j + 1) \div 2] \div nibble
  IN  ScoreIndexed([j \in 1 .. (IF m < 2 * Len(bytes) THEN m ELSE 2 * Len(bytes)) |-> CodeOf(j)],
                   table, centroids)

\* scan.rs scan_b8_x4: groups of four by index, the tail by score_one.
ScoresX4(records, table, centroids) ==
  [i \in DOMAIN records |->
    IF i <= 4 * (Len(records) \div 4) THEN ScoreIndexed(records[i], table, centroids)
    ELSE ScoreB8(records[i], table, centroids)]

MaxScoreMagnitude(m, ds) == m * ds * Largest * (Largest + 1)

---------------------------------------------------------------------------
(* rotate.rs.  A vector is a function on 0 .. len - 1.                     *)

PowerOfTwo(n) == \E e \in 0 .. n : n = 2 ^ e
Length(v) == Cardinality(DOMAIN v)
OverflowIf(bad, v) == IF bad THEN [error |-> "Overflow"] ELSE [v |-> v]
\* Every value a stage computes must fit; what fails is refused.
Checked(v) == OverflowIf(\E i \in DOMAIN v : ~Fits(v[i]), v)

Butterfly(v, span) ==
  [i \in DOMAIN v |-> IF (i \div span) % 2 = 0 THEN v[i] + v[i + span] ELSE v[i - span] - v[i]]

Then(result, Step(_)) == IF "v" \in DOMAIN result THEN Step(result.v) ELSE result

Fwht(v) ==
  IF Length(v) = 0 \/ ~PowerOfTwo(Length(v)) THEN [error |-> "NotPowerOfTwo"]
  ELSE FoldLeft(LAMBDA acc, e : IF 2 ^ e >= Length(v) THEN acc
                                ELSE Then(acc, LAMBDA x : Checked(Butterfly(x, 2 ^ e))),
                [v |-> v], [e \in 1 .. Length(v) |-> e - 1])

ApplySigns(v, signs) ==
  IF DOMAIN signs # DOMAIN v THEN [error |-> "SignLength"]
  ELSE Checked([i \in DOMAIN v |-> IF signs[i] THEN -v[i] ELSE v[i]])

\* Adjacent pairs; a vector of one is left alone.
KacStep(v) ==
  IF Length(v) = 0 \/ ~PowerOfTwo(Length(v)) THEN [error |-> "NotPowerOfTwo"]
  ELSE IF Length(v) = 1 THEN [v |-> v] ELSE Checked(Butterfly(v, 1))

ScaleFactor(len, rounds) == (2 * len) ^ rounds

Round(v, signs) ==
  Then(Then(ApplySigns(v, signs), LAMBDA x : Fwht(x)), LAMBDA x : KacStep(x))

RotateVector(v, signs, rounds) ==
  FoldLeft(LAMBDA acc, r : Then(acc, LAMBDA x : Round(x, signs)), [v |-> v],
           [r \in 1 .. rounds |-> r])

Unscaled(v) ==
  LET divisor == 2 * Length(v)
  IN  OverflowIf(\E i \in DOMAIN v : Abs(v[i]) % divisor # 0,
                 [i \in DOMAIN v |-> IF v[i] < 0 THEN -(-v[i] \div divisor) ELSE v[i] \div divisor])

Unround(v, signs) ==
  Then(Then(Then(KacStep(v), LAMBDA x : Fwht(x)), LAMBDA x : ApplySigns(x, signs)),
       LAMBDA x : Unscaled(x))

InvertRotation(v, signs, rounds) ==
  FoldLeft(LAMBDA acc, r : Then(acc, LAMBDA x : Unround(x, signs)), [v |-> v],
           [r \in 1 .. rounds |-> r])

SubspaceEnergy(v, m) ==
  LET ds == Length(v) \div m
  IN  [j \in 0 .. m - 1 |-> SumOf([i \in 1 .. ds |-> v[j * ds + i - 1] * v[j * ds + i - 1]])]

\* query.rs: the bits a rotated component is shifted right by, before the clamp.
RotationShift(d, rounds) ==
  IF rounds = 0 THEN 0
  ELSE rounds * (Cardinality({e \in 0 .. 2 * d : 2 ^ e <= 2 * d}) \div 2)

Narrowed(v, rounds) ==
  [i \in DOMAIN v |->
    Clamp(v[i] \div 2 ^ RotationShift(Length(v), rounds), -Largest - 1, Largest)]

---------------------------------------------------------------------------
(* label.rs and label_opt.rs.  A codebook's rows, a permutation and a      *)
(* position are functions on 0 .. k - 1; perm[c] is centroid c's label,    *)
(* position[l] the centroid at label l.                                    *)

IsPermutation(perm) == DOMAIN perm = {perm[c] : c \in DOMAIN perm}

\* The permutation applied the other way round.
PermuteCodebookBack(rows, perm) ==
  IF ~IsPermutation(perm) THEN Refused("NotAPermutation")
  ELSE IF DOMAIN rows # DOMAIN perm THEN Refused("Shape")
  ELSE [rows |-> [l \in DOMAIN rows |-> rows[perm[l]]]]

PermuteCodebook(rows, perm) ==
  IF ~IsPermutation(perm) THEN Refused("NotAPermutation")
  ELSE IF DOMAIN rows # DOMAIN perm THEN Refused("Shape")
  ELSE [rows |-> [l \in DOMAIN rows |-> rows[CHOOSE c \in DOMAIN perm : perm[c] = l]]]

\* In place: a code out of range ends the call with the ones before it already mapped.
PermuteCodes(codes, perm) ==
  LET unknown == {i \in DOMAIN codes : codes[i] \notin DOMAIN perm}
      stop    == IF unknown = {} THEN Len(codes) + 1 ELSE MinOf(unknown)
  IN  IF ~IsPermutation(perm) THEN [codes |-> codes, ok |-> FALSE]
      ELSE [codes |-> [i \in DOMAIN codes |-> IF i < stop THEN perm[codes[i]] ELSE codes[i]],
            ok |-> unknown = {}]

SqDist(a, b) == SumOf([i \in DOMAIN a |-> (a[i] - b[i]) * (a[i] - b[i])])

BitOf(x, l) == (x \div 2 ^ l) % 2
Neighbour(label, l) == IF BitOf(label, l) = 1 THEN label - 2 ^ l ELSE label + 2 ^ l

\* The sum whose mean is the displacement of one flipped bit; the number of its terms
\* does not depend on the labelling.
HammingDisplacement(rows, bits) ==
  SumOf([x \in 1 .. bits * Cardinality(DOMAIN rows) |->
    LET label == (x - 1) \div bits
        other == Neighbour(label, (x - 1) % bits)
    IN  IF other \in DOMAIN rows THEN SqDist(rows[label], rows[other]) ELSE 0])

DisplacementOf(rows, position, bits) ==
  HammingDisplacement([l \in DOMAIN position |-> rows[position[l]]], bits)

WidestAxis(rows) ==
  LET Spread(a) == MaxOf({rows[c][a] : c \in DOMAIN rows}) - MinOf({rows[c][a] : c \in DOMAIN rows})
      axes == DOMAIN rows[0]
  IN  MinOf({a \in axes : \A o \in axes : Spread(o) <= Spread(a)})

Gray(rank, bits) ==
  SumOf([i \in 1 .. bits |-> IF BitOf(rank, i - 1) # BitOf(rank, i) THEN 2 ^ (i - 1) ELSE 0])

\* Centroids in the order of the widest axis, ties by index, Gray-coded.
Seeded(rows, bits) ==
  LET axis == WidestAxis(rows)
      Before(a, b) == rows[a][axis] < rows[b][axis] \/ (rows[a][axis] = rows[b][axis] /\ a < b)
      RankOf(c) == Cardinality({o \in DOMAIN rows : Before(o, c)})
  IN  [l \in DOMAIN rows |-> CHOOSE c \in DOMAIN rows : Gray(RankOf(c), bits) = l]

Swapped(position, i, j) == [position EXCEPT ![i] = position[j], ![j] = position[i]]

\* Every pair of labels i < j in turn, as the number i * k + j.
OnePass(rows, bits, start) ==
  LET k == Cardinality(DOMAIN rows)
      pairs == SelectSeq([x \in 1 .. k * k |-> x - 1], LAMBDA x : x \div k < x % k)
      Try(position, x) ==
        LET candidate == Swapped(position, x \div k, x % k)
        IN  IF DisplacementOf(rows, candidate, bits) < DisplacementOf(rows, position, bits)
            THEN candidate ELSE position
  IN  FoldLeft(Try, start, pairs)

\* A pass that improves nothing changes nothing, so stopping there is running the rest.
Optimise(rows, bits) ==
  LET position == FoldLeft(LAMBDA pos, pass : OnePass(rows, bits, pos), Seeded(rows, bits),
                           [i \in 1 .. MaxPasses |-> i])
  IN  [map |-> [c \in DOMAIN rows |-> CHOOSE l \in DOMAIN rows : position[l] = c],
       before |-> HammingDisplacement(rows, bits),
       after |-> DisplacementOf(rows, position, bits)]

---------------------------------------------------------------------------
(* encode.rs quantize and search.rs quantize_query.                        *)

\* The scale's numerator is the subspace's extent rounded up, 1 for a zero subspace.
ScaleNum(rows) ==
  LET extent == MaxOf({Abs(rows[c][i]) : c \in DOMAIN rows, i \in DOMAIN rows[0]})
  IN  IF extent = 0 THEN 1 ELSE (extent + Unit - 1) \div Unit

Quantize(rows) ==
  [rows |-> [c \in DOMAIN rows |-> [i \in DOMAIN rows[c] |->
              Clamp(Rounded(rows[c][i] * Largest, ScaleNum(rows) * Unit), -Largest - 1, Largest)]],
   num |-> ScaleNum(rows)]

QuantizeQuery(q, d) ==
  LET extent == MaxOf({Abs(q[i]) : i \in DOMAIN q})
  IN  IF Len(q) # d THEN Refused("Dimension")
      ELSE IF extent = 0 THEN [q |-> [i \in DOMAIN q |-> 0]]
      ELSE [q |-> [i \in DOMAIN q |-> Clamp(Rounded(q[i] * Largest, extent), -Largest, Largest)]]

---------------------------------------------------------------------------
(* What the query and the build rely on.                                   *)

Energy(v, S) == SumOf([i \in 1 .. Length(v) |-> IF i - 1 \in S THEN v[i - 1] * v[i - 1] ELSE 0])

\* The inverse gives the vector back or refuses it, never another vector.
InverseExact(v, signs, rounds) ==
  LET out == RotateVector(v, signs, rounds)
  IN  "v" \in DOMAIN out =>
        InvertRotation(out.v, signs, rounds) \in {[v |-> v], [error |-> "Overflow"]}

\* A rotation that is not refused scales the energy by its factor and can be undone exactly.
\* This is of two components or more; for one, which the code accepts, InverseExact and the
\* factor both fail, and the run documented_claims shows it.
RotationSound(v, signs, rounds) ==
  LET out == RotateVector(v, signs, rounds)
  IN  "v" \in DOMAIN out =>
        /\ PowerOfTwo(Length(v)) \/ rounds = 0
        /\ Length(v) > 1 =>
             /\ InverseExact(v, signs, rounds)
             /\ Energy(out.v, DOMAIN v) = ScaleFactor(Length(v), rounds) * Energy(v, DOMAIN v)

\* "Adjacent pairing ... spreads energy across every subspace", where half-split pairing "leaves
\* invariant subspaces that no number of rounds escapes" (rotate.rs:111-115): some spike inside
\* any part of the coordinates has energy outside that part after some rounds.  It does not
\* hold: the Kac step repeats the transform's first stage, and the even coordinates are
\* such a part (run documented_claims).
Spike(len, i) == [j \in 0 .. len - 1 |-> IF j = i THEN 1 ELSE 0]
NoPartInvariant(len, signs, rounds) ==
  \A S \in SUBSET (0 .. len - 1) :
    S \notin {{}, 0 .. len - 1} =>
      \E i \in S, k \in 1 .. rounds :
        LET out == RotateVector(Spike(len, i), signs, k).v
        IN  Energy(out, S) # Energy(out, DOMAIN out)

\* "Both return identical values for every input" (adc.rs:214), of score_b8 and
\* score_b8_indexed.  A code past the centroids refutes it (run documented_claims).
ScorersAlike(q, books, codes) ==
  LET centroids == Rows(books[1])
      table     == BuildTable(q, books, Len(books) * centroids).table
  IN  ScoreB8(codes, table, centroids) = ScoreIndexed(codes, table, centroids)

Reconstruct(books, codes) == FlattenSeq([j \in DOMAIN codes |-> books[j].rows[codes[j]]])

\* For codes that name centroids, a score is the inner product with the reconstructed vector
\* whichever scorer computes it, packed, indexed or four at a time; it fits its bound when
\* no component is the most negative one; and the L2 table orders vectors by their distance
\* to the query.
ScoresExact(q, books, a, b) ==
  LET centroids == Rows(books[1])
      m     == Len(books)
      built == BuildTable(q, books, m * centroids)
      l2    == BuildTableL2(q, books, m * centroids).table
      exact == Dot(q, Reconstruct(books, a))
      packed == [i \in 1 .. (m + 1) \div 2 |->
                  a[2 * i - 1] + centroids * (IF 2 * i <= m THEN a[2 * i] ELSE 0)]
      records == <<a, b, b, a, a>>
  IN  /\ built.macs = centroids * Len(q)
      /\ ScoreB8(a, built.table, centroids) = exact
      /\ ScoreIndexed(a, built.table, centroids) = exact
      /\ ScoreB4(packed, built.table, centroids, m, centroids) = exact
      /\ ScoresX4(records, built.table, centroids)
           = [i \in DOMAIN records |-> ScoreB8(records[i], built.table, centroids)]
      /\ (\A j \in 1 .. m : \A c \in 0 .. centroids - 1 : \A i \in 1 .. Width(books[1]) :
            books[j].rows[c][i] >= -Largest) => Abs(exact) <= MaxScoreMagnitude(m, Width(books[1]))
      /\ ScoreB8(a, l2, centroids) >= ScoreB8(b, l2, centroids)
           <=> SqDist(q, Reconstruct(books, a)) <= SqDist(q, Reconstruct(books, b))

\* One flipped bit of a codebook moves the scores of the vectors that use the centroid,
\* and of no others, all by the same amount and within the bound the allocator is given.
FlipBounded(q, books, j, c, i, bit, a) ==
  LET centroids == Rows(books[1])
      ds      == Width(books[1])
      damaged == [books EXCEPT ![j].rows[c][i] = Flipped(@, bit)]
      Score(bs) == ScoreB8(a, BuildTable(q, bs, Len(bs) * centroids).table, centroids)
      shift   == Score(damaged) - Score(books)
      moved   == FlipDisplacement(books[j].rows[c][i], bit, 1)
  IN  /\ shift = (IF a[j] = c THEN q[(j - 1) * ds + i] * moved ELSE 0)
      /\ Abs(shift) <= ScoreShiftBound(q[(j - 1) * ds + i], MaxDisplacement(1))
      /\ moved # 0 /\ damaged[j].rows[c][i] \in Component

\* Relabelling the codebook and the codes together changes no reconstruction, what the
\* search reports is the displacement of the codebook it returns, and no exchange of two
\* labels would lower it.  A code out of range is refused.
LabelsLossless(rows, codes, bits) ==
  LET best  == Optimise(rows, bits)
      moved == PermuteCodebook(rows, best.map)
      coded == PermuteCodes(codes, best.map)
      Relabelled(perm) == HammingDisplacement(PermuteCodebook(rows, perm).rows, bits)
  IN  /\ IsPermutation(best.map) /\ best.after = Relabelled(best.map)
      /\ \A i, j \in DOMAIN rows : best.after <= Relabelled(Swapped(best.map, i, j))
      /\ coded.ok <=> \A i \in DOMAIN codes : codes[i] \in DOMAIN rows
      /\ coded.ok => \A i \in DOMAIN codes : moved.rows[coded.codes[i]] = rows[codes[i]]

\* What ships is within half a step of what was trained, and a query within half a step
\* of the one asked; its largest component uses the whole range.
HalfStep(rows, q) ==
  LET shipped == Quantize(rows)
      extent  == MaxOf({Abs(q[i]) : i \in DOMAIN q})
      asked   == QuantizeQuery(q, Len(q)).q
  IN  /\ \A c \in DOMAIN rows : \A i \in DOMAIN rows[c] :
           2 * Abs(rows[c][i] * Largest - shipped.rows[c][i] * shipped.num * Unit)
             <= shipped.num * Unit
      /\ \A i \in DOMAIN q : 2 * Abs(q[i] * Largest - asked[i] * extent) <= extent
      /\ extent > 0 => \E i \in DOMAIN q : Abs(asked[i]) = Largest

=============================================================================
