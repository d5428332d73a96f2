------------------------------ MODULE Training ------------------------------
(***************************************************************************)
(* What `sector build` does to a corpus before it is emitted (sector-build *)
(* dataset.rs, train.rs, encode.rs; sector-cli build_cmd.rs): reads the    *)
(* vectors, trains one codebook per subspace, encodes, relabels and        *)
(* quantises.                                                              *)
(*                                                                         *)
(* Means are exact: a centroid's coordinates are integers over Common, a   *)
(* multiple of every possible number of members.  The seeded generator of  *)
(* train.rs is a choice among the points it can pick.                      *)
(***************************************************************************)
EXTENDS Quant

CONSTANTS
  Common,     \* a common multiple of 1 .. the number of points
  HeadBytes,  \* bytes of a record's dimension, 4 in the code
  ByteBase,   \* values of a byte, 256
  MaxDim      \* largest dimension believed, 100000

---------------------------------------------------------------------------
(* dataset.rs.  A file is a sequence of bytes; width is the component's.   *)

WordAt(file, at) == SumOf([i \in 1 .. HeadBytes |-> file[at + i] * ByteBase ^ (i - 1)])

Probe(file, width) ==
  LET dim == WordAt(file, 0)
      record == HeadBytes + dim * width
  IN  IF Len(file) < HeadBytes THEN Refused("Io")
      ELSE IF dim = 0 \/ dim > MaxDim THEN Refused("ImplausibleDimension")
      ELSE IF Len(file) % record # 0 THEN Refused("RaggedFile")
      ELSE [dim |-> dim, record |-> record, count |-> Len(file) \div record]

\* A reader is [layout, at, next]; at is the byte the next read starts from.
OpenReader(file, width) ==
  LET layout == Probe(file, width)
  IN  IF "error" \in DOMAIN layout THEN layout ELSE [layout |-> layout, at |-> 0, next |-> 0]

\* A seek that forgets the head of each record.
SeekToData(reader, i) ==
  [reader EXCEPT !.at = i * (reader.layout.record - HeadBytes), !.next = i]

SeekTo(reader, i) == [reader EXCEPT !.at = i * reader.layout.record, !.next = i]

\* next_f32 and next_i32: the record's raw bytes and the reader after it.
NextRecord(file, reader) ==
  LET body == reader.at + HeadBytes
  IN  IF reader.next >= reader.layout.count THEN [end |-> TRUE]
      ELSE IF reader.at + HeadBytes > Len(file) THEN Refused("Io")
      ELSE IF WordAt(file, reader.at) # reader.layout.dim THEN Refused("InconsistentDimension")
      ELSE IF reader.at + reader.layout.record > Len(file) THEN Refused("Io")
      ELSE [index |-> reader.next,
            raw |-> SubSeq(file, body + 1, reader.at + reader.layout.record),
            reader |-> [reader EXCEPT !.at = reader.at + reader.layout.record, !.next = @ + 1]]

\* GroundTruth::load, and the loop of build_cmd: every record in turn, none after an error.
LoadRows(file, width) ==
  LET opened == OpenReader(file, width)
      Read(acc, i) ==
        LET record == NextRecord(file, acc.reader)
        IN  IF "error" \in DOMAIN acc THEN acc
            ELSE IF "error" \in DOMAIN record THEN record
            ELSE [reader |-> record.reader, rows |-> Append(acc.rows, record.raw)]
  IN  IF "error" \in DOMAIN opened THEN opened
      ELSE FoldLeft(Read, [reader |-> opened, rows |-> << >>], [i \in 1 .. opened.layout.count |-> i])

---------------------------------------------------------------------------
(* train.rs, one subspace.                                                 *)

ScaledUp(p) == [i \in DOMAIN p |-> Common * p[i]]
Distance(p, centroid) == SqDist(ScaledUp(p), centroid)

\* The first of the nearest.
Nearest(p, centroids) ==
  MinOf({c \in DOMAIN centroids :
           \A o \in DOMAIN centroids : Distance(p, centroids[c]) <= Distance(p, centroids[o])})

\* kmeans_pp_init: the points that can be drawn after those already chosen.  A draw of
\* exactly zero takes the first point whatever its distance.
Drawable(points, chosen) ==
  LET far == {v \in DOMAIN points : \A i \in DOMAIN chosen : SqDist(points[v], points[chosen[i]]) > 0}
  IN  IF chosen = << >> \/ far = {} THEN DOMAIN points ELSE far \cup {1}

InitialChoices(points, k) ==
  {s \in [1 .. k -> DOMAIN points] : \A i \in 1 .. k : s[i] \in Drawable(points, SubSeq(s, 1, i - 1))}

Members(assign, c) == {v \in DOMAIN assign : assign[v] = c}

\* One iteration of lloyd: assign, add up the error, move each centroid that has members.
LloydStep(points, st) ==
  LET assign == [v \in DOMAIN points |-> Nearest(points[v], st.centroids)]
      MeanOf(c) == [i \in DOMAIN points[1] |->
        LET sum == SumOf([v \in DOMAIN points |-> IF assign[v] = c THEN points[v][i] ELSE 0])
        IN  (Common \div Cardinality(Members(assign, c))) * sum]
  IN  [centroids |-> [c \in DOMAIN st.centroids |->
                        IF Members(assign, c) = {} THEN st.centroids[c] ELSE MeanOf(c)],
       assign |-> assign,
       error |-> SumOf([v \in DOMAIN points |-> Distance(points[v], st.centroids[assign[v]])]),
       run |-> st.run + 1,
       done |-> assign = st.assign]

\* Every vector starts assigned to centroid 0.
Lloyd(points, centroids, iterations) ==
  FoldLeft(LAMBDA st, i : IF st.done THEN st ELSE LloydStep(points, st),
           [centroids |-> centroids, assign |-> [v \in DOMAIN points |-> 0],
            error |-> 0, run |-> 0, done |-> FALSE],
           [i \in 1 .. iterations |-> i])

TrainSubspace(points, chosen, iterations) ==
  Lloyd(points, [c \in 0 .. Len(chosen) - 1 |-> ScaledUp(points[chosen[c + 1]])], iterations)

Subvectors(corpus, j, ds) == [v \in DOMAIN corpus |-> Slice(corpus[v], j, ds)]

\* The mean and the worst subspace error, of which imbalance is the ratio.
ErrorSpread(trained) ==
  [total |-> SumOf([j \in DOMAIN trained |-> trained[j].error]),
   worst |-> MaxOf({trained[j].error : j \in DOMAIN trained})]

---------------------------------------------------------------------------
(* encode.rs.                                                              *)

EncodeCorpus(corpus, books, ds) ==
  [v \in DOMAIN corpus |-> [j \in DOMAIN books |-> Nearest(Slice(corpus[v], j, ds), books[j])]]

Counts(codes, m, k) ==
  [j \in 1 .. m |-> [c \in 0 .. k - 1 |-> Cardinality({v \in DOMAIN codes : codes[v][j] = c})]]

\* The share of a subspace's references its most used centroids hold.
TopShare(row, top) ==
  MaxOf({SumOf([i \in 1 .. Cardinality(DOMAIN row) |-> IF i - 1 \in S THEN row[i - 1] ELSE 0])
           : S \in {T \in SUBSET DOMAIN row : Cardinality(T) <= top}})

ReconstructionError(corpus, codes, books, ds) ==
  SumOf([v \in DOMAIN corpus |-> SumOf([j \in DOMAIN books |->
           Distance(Slice(corpus[v], j, ds), books[j][codes[v][j]])])])

---------------------------------------------------------------------------
(* build_cmd.rs: train each subspace, then relabel codes and codebooks.     *)

TrainBooks(corpus, m, chosen, iterations) ==
  [j \in 1 .. m |->
    TrainSubspace(Subvectors(corpus, j, Len(corpus[1]) \div m), chosen[j], iterations).centroids]

Labels(books, bits) == [j \in DOMAIN books |-> Optimise(books[j], bits).map]

RelabelledBooks(books, labels) == [j \in DOMAIN books |-> PermuteCodebook(books[j], labels[j]).rows]
RelabelledCodes(codes, labels) ==
  [v \in DOMAIN codes |-> [j \in DOMAIN labels |-> PermuteCodes(<<codes[v][j]>>, labels[j]).codes[1]]]

---------------------------------------------------------------------------
(* What the image owes the corpus.                                         *)

Serialized(rows) ==
  FlattenSeq([i \in DOMAIN rows |->
    [b \in 1 .. HeadBytes |-> (Len(rows[i]) \div ByteBase ^ (b - 1)) % ByteBase] \o rows[i]])

\* A file that loads is exactly the rows it was loaded as: one cut short, padded or with a
\* record of another dimension is refused, never read out of step.  A seek reads the same
\* record as reading up to it.
LoadsFaithfully(file) ==
  LET loaded == LoadRows(file, 1)
      reader == OpenReader(file, 1)
  IN  "rows" \in DOMAIN loaded =>
        /\ Serialized(loaded.rows) = file
        /\ \A i \in DOMAIN loaded.rows :
             LET record == NextRecord(file, SeekTo(reader, i - 1))
             IN  "raw" \in DOMAIN record /\ record.raw = loaded.rows[i]

\* Training never ends worse than the points it started from, an error that is reported is
\* never below that of the codebook returned, and training that stopped early is at rest
\* unless it stopped in its first iteration.
TrainingImproves(points, chosen, iterations) ==
  LET final == TrainSubspace(points, chosen, iterations)
      ErrorOf(centroids) == SumOf([v \in DOMAIN points |->
        Distance(points[v], centroids[Nearest(points[v], centroids)])])
      start == [c \in DOMAIN final.centroids |-> ScaledUp(points[chosen[c + 1]])]
  IN  iterations > 0 =>
        /\ ErrorOf(final.centroids) <= final.error /\ final.error <= ErrorOf(start)
        /\ final.done /\ final.run > 1 => LloydStep(points, final).centroids = final.centroids

\* Each code names a nearest centroid after relabelling as before, so the image keeps the
\* reconstruction of every vector, and the counts kept while encoding are those of the
\* codes: every vector is counted once in each subspace.
BuildKeepsVectors(corpus, trained, labels) ==
  LET m     == Len(trained)
      ds    == Len(corpus[1]) \div m
      k     == Cardinality(DOMAIN trained[1])
      encoded == EncodeCorpus(corpus, trained, ds)
      codes == RelabelledCodes(encoded, labels)
      books == RelabelledBooks(trained, labels)
  IN  /\ \A v \in DOMAIN corpus, j \in 1 .. m :
           /\ books[j][codes[v][j]] = trained[j][encoded[v][j]]
           /\ \A c \in 0 .. k - 1 : Distance(Slice(corpus[v], j, ds), books[j][codes[v][j]])
                                      <= Distance(Slice(corpus[v], j, ds), books[j][c])
      /\ ReconstructionError(corpus, codes, books, ds)
           = ReconstructionError(corpus, encoded, trained, ds)
      /\ \A j \in 1 .. m : TopShare(Counts(encoded, m, k)[j], k) = Len(corpus)
=============================================================================
