----------------------------- MODULE RaceProofs -----------------------------
(***************************************************************************)
(* What any number of appenders promise one another and the readers while  *)
(* the machine keeps its power: everything here until a process is killed, *)
(* and that no append is refused as diverged whoever is killed.            *)
(*                                                                         *)
(* The lock is taken after the mount, so an appender may plan against a    *)
(* manifest that is no longer the newest and withdraw ids another one      *)
(* acknowledged (README, section 5).  The blocks stay in order all the     *)
(* same: each append fills the blocks from one frontier, common to both    *)
(* regions, to the next, and every manifest anybody holds ends at or       *)
(* before the frontier.                                                    *)
(***************************************************************************)
EXTENDS StoreProofs, FiniteSetTheorems

\* A region is a whole number of payload blocks' records: the builder sizes it
\* in sectors.  Without it, the erased records of the gap could be counted as
\* room for a unit that does not fit.
RecordsFillUnits == (RerankBlocks * PerRerank) % PerPayload = 0

BuiltCodes   == Blocks(BuiltN, PerPayload)
BuiltRecords == Blocks(BuiltN, PerRerank)

\* The blocks behind the frontier: in the rerank region the appended records
\* begin where the appended codes do, past the built ones.
Filled(F) ==
  {c \in Cell :
     IF c[1] \in {"payload", "payloadCrc"}
     THEN c[2] < F
     ELSE \/ c[2] < BuiltRecords
          \/ HeadRerank(BuiltCodes) <= c[2] /\ c[2] < HeadRerank(F)}

Fits(F, count) ==
  /\ F + (count \div PerPayload) <= PayloadBlocks
  /\ HeadRerank(F) + (count \div PerRerank) <= RerankBlocks

FrontierInv(F) ==
  /\ BuiltCodes <= F
  /\ F <= PayloadBlocks
  /\ F # BuiltCodes => HeadRerank(F) <= RerankBlocks

\* Every block behind the frontier passes its CRC.
Sealed(F, region, crc) ==
  \A b \in Nat :
    <<region, b>> \in Filled(F) =>
      /\ flash[<<region, b>>].kind = "data"
      /\ flash[<<crc, b>>] = flash[<<region, b>>]

\* Every block past it is erased, unless it is of the batch being written.
BlankPast(F) ==
  \A c \in Cell \ Filled(F) :
    flash[c] # Blank => \E a \in Appenders : pc[a] \in Programming /\ c \in BatchCells(a)

BatchAt(a, F) ==
  /\ pc[a] \in Programming =>
       /\ call[a].head = F
       /\ call[a].headRerank = HeadRerank(F)
       /\ BatchWritten(a)
       /\ Fits(F, call[a].count)
  /\ pc[a] \in {"erase", "install", "sync"} =>
       /\ BuiltCodes <= call[a].head
       /\ F = call[a].head + (call[a].count \div PerPayload)

\* A manifest is the built one, or holds a run of blocks behind the frontier.
Known(m, F) ==
  m.valid =>
    \/ m.sequence = 1 /\ m.n = BuiltN /\ m.from = BuiltN
    \/ /\ m.sequence >= 2
       /\ FirstId(BuiltCodes) <= m.from
       /\ m.from < m.n
       /\ m.n <= FirstId(F)

CallKnown(a, F) ==
  /\ Known(call[a].slotA, F)
  /\ Known(call[a].before, F)
  /\ pc[a] \in {"mounted"} \cup Writing => call[a].before.valid

ReaderKnown(r, F) ==
  /\ Known(reader[r].slotA, F)
  /\ Known(reader[r].manifest, F)
  /\ reader[r].state = "mounted" => reader[r].manifest.valid

\* Slot A verifies but while it is being replaced; slot B does once anything was
\* appended, but while it is being replaced.
SlotsKnown(F) ==
  /\ \A s \in Slot : Known(slot[s], F)
  /\ \A s \in Slot : slot[s].valid => NextSlot(slot[s].sequence) # s
  /\ ~slot["A"].valid =>
       \E a \in Appenders : pc[a] = "install" /\ TargetSlot(a) = "A"
  /\ F # BuiltCodes /\ ~slot["B"].valid =>
       \E a \in Appenders : pc[a] \in {"erase", "install"} /\ TargetSlot(a) = "B"

RaceAt(F) ==
  /\ FrontierInv(F)
  /\ Sealed(F, "payload", "payloadCrc")
  /\ Sealed(F, "rerank", "rerankCrc")
  /\ BlankPast(F)
  /\ \A a \in Appenders : BatchAt(a, F) /\ CallKnown(a, F)
  /\ \A r \in Readers : ReaderKnown(r, F)
  /\ SlotsKnown(F)

RaceInv ==
  /\ RecordInv
  /\ NeverRefused
  /\ \E F \in Nat : RaceAt(F)

---------------------------------------------------------------------------
(* The arithmetic of frontiers. *)

\* The records of a payload block.
PerCode == PerPayload \div PerRerank

LEMMA PerCodeType == PerCode \in Nat \ {0} /\ PerPayload = PerCode * PerRerank
<1>1. PerCode \in Nat /\ PerPayload = PerCode * PerRerank
  BY Span DEF PerCode
<1>2. PerCode # 0
  BY <1>1, GeometryAssumption
<1>3. QED
  BY <1>1, <1>2

LEMMA HeadBlocks ==
  ASSUME NEW h \in Nat
  PROVE  HeadRerank(h) = h * PerCode /\ h * PerCode \in Nat /\ FirstId(h) \in Nat
<1>1. PerCode \in Nat /\ PerPayload = PerCode * PerRerank
  BY PerCodeType
<1>2. h * PerCode \in Nat /\ FirstId(h) \in Nat
  BY <1>1, GeometryAssumption DEF FirstId
<1>3. (h * PerCode) * PerRerank = h * (PerCode * PerRerank)
  BY <1>1, GeometryAssumption
<1>4. (h * PerCode) * PerRerank = FirstId(h)
  BY <1>1, <1>3 DEF FirstId
<1>5. ((h * PerCode) + 1) * PerRerank = (h * PerCode) * PerRerank + PerRerank
  BY <1>2, GeometryAssumption
<1>6. FirstId(h) \div PerRerank = h * PerCode
  BY <1>2, <1>4, <1>5, DivUnique, GeometryAssumption
<1>7. QED
  BY <1>2, <1>6 DEF HeadRerank

LEMMA HeadMono ==
  ASSUME NEW g \in Nat, NEW h \in Nat, g <= h
  PROVE  HeadRerank(g) <= HeadRerank(h) /\ FirstId(g) <= FirstId(h)
<1>1. g * PerCode <= h * PerCode
  BY PerCodeType, MulMono
<1>2. FirstId(g) <= FirstId(h)
  BY GeometryAssumption, MulMono DEF FirstId
<1>3. QED
  BY <1>1, <1>2, HeadBlocks

\* A batch moves the frontier alike in both regions.
LEMMA Advance ==
  ASSUME NEW h \in Nat, NEW count \in Nat, WholeUnits(count)
  PROVE  LET c == count \div PerPayload
         IN  /\ c \in Nat \ {0}
             /\ count \div PerRerank = c * PerCode
             /\ FirstId(h + c) = FirstId(h) + count
             /\ HeadRerank(h + c) = HeadRerank(h) + (count \div PerRerank)
<1> DEFINE c == count \div PerPayload
<1>1. c \in Nat /\ count = c * PerPayload /\ c # 0
  BY BatchFillsBlock, UnitsDivide, GeometryAssumption
<1> HIDE DEF c
<1>2. PerCode \in Nat /\ PerPayload \in Nat /\ PerRerank \in Nat
  BY PerCodeType, GeometryAssumption
<1>3. count \div PerRerank = c * PerCode
  <2>1. FirstId(c) = count
    BY <1>1 DEF FirstId
  <2>2. QED
    BY <1>1, <2>1, HeadBlocks DEF HeadRerank
<1>4. FirstId(h + c) = FirstId(h) + count
  BY <1>1, <1>2 DEF FirstId
<1>5. HeadRerank(h + c) = HeadRerank(h) + (count \div PerRerank)
  <2>1. (h + c) * PerCode = h * PerCode + c * PerCode
    BY <1>1, <1>2
  <2>2. h + c \in Nat
    BY <1>1
  <2>3. QED
    BY <1>1, <1>3, <2>1, <2>2, HeadBlocks
<1>6. QED
  BY <1>1, <1>3, <1>4, <1>5 DEF c

\* The builder's records end at most a gap before the first appended one.
LEMMA Gap ==
  /\ BuiltCodes \in Nat \ {0}
  /\ BuiltRecords \in Nat
  /\ BuiltN <= FirstId(BuiltCodes)
  /\ BuiltRecords <= HeadRerank(BuiltCodes)
  /\ (BuiltCodes - 1) * PerCode < BuiltRecords
  /\ BuiltCodes <= PayloadBlocks
  /\ BuiltRecords <= RerankBlocks
<1> DEFINE b == BuiltCodes
           r == BuiltRecords
<1>1. /\ BuiltN \in Nat \ {0} /\ PerPayload \in Nat \ {0} /\ PerRerank \in Nat \ {0}
      /\ PayloadBlocks \in Nat /\ RerankBlocks \in Nat
  BY GeometryAssumption
<1>2. b \in Nat /\ r \in Nat
  BY <1>1 DEF Blocks, BuiltCodes, BuiltRecords
<1>3. \A k \in Nat : (k < b <=> k * PerPayload < BuiltN) /\ (k < r <=> k * PerRerank < BuiltN)
  BY <1>1, BlocksFilled DEF BuiltCodes, BuiltRecords
<1> HIDE DEF b, r
<1>4. b # 0
  BY <1>1, <1>2, <1>3
<1>5. BuiltN <= FirstId(b)
  BY <1>1, <1>2, <1>3 DEF FirstId
<1>6. r <= HeadRerank(b)
  <2>1. HeadRerank(b) \in Nat /\ FirstId(b) \in Nat
    BY <1>2, HeadBlocks
  <2>2. HeadRerank(b) * PerRerank = FirstId(b)
    BY <1>2, HeadAligned
  <2>3. ~(HeadRerank(b) < r)
    BY <1>1, <1>3, <1>5, <2>1, <2>2
  <2>4. QED
    BY <1>2, <2>1, <2>3
<1>7. (b - 1) * PerCode < r
  <2>1. b - 1 \in Nat
    BY <1>2, <1>4
  <2>2. HeadRerank(b - 1) = (b - 1) * PerCode /\ (b - 1) * PerCode \in Nat
    BY <2>1, HeadBlocks
  <2>3. HeadRerank(b - 1) * PerRerank = (b - 1) * PerPayload
    BY <2>1, HeadAligned DEF FirstId
  <2>4. (b - 1) * PerPayload < BuiltN
    BY <1>2, <1>3, <2>1
  <2>5. QED
    BY <1>3, <2>2, <2>3, <2>4
<1>8. b <= PayloadBlocks /\ r <= RerankBlocks
  BY <1>1, <1>2, <1>3, GeometryAssumption
<1>9. QED
  BY <1>2, <1>4, <1>5, <1>6, <1>7, <1>8 DEF b, r

---------------------------------------------------------------------------
(* A volume nobody is writing. *)

Quiet == \A a \in Appenders : pc[a] \notin Past

\* The built blocks alone hold the built manifest; past them, an appended one.
LEMMA LiveKnown ==
  ASSUME TypeOK, Quiet, NEW F \in Nat, RaceAt(F)
  PROVE  /\ Live.valid
         /\ Live.n \in Nat
         /\ F = BuiltCodes => Live.n = BuiltN
         /\ F # BuiltCodes => FirstId(BuiltCodes) <= Live.n
<1>1. SlotsKnown(F) /\ FrontierInv(F)
  BY DEF RaceAt
<1>2. slot["A"].valid /\ (F # BuiltCodes => slot["B"].valid)
  BY <1>1 DEF SlotsKnown, Quiet, Past
<1>3. /\ slot["A"] \in ManifestRecord /\ slot["B"] \in ManifestRecord
      /\ Live \in {slot["A"], slot["B"]} /\ Live.valid
      /\ slot["A"].sequence <= Live.sequence
      /\ slot["B"].valid => slot["B"].sequence <= Live.sequence
  <2>1. slot["A"] \in ManifestRecord /\ slot["B"] \in ManifestRecord
    BY DEF TypeOK, Slot
  <2>2. slot["A"].sequence \in Nat /\ slot["B"].sequence \in Nat
    BY <2>1 DEF ManifestRecord
  <2>3. QED
    BY <1>2, <2>1, <2>2 DEF Live, Select
<1>4. Known(Live, F)
  BY <1>1, <1>3 DEF SlotsKnown, Slot
<1>5. Live.n \in Nat /\ Live.from \in Nat /\ Live.sequence \in Nat
  BY <1>3 DEF ManifestRecord
<1>6. FirstId(BuiltCodes) \in Nat /\ BuiltN \in Nat
  BY Gap, HeadBlocks, GeometryAssumption
<1>7. ASSUME F # BuiltCodes PROVE FirstId(BuiltCodes) <= Live.n
  <2>1. slot["B"].valid /\ NextSlot(slot["B"].sequence) # "B" /\ slot["B"].sequence \in Nat
    BY <1>1, <1>2, <1>3, <1>7 DEF SlotsKnown, Slot, ManifestRecord
  <2>2. slot["B"].sequence # 1
    BY <2>1 DEF NextSlot
  <2>3. Known(slot["B"], F)
    BY <1>1 DEF SlotsKnown, Slot
  <2>4. Live.sequence >= 2
    BY <1>3, <1>5, <2>1, <2>2, <2>3 DEF Known
  <2>5. QED
    BY <1>3, <1>4, <1>5, <1>6, <2>4 DEF Known
<1>8. ASSUME F = BuiltCodes PROVE Live.n = BuiltN
  BY <1>3, <1>4, <1>5, <1>6, <1>8 DEF Known
<1>9. QED
  BY <1>3, <1>5, <1>7, <1>8

LEMMA RunSize ==
  ASSUME NEW lo \in Nat, NEW hi \in Nat, lo <= hi, NEW S \in SUBSET (lo .. hi - 1)
  PROVE  Cardinality(S) \in Nat /\ Cardinality(S) <= hi - lo
<1>1. lo \in Int /\ hi - 1 \in Int
  OBVIOUS
<1>2. /\ IsFiniteSet(lo .. hi - 1)
      /\ Cardinality(lo .. hi - 1) = IF lo > hi - 1 THEN 0 ELSE hi - 1 - lo + 1
  BY <1>1, FS_Interval, Zenon
<1>3. (IF lo > hi - 1 THEN 0 ELSE hi - 1 - lo + 1) = hi - lo
  OBVIOUS
<1>4. Cardinality(lo .. hi - 1) = hi - lo
  BY <1>2, <1>3
<1>5. IsFiniteSet(S) /\ Cardinality(S) <= Cardinality(lo .. hi - 1)
  BY <1>2, FS_Subset
<1>6. Cardinality(S) \in Nat
  BY <1>5, FS_CardinalityType
<1>7. QED
  BY <1>4, <1>5, <1>6

\* What `find_head` finds is the frontier, and the rerank block it implies is erased.
LEMMA FrontierIsHead ==
  ASSUME TypeOK, Quiet, NEW F \in Nat, RaceAt(F)
  PROVE  /\ \A b \in PayloadBlock : IsHead(b) => b = F
         /\ F < PayloadBlocks => F \in PayloadBlock /\ IsHead(F)
         /\ HeadRerank(F) < RerankBlocks => Erased(<<"rerank", HeadRerank(F)>>)
<1>1. BlankPast(F) /\ Sealed(F, "payload", "payloadCrc") /\ FrontierInv(F)
  BY DEF RaceAt
<1>2. \A c \in Cell \ Filled(F) : flash[c] = Blank
  BY <1>1 DEF BlankPast, Quiet, Past
<1>3. ASSUME NEW b \in PayloadBlock PROVE b \in Nat /\ (Erased(<<"payload", b>>) <=> F <= b)
  <2>1. b \in Nat /\ <<"payload", b>> \in Cell
    BY <1>3, GeometryAssumption DEF PayloadBlock, Cell
  <2>2. CASE b < F
    <3>1. <<"payload", b>> \in Filled(F)
      BY <2>1, <2>2 DEF Filled
    <3>2. flash[<<"payload", b>>].kind = "data"
      BY <1>1, <2>1, <3>1 DEF Sealed
    <3>3. QED
      BY <2>1, <2>2, <3>2 DEF Erased, Blank, Content
  <2>3. CASE F <= b
    <3>1. <<"payload", b>> \notin Filled(F)
      BY <2>1, <2>3 DEF Filled
    <3>2. QED
      BY <1>2, <2>1, <2>3, <3>1 DEF Erased
  <2>4. QED
    BY <2>1, <2>2, <2>3
<1>4. ASSUME NEW b \in PayloadBlock, IsHead(b) PROVE b = F
  <2>1. b \in Nat /\ F <= b /\ b < PayloadBlocks
    BY <1>3, <1>4, GeometryAssumption DEF IsHead, PayloadBlock
  <2>2. F < b => FALSE
    <3> SUFFICES ASSUME F < b PROVE FALSE
      OBVIOUS
    <3>1. F \in PayloadBlock /\ F \in 0 .. b - 1
      BY <2>1, GeometryAssumption DEF PayloadBlock
    <3>2. Erased(<<"payload", F>>)
      BY <1>3, <3>1
    <3>3. QED
      BY <1>4, <3>1, <3>2 DEF IsHead
  <2>3. QED
    BY <2>1, <2>2
<1>5. ASSUME F < PayloadBlocks PROVE F \in PayloadBlock /\ IsHead(F)
  <2>1. F \in PayloadBlock
    BY <1>5, GeometryAssumption DEF PayloadBlock
  <2>2. \A c \in 0 .. F - 1 : c \in PayloadBlock /\ c < F /\ c \in Nat
    BY <1>5, GeometryAssumption DEF PayloadBlock
  <2>3. Erased(<<"payload", F>>)
    BY <1>3, <2>1
  <2>4. ASSUME NEW c \in 0 .. F - 1 PROVE ~Erased(<<"payload", c>>)
    <3>1. c \in PayloadBlock /\ c < F /\ c \in Nat
      BY <2>2
    <3>2. QED
      BY <1>3, <3>1
  <2>5. QED
    BY <2>1, <2>3, <2>4 DEF IsHead
<1>6. ASSUME HeadRerank(F) < RerankBlocks PROVE Erased(<<"rerank", HeadRerank(F)>>)
  <2>1. /\ HeadRerank(F) \in Nat /\ HeadRerank(BuiltCodes) \in Nat
        /\ BuiltRecords \in Nat /\ BuiltRecords <= HeadRerank(BuiltCodes)
        /\ HeadRerank(BuiltCodes) <= HeadRerank(F)
    BY <1>1, Gap, HeadBlocks, HeadMono DEF FrontierInv
  <2>2. <<"rerank", HeadRerank(F)>> \in Cell
    BY <1>6, <2>1, GeometryAssumption DEF Cell, RerankBlock
  <2>3. <<"rerank", HeadRerank(F)>> \notin Filled(F)
    BY <2>1 DEF Filled
  <2>4. QED
    BY <1>2, <2>2, <2>3 DEF Erased
<1>7. QED
  BY <1>4, <1>5, <1>6

\* A batch `capacity` has room for fits past the frontier in both regions.
LEMMA RoomFits ==
  ASSUME RecordsFillUnits, TypeOK, Quiet, NEW F \in Nat, RaceAt(F),
         NEW count \in Nat, WholeUnits(count), RoomFor(count)
  PROVE  Fits(F, count)
<1> DEFINE c == count \div PerPayload
           P == {b \in Blocks(Live.n, PerPayload) .. PayloadBlocks - 1 : Erased(<<"payload", b>>)}
           R == {b \in Blocks(Live.n, PerRerank) .. RerankBlocks - 1 : Erased(<<"rerank", b>>)}
<1>1. /\ BlankPast(F) /\ FrontierInv(F)
      /\ Sealed(F, "payload", "payloadCrc") /\ Sealed(F, "rerank", "rerankCrc")
  BY DEF RaceAt
<1>2. /\ count <= PerPayload * Cardinality(P)
      /\ count <= PerRerank * Cardinality(R)
  BY DEF RoomFor, PayloadSlots, RerankSlots, ErasedSlots
<1>3. /\ c \in Nat \ {0} /\ count = c * PerPayload
      /\ count \div PerRerank = c * PerCode /\ count = (c * PerCode) * PerRerank
      /\ HeadRerank(F + c) = HeadRerank(F) + (count \div PerRerank)
  <2>1. c \in Nat \ {0} /\ count \div PerRerank = c * PerCode
        /\ HeadRerank(F + c) = HeadRerank(F) + (count \div PerRerank)
    BY Advance
  <2>2. count % PerPayload = 0 /\ count % PerRerank = 0
    BY UnitsDivide
  <2>3. count = c * PerPayload
    BY <2>2, GeometryAssumption
  <2>4. count = (count \div PerRerank) * PerRerank
    BY <2>2, GeometryAssumption
  <2>5. QED
    BY <2>1, <2>3, <2>4
<1>4. /\ PerPayload \in Nat \ {0} /\ PerRerank \in Nat \ {0} /\ PayloadBlocks \in Nat
      /\ RerankBlocks \in Nat /\ PerCode \in Nat \ {0} /\ F <= PayloadBlocks
      /\ PerPayload = PerCode * PerRerank
  BY <1>1, GeometryAssumption, PerCodeType DEF FrontierInv
<1>5. Live.n \in Nat /\ (F = BuiltCodes => Live.n = BuiltN)
      /\ (F # BuiltCodes => FirstId(BuiltCodes) <= Live.n)
  BY LiveKnown
<1>6. P \subseteq F .. PayloadBlocks - 1
  <2> SUFFICES ASSUME NEW b \in P PROVE b \in F .. PayloadBlocks - 1
    OBVIOUS
  <2>1. b \in 0 .. PayloadBlocks - 1 /\ Erased(<<"payload", b>>) /\ b \in Nat
    <3>1. <<"payload", b>> \in Cell
      BY DEF Erased
    <3>2. b \in PayloadBlock
      BY <3>1 DEF Cell
    <3>3. QED
      BY <1>4, <3>2 DEF PayloadBlock
  <2>2. <<"payload", b>> \in Cell /\ flash[<<"payload", b>>] = Blank
    BY <2>1 DEF Erased
  <2>3. <<"payload", b>> \notin Filled(F)
    <3>1. flash[<<"payload", b>>].kind = "blank"
      BY <2>2 DEF Blank, Content
    <3>2. <<"payload", b>> \in Filled(F) => flash[<<"payload", b>>].kind = "data"
      BY <1>1, <2>1 DEF Sealed
    <3>3. QED
      BY <3>1, <3>2
  <2>4. ~(b < F)
    BY <2>2, <2>3 DEF Filled
  <2>5. QED
    BY <1>4, <2>1, <2>4
<1>7. F + c <= PayloadBlocks
  <2>1. Cardinality(P) \in Nat /\ Cardinality(P) <= PayloadBlocks - F
    <3> HIDE DEF P
    <3>1. QED
      BY <1>4, <1>6, RunSize
  <2> HIDE DEF P, c
  <2>2. Cardinality(P) + 1 <= c => (Cardinality(P) + 1) * PerPayload <= c * PerPayload
    BY <1>3, <1>4, <2>1, MulMono
  <2>3. (Cardinality(P) + 1) * PerPayload = PerPayload * Cardinality(P) + PerPayload
    BY <1>4, <2>1
  <2>4. PerPayload * Cardinality(P) \in Nat
    BY <1>4, <2>1
  <2>5. c <= Cardinality(P)
    BY <1>2, <1>3, <1>4, <2>1, <2>2, <2>3, <2>4
  <2>6. QED
    BY <1>3, <1>4, <2>1, <2>5
<1> DEFINE lo == IF F = BuiltCodes THEN BuiltRecords ELSE HeadRerank(F)
<1>8. lo \in Nat /\ lo <= RerankBlocks /\ R \subseteq lo .. RerankBlocks - 1
  <2>1. lo \in Nat /\ lo <= RerankBlocks
    BY <1>1, Gap, HeadBlocks DEF FrontierInv
  <2>2. ASSUME NEW b \in R PROVE b \in Nat /\ b < RerankBlocks /\ lo <= b
    <3>1. <<"rerank", b>> \in Cell /\ flash[<<"rerank", b>>] = Blank
      BY DEF Erased
    <3>2. b \in RerankBlock
      BY <3>1 DEF Cell
    <3>3. b \in Nat /\ b < RerankBlocks
      BY <1>4, <3>2 DEF RerankBlock
    <3>4. <<"rerank", b>> \notin Filled(F)
      <4>1. flash[<<"rerank", b>>].kind = "blank"
        BY <3>1 DEF Blank, Content
      <4>2. <<"rerank", b>> \in Filled(F) => flash[<<"rerank", b>>].kind = "data"
        BY <1>1, <3>3 DEF Sealed
      <4>3. QED
        BY <4>1, <4>2
    <3>5. ~(b < BuiltRecords) /\ ~(HeadRerank(BuiltCodes) <= b /\ b < HeadRerank(F))
      BY <3>1, <3>4 DEF Filled
    <3>6. CASE F = BuiltCodes
      BY <3>3, <3>5, <3>6, Gap
    <3>7. CASE F # BuiltCodes
      <4>1. Blocks(Live.n, PerRerank) <= b /\ Blocks(Live.n, PerRerank) \in Nat
        BY <1>4, <1>5, <3>3 DEF Blocks
      <4>2. HeadRerank(BuiltCodes) * PerRerank <= Live.n
        BY <1>5, <3>7, Gap, HeadAligned
      <4>3. b * PerRerank >= Live.n
        <5>1. b < Blocks(Live.n, PerRerank) <=> b * PerRerank < Live.n
          BY <1>4, <1>5, <3>3, BlocksFilled
        <5>2. b * PerRerank \in Nat
          BY <1>4, <3>3
        <5>3. QED
          BY <1>5, <3>3, <4>1, <5>1, <5>2
      <4>4. HeadRerank(BuiltCodes) \in Nat /\ HeadRerank(F) \in Nat
        BY Gap, HeadBlocks
      <4>5. HeadRerank(BuiltCodes) <= b
        <5>1. b + 1 <= HeadRerank(BuiltCodes)
                => (b + 1) * PerRerank <= HeadRerank(BuiltCodes) * PerRerank
          BY <1>4, <3>3, <4>4, MulMono
        <5>2. (b + 1) * PerRerank = b * PerRerank + PerRerank
              /\ b * PerRerank \in Nat /\ HeadRerank(BuiltCodes) * PerRerank \in Nat
          BY <1>4, <3>3, <4>4
        <5>3. QED
          BY <1>4, <1>5, <3>3, <4>2, <4>3, <4>4, <5>1, <5>2
      <4>6. QED
        BY <3>3, <3>5, <3>7, <4>4, <4>5
    <3>8. QED
      BY <3>3, <3>6, <3>7
  <2>3. QED
    BY <1>4, <2>1, <2>2
<1>9. HeadRerank(F) + c * PerCode <= RerankBlocks
  <2>1. Cardinality(R) \in Nat /\ Cardinality(R) <= RerankBlocks - lo
    <3> HIDE DEF R, lo
    <3>1. QED
      BY <1>4, <1>8, RunSize
  <2> HIDE DEF R, c
  <2>2. c * PerCode <= Cardinality(R)
    <3> DEFINE d == c * PerCode
               z == Cardinality(R)
    <3>1. d \in Nat /\ z \in Nat /\ count = d * PerRerank
      BY <1>3, <1>4, <2>1
    <3> HIDE DEF d, z
    <3>2. z + 1 <= d => (z + 1) * PerRerank <= d * PerRerank
      BY <1>4, <3>1, MulMono
    <3>3. (z + 1) * PerRerank = PerRerank * z + PerRerank /\ PerRerank * z \in Nat
      BY <1>4, <3>1
    <3>4. count <= PerRerank * z
      BY <1>2 DEF z
    <3>5. d <= z
      BY <1>4, <3>1, <3>2, <3>3, <3>4
    <3>6. QED
      BY <3>5 DEF d, z
  <2>3. c * PerCode \in Nat /\ HeadRerank(F) \in Nat
    BY <1>3, <1>4, HeadBlocks
  <2>4. CASE F # BuiltCodes
    BY <1>4, <1>8, <2>1, <2>2, <2>3, <2>4
  <2>5. CASE F = BuiltCodes
    <3> DEFINE r == (RerankBlocks * PerRerank) \div PerPayload
    <3>1. r \in Nat /\ RerankBlocks * PerRerank = r * PerPayload
      BY <1>4 DEF RecordsFillUnits
    <3> HIDE DEF r
    <3>2. RerankBlocks = r * PerCode
      <4>1. r * PerPayload = (r * PerCode) * PerRerank /\ r * PerCode \in Nat
        BY <1>4, <3>1
      <4>2. RerankBlocks < r * PerCode => (RerankBlocks + 1) * PerRerank <= (r * PerCode) * PerRerank
        BY <1>4, <4>1, MulMono
      <4>3. r * PerCode < RerankBlocks => (r * PerCode + 1) * PerRerank <= RerankBlocks * PerRerank
        BY <1>4, <4>1, MulMono
      <4>4. /\ (RerankBlocks + 1) * PerRerank = RerankBlocks * PerRerank + PerRerank
            /\ (r * PerCode + 1) * PerRerank = (r * PerCode) * PerRerank + PerRerank
            /\ RerankBlocks * PerRerank \in Nat /\ (r * PerCode) * PerRerank \in Nat
        BY <1>4, <4>1
      <4>5. QED
        BY <1>4, <3>1, <4>1, <4>2, <4>3, <4>4
    <3>3. F \in Nat \ {0} /\ (F - 1) * PerCode < BuiltRecords /\ BuiltRecords \in Nat
      BY <2>5, Gap
    <3>4. c * PerCode + BuiltRecords <= r * PerCode
      BY <1>4, <2>1, <2>2, <2>3, <2>5, <3>2, <3>3
    <3>5. (c + (F - 1)) * PerCode < r * PerCode
      <4>1. (c + (F - 1)) * PerCode = c * PerCode + (F - 1) * PerCode
        BY <1>3, <1>4, <3>3
      <4>2. (F - 1) * PerCode \in Nat /\ r * PerCode \in Nat
        BY <1>4, <3>1, <3>3
      <4>3. QED
        BY <2>3, <3>3, <3>4, <4>1, <4>2
    <3>6. c + F <= r
      <4>1. c + (F - 1) \in Nat
        BY <1>3, <3>3
      <4>2. r <= c + (F - 1) => r * PerCode <= (c + (F - 1)) * PerCode
        BY <1>4, <3>1, <4>1, MulMono
      <4>3. r * PerCode \in Nat /\ (c + (F - 1)) * PerCode \in Nat
        BY <1>4, <3>1, <4>1
      <4>4. ~(r <= c + (F - 1))
        BY <3>5, <4>2, <4>3
      <4>5. QED
        BY <1>3, <3>1, <3>3, <4>4
    <3>7. (c + F) * PerCode <= r * PerCode
      BY <1>3, <1>4, <3>1, <3>6, MulMono
    <3>8. (c + F) * PerCode = c * PerCode + F * PerCode /\ HeadRerank(F) = F * PerCode
      BY <1>3, <1>4, HeadBlocks
    <3>9. QED
      BY <2>3, <3>2, <3>7, <3>8
  <2>6. QED
    BY <2>4, <2>5
<1>10. QED
  BY <1>3, <1>7, <1>9 DEF Fits

---------------------------------------------------------------------------
(* The steps that program nothing. *)

Others(a) == \A b \in Appenders \ {a} : pc'[b] = pc[b] /\ call'[b] = call[b]

\* A sealed region stays sealed whatever is programmed.
LEMMA SealedStays ==
  ASSUME Keeps, NEW F \in Nat, RaceAt(F)
  PROVE  Sealed(F, "payload", "payloadCrc")' /\ Sealed(F, "rerank", "rerankCrc")'
<1>1. ASSUME NEW region, NEW crc,
             \/ region = "payload" /\ crc = "payloadCrc"
             \/ region = "rerank" /\ crc = "rerankCrc",
             Sealed(F, region, crc)
      PROVE  Sealed(F, region, crc)'
  <2> SUFFICES ASSUME NEW b \in Nat, <<region, b>> \in Filled(F)
               PROVE  /\ flash'[<<region, b>>].kind = "data"
                      /\ flash'[<<crc, b>>] = flash'[<<region, b>>]
    BY DEF Sealed, Filled
  <2>1. <<region, b>> \in Cell /\ <<crc, b>> \in Cell
    BY <1>1 DEF Filled, Cell
  <2>2. flash[<<region, b>>].kind = "data" /\ flash[<<crc, b>>] = flash[<<region, b>>]
    BY <1>1 DEF Sealed
  <2>3. flash[<<region, b>>] # Blank
    BY <2>2 DEF Blank, Content
  <2>4. QED
    BY <2>1, <2>2, <2>3 DEF Keeps
<1>2. QED
  BY <1>1 DEF RaceAt

\* A step of an appender that is neither programming nor at its manifest.
LEMMA MoveRace ==
  ASSUME NEW F \in Nat, RaceAt(F), NEW a \in Appenders, Others(a),
         flash' = flash, slot' = slot, reader' = reader,
         pc[a] \notin Programming \cup {"erase", "install"},
         BatchAt(a, F)', CallKnown(a, F)'
  PROVE  RaceAt(F)'
<1>1. FrontierInv(F)'
  BY DEF RaceAt, FrontierInv
<1>2. Sealed(F, "payload", "payloadCrc")' /\ Sealed(F, "rerank", "rerankCrc")'
  BY SealedStays DEF Keeps
<1>3. BlankPast(F)'
  <2> SUFFICES ASSUME NEW c \in Cell \ Filled(F), flash[c] # Blank
               PROVE  \E b \in Appenders : pc'[b] \in Programming /\ c \in BatchCells(b)'
    BY DEF BlankPast, Filled
  <2>1. PICK b \in Appenders : pc[b] \in Programming /\ c \in BatchCells(b)
    BY DEF RaceAt, BlankPast
  <2>2. b # a /\ pc'[b] = pc[b] /\ call'[b] = call[b]
    BY <2>1 DEF Others
  <2>3. BatchCells(b)' = BatchCells(b)
    BY <2>2 DEF BatchCells, Begin, Wrote
  <2>4. QED
    BY <2>1, <2>2, <2>3
<1>4. ASSUME NEW b \in Appenders PROVE BatchAt(b, F)' /\ CallKnown(b, F)'
  <2>1. CASE b # a
    <3>1. pc'[b] = pc[b] /\ call'[b] = call[b]
      BY <2>1 DEF Others
    <3>2. BatchCells(b)' = BatchCells(b)
      BY <3>1 DEF BatchCells, Begin, Wrote
    <3>3. BatchWritten(b)' = BatchWritten(b)
      BY <3>1, <3>2 DEF BatchWritten, Holding
    <3>4. BatchAt(b, F) /\ CallKnown(b, F)
      BY DEF RaceAt
    <3>5. BatchAt(b, F)'
      BY <3>1, <3>3, <3>4 DEF BatchAt, Fits
    <3>6. CallKnown(b, F)'
      BY <3>1, <3>4 DEF CallKnown, Known
    <3>7. QED
      BY <3>5, <3>6
  <2>2. QED
    BY <2>1
<1>5. \A r \in Readers : ReaderKnown(r, F)'
  BY DEF RaceAt, ReaderKnown, Known
<1>6. SlotsKnown(F)'
  <2>1. \A b \in Appenders : pc[b] \in {"erase", "install"} =>
          pc'[b] = pc[b] /\ TargetSlot(b)' = TargetSlot(b)
    BY DEF Others, TargetSlot
  <2>2. SlotsKnown(F)
    BY DEF RaceAt
  <2>3. QED
    BY <2>1, <2>2 DEF SlotsKnown, Known
<1>7. QED
  BY <1>1, <1>2, <1>3, <1>4, <1>5, <1>6 DEF RaceAt

LEMMA NoManifestKnown == \A F : Known(NoManifest, F)
BY DEF Known, NoManifest

LEMMA OthersMove ==
  ASSUME TypeOK, NEW a \in Appenders, NEW label, Goto(a, label),
         NEW rec, call' = call \/ call' = [call EXCEPT ![a] = rec]
  PROVE  Others(a) /\ pc'[a] = label
BY DEF TypeOK, Others, Goto

\* A call that ends, but for the outcomes that must not happen.
LEMMA ReturnRace ==
  ASSUME TypeOK, NeverRefused, NEW F \in Nat, RaceAt(F), NEW a \in Appenders,
         NEW how, how \notin {"refused", "diverged"}, Return(a, how),
         flash' = flash, slot' = slot, reader' = reader,
         pc[a] \notin Programming \cup {"erase", "install"}
  PROVE  NeverRefused' /\ RaceAt(F)'
<1>1. Others(a) /\ pc'[a] = "idle"
  BY OthersMove DEF Return
<1>2. call'[a] = NoCall /\ outcome' = [outcome EXCEPT ![a] = how]
  BY DEF TypeOK, Return
<1>3. NeverRefused'
  BY <1>2 DEF TypeOK, NeverRefused
<1>4. BatchAt(a, F)'
  BY <1>1 DEF BatchAt, Programming
<1>5. CallKnown(a, F)'
  BY <1>1, <1>2, NoManifestKnown DEF CallKnown, Known, NoCall, NoManifest, Writing
<1>6. QED
  BY <1>1, <1>3, <1>4, <1>5, MoveRace

LEMMA RefuseRace ==
  ASSUME TypeOK, NeverRefused, NEW F \in Nat, RaceAt(F), NEW a \in Appenders,
         NEW why, why \notin {"refused", "diverged"}, Refuse(a, why),
         pc[a] \notin Programming \cup {"erase", "install"}
  PROVE  NeverRefused' /\ RaceAt(F)'
BY ReturnRace DEF Refuse, mediaVars

LEMMA SelectKnown ==
  ASSUME NEW F, NEW x, NEW y, Known(x, F), Known(y, F)
  PROVE  Known(Select(x, y), F)
BY DEF Select

LEMMA StartRace ==
  ASSUME TypeOK, NeverRefused, NEW F \in Nat, RaceAt(F), NEW a \in Appenders,
         NEW count, StartAppend(a, count)
  PROVE  NeverRefused' /\ RaceAt(F)'
<1>1. Others(a) /\ pc'[a] = "mounting"
  BY OthersMove DEF StartAppend
<1>2. call'[a].slotA = slot["A"] /\ call'[a].before = NoManifest
  BY DEF TypeOK, StartAppend, NoCall
<1>3. UNCHANGED <<flash, slot, reader, outcome>>
  BY DEF StartAppend, mediaVars
<1>4. NeverRefused'
  BY <1>3 DEF NeverRefused
<1>5. BatchAt(a, F)'
  BY <1>1 DEF BatchAt, Programming
<1>6. CallKnown(a, F)'
  <2>1. Known(slot["A"], F)
    BY DEF RaceAt, SlotsKnown, Slot
  <2>2. Known(call'[a].slotA, F) /\ Known(call'[a].before, F)
    BY <1>2, <2>1, NoManifestKnown
  <2>3. QED
    BY <1>1, <2>2 DEF CallKnown, Known, Writing
<1>7. pc[a] \notin Programming \cup {"erase", "install"}
  BY DEF StartAppend, Programming
<1>8. QED
  BY <1>1, <1>3, <1>4, <1>5, <1>6, <1>7, MoveRace

LEMMA FinishMountRace ==
  ASSUME TypeOK, NeverRefused, NEW F \in Nat, RaceAt(F), NEW a \in Appenders,
         FinishMount(a)
  PROVE  NeverRefused' /\ RaceAt(F)'
<1>1. pc[a] = "mounting" /\ pc[a] \notin Programming \cup {"erase", "install"}
  BY DEF FinishMount, Programming
<1>2. CASE Refuse(a, "volume") \/ Refuse(a, "notAligned")
  BY <1>1, <1>2, RefuseRace
<1>3. CASE /\ MountedManifest(a).valid
           /\ Goto(a, "mounted")
           /\ call' = [call EXCEPT ![a].before = MountedManifest(a)]
           /\ UNCHANGED <<mediaVars, outcome, lock, reader, boundVars, acked>>
  <2>1. Others(a) /\ pc'[a] = "mounted"
    BY <1>3, OthersMove
  <2>2. call'[a].before = MountedManifest(a) /\ call'[a].slotA = call[a].slotA
    BY <1>3 DEF TypeOK, CallRecord
  <2>3. UNCHANGED <<flash, slot, reader, outcome>>
    BY <1>3 DEF mediaVars
  <2>4. Known(call[a].slotA, F) /\ Known(slot["B"], F)
    BY DEF RaceAt, CallKnown, SlotsKnown, Slot
  <2>5. CallKnown(a, F)'
    <3>1. Known(MountedManifest(a), F)
      BY <2>4, SelectKnown DEF MountedManifest
    <3>2. QED
      BY <1>3, <2>1, <2>2, <2>4, <3>1 DEF CallKnown, Known
  <2>6. BatchAt(a, F)' /\ NeverRefused'
    BY <2>1, <2>3 DEF BatchAt, Programming, NeverRefused
  <2>7. QED
    BY <1>1, <2>1, <2>3, <2>5, <2>6, MoveRace
<1>4. QED
  BY <1>2, <1>3 DEF FinishMount

LEMMA TakeLockRace ==
  ASSUME TypeOK, NeverRefused, NEW F \in Nat, RaceAt(F), NEW a \in Appenders,
         TakeLock(a)
  PROVE  NeverRefused' /\ RaceAt(F)'
<1>1. pc[a] = "mounted" /\ pc[a] \notin Programming \cup {"erase", "install"}
  BY DEF TakeLock, Programming
<1>2. CASE Refuse(a, "locked")
  BY <1>1, <1>2, RefuseRace
<1>3. CASE /\ Goto(a, "locked")
           /\ UNCHANGED <<mediaVars, call, outcome, reader, boundVars, acked>>
  <2>1. Others(a) /\ pc'[a] = "locked"
    BY <1>3, OthersMove
  <2>2. UNCHANGED <<flash, slot, reader, outcome, call>>
    BY <1>3 DEF mediaVars
  <2>3. CallKnown(a, F)'
    BY <1>1, <2>1, <2>2 DEF RaceAt, CallKnown, Known
  <2>4. BatchAt(a, F)' /\ NeverRefused'
    BY <2>1, <2>2 DEF BatchAt, Programming, NeverRefused
  <2>5. QED
    BY <1>1, <2>1, <2>2, <2>3, <2>4, MoveRace
<1>4. QED
  BY <1>2, <1>3 DEF TakeLock

\* The head is the frontier, so the rerank block it implies is erased, and what
\* `capacity` has room for fits.
LEMMA PlanRace ==
  ASSUME RecordsFillUnits, RecordInv, NeverRefused, NEW F \in Nat, RaceAt(F),
         NEW a \in Appenders, Plan(a)
  PROVE  NeverRefused' /\ RaceAt(F)'
<1>1. TypeOK /\ pc[a] = "locked" /\ pc[a] \notin Programming \cup {"erase", "install"}
  BY DEF Plan, Programming, RecordInv
<1>2. Quiet
  BY <1>1 DEF RecordInv, LockHeld, Writing, Quiet, Past, Programming
<1>3. WholeUnits(call[a].count) /\ call[a].part = 0 /\ call[a].count \in Nat
  BY <1>1, CallFacts DEF RecordInv, AppendInv, Writing
<1>4. \A b \in PayloadBlock : IsHead(b) => b = F
  BY <1>1, <1>2, FrontierIsHead
<1>5. CASE Refuse(a, "volume") \/ Refuse(a, "full")
  BY <1>1, <1>5, RefuseRace
<1>6. ASSUME NEW b \in PayloadBlock, IsHead(b), HeadRerank(b) < RerankBlocks,
             ~Erased(<<"rerank", HeadRerank(b)>>)
      PROVE  FALSE
  BY <1>1, <1>2, <1>4, <1>6, FrontierIsHead
<1>7. CASE /\ RoomFor(call[a].count)
           /\ \E b \in PayloadBlock :
                /\ IsHead(b)
                /\ Goto(a, "payload")
                /\ call' = [call EXCEPT ![a].head = b,
                                        ![a].headRerank = HeadRerank(b)]
                /\ UNCHANGED <<mediaVars, outcome, lock, reader, boundVars, acked>>
  <2>1. /\ Goto(a, "payload")
        /\ call' = [call EXCEPT ![a].head = F, ![a].headRerank = HeadRerank(F)]
        /\ UNCHANGED <<mediaVars, outcome, lock, reader, boundVars, acked>>
    BY <1>4, <1>7
  <2>2. Others(a) /\ pc'[a] = "payload"
    BY <1>1, <2>1 DEF TypeOK, Others, Goto
  <2>3. UNCHANGED <<flash, slot, reader, outcome>>
    BY <2>1 DEF mediaVars
  <2>4. /\ call'[a].head = F /\ call'[a].headRerank = HeadRerank(F)
        /\ call'[a].part = call[a].part /\ call'[a].count = call[a].count
        /\ call'[a].before = call[a].before /\ call'[a].slotA = call[a].slotA
    <3>1. call'[a] = [call[a] EXCEPT !.head = F, !.headRerank = HeadRerank(F)]
      BY <1>1, <2>1 DEF TypeOK
    <3>2. call[a] \in CallRecord
      BY <1>1 DEF TypeOK
    <3>3. QED
      BY <3>1, <3>2 DEF CallRecord
  <2>5. Fits(F, call[a].count)
    BY <1>1, <1>2, <1>3, <1>7, RoomFits
  <2>6. BatchCells(a)' = {}
    <3>1. F \in Nat /\ HeadRerank(F) \in Nat
      BY HeadBlocks
    <3>2. QED
      BY <1>3, <2>2, <2>4, <3>1 DEF BatchCells, Begin, Wrote, Regions
  <2>7. BatchAt(a, F)'
    BY <2>2, <2>4, <2>5, <2>6 DEF BatchAt, BatchWritten, Fits
  <2>8. CallKnown(a, F)'
    BY <1>1, <2>2, <2>4 DEF RaceAt, CallKnown, Known, Writing
  <2>9. NeverRefused'
    BY <2>3 DEF NeverRefused
  <2>10. QED
    BY <1>1, <2>2, <2>3, <2>7, <2>8, <2>9, MoveRace
<1>8. QED
  BY <1>5, <1>6, <1>7 DEF Plan

LEMMA ReportRace ==
  ASSUME TypeOK, NeverRefused, NEW F \in Nat, RaceAt(F), NEW a \in Appenders,
         SyncAndReport(a)
  PROVE  NeverRefused' /\ RaceAt(F)'
<1>1. /\ pc[a] \notin Programming \cup {"erase", "install"}
      /\ Return(a, "ok") /\ UNCHANGED <<flash, slot, reader>>
  BY DEF SyncAndReport, Programming
<1>2. QED
  BY <1>1, ReturnRace

---------------------------------------------------------------------------
(* The steps that program. *)

\* Where an appender programs next.
Target(a) == <<pc[a], Begin(a, pc[a]) + call[a].part>>

\* Only the lock holder writes.
LEMMA Alone ==
  ASSUME RecordInv, NEW a \in Appenders, pc[a] \in Past, NEW b \in Appenders, b # a
  PROVE  pc[b] \notin Writing
BY DEF RecordInv, LockHeld, Past, Programming, Writing

\* A batch that fits finds its next cell erased: NOR programming does not refuse it.
LEMMA TargetErased ==
  ASSUME RecordInv, NEW F \in Nat, RaceAt(F), NEW a \in Appenders, pc[a] \in Programming
  PROVE  Erased(Target(a))
<1> DEFINE c == call[a].count \div PerPayload
           d == call[a].count \div PerRerank
           part == call[a].part
           count == call[a].count
<1>1. TypeOK /\ AppendInv(a) /\ BatchAt(a, F) /\ FrontierInv(F) /\ BlankPast(F)
  BY DEF RecordInv, RaceAt
<1>2. /\ part \in Nat /\ count \in Nat /\ WholeUnits(count)
      /\ call[a].head = F /\ call[a].headRerank = HeadRerank(F) /\ HeadRerank(F) \in Nat
      /\ F + c <= PayloadBlocks /\ HeadRerank(F) + d <= RerankBlocks
  BY <1>1, CallFacts, HeadBlocks
     DEF BatchAt, Fits, AppendInv, Programming, Writing
<1>3. c \in Nat /\ d \in Nat /\ PayloadBlocks \in Nat /\ RerankBlocks \in Nat
  BY <1>2, GeometryAssumption
<1> HIDE DEF c, d, part, count
<1>4. /\ HeadRerank(BuiltCodes) \in Nat /\ BuiltRecords \in Nat
      /\ BuiltRecords <= HeadRerank(BuiltCodes)
      /\ HeadRerank(BuiltCodes) <= HeadRerank(F)
  BY <1>1, Gap, HeadBlocks, HeadMono DEF FrontierInv
<1>5. Target(a) \in Cell \ Filled(F)
  <2>1. CASE pc[a] \in {"payload", "payloadCrc"}
    <3>1. part < c
      BY <1>1, <2>1 DEF AppendInv, c, part
    <3>2. Target(a) = <<pc[a], F + part>> /\ F + part \in PayloadBlock
      BY <1>2, <1>3, <2>1, <3>1 DEF Target, Begin, PayloadBlock, part
    <3>3. QED
      BY <1>2, <2>1, <3>2 DEF Cell, Filled
  <2>2. CASE pc[a] \in {"rerank", "rerankCrc"}
    <3>1. part < d
      BY <1>1, <2>2 DEF AppendInv, d, part
    <3>2. Target(a) = <<pc[a], HeadRerank(F) + part>> /\ HeadRerank(F) + part \in RerankBlock
      BY <1>2, <1>3, <2>2, <3>1 DEF Target, Begin, RerankBlock, part
    <3>3. QED
      BY <1>2, <1>4, <2>2, <3>2 DEF Cell, Filled
  <2>3. QED
    BY <2>1, <2>2 DEF Programming
<1>6. \A b \in Appenders : pc[b] \in Programming => b = a
  BY Alone DEF Past, Programming, Writing
<1>7. Target(a) \notin BatchCells(a)
  <2>1. Target(a)[1] = pc[a] /\ Target(a)[2] = Begin(a, pc[a]) + part
    BY DEF Target, part
  <2>2. Wrote(a, pc[a]) = part
    BY DEF Wrote, Programming, part
  <2>3. QED
    BY <2>1, <2>2 DEF BatchCells
<1>8. flash[Target(a)] = Blank
  BY <1>1, <1>5, <1>6, <1>7 DEF BlankPast
<1>9. QED
  BY <1>5, <1>8 DEF Erased

LEMMA WriteRace ==
  ASSUME RecordInv, NEW F \in Nat, RaceAt(F), NEW a \in Appenders, Others(a), Keeps,
         pc[a] \in Programming, pc'[a] \in Programming, slot' = slot, reader' = reader,
         call'[a].op = call[a].op, call'[a].head = call[a].head,
         call'[a].headRerank = call[a].headRerank, call'[a].count = call[a].count,
         call'[a].before = call[a].before, call'[a].slotA = call[a].slotA,
         NEW c \in Cell, flash'[c] = Data(call[a].op, FirstId(call[a].head)),
         \A d \in Cell : d # c => flash'[d] = flash[d],
         BatchCells(a)' = BatchCells(a) \cup {c}
  PROVE  RaceAt(F)'
<1>1. FrontierInv(F)'
  BY DEF RaceAt, FrontierInv
<1>2. Sealed(F, "payload", "payloadCrc")' /\ Sealed(F, "rerank", "rerankCrc")'
  BY SealedStays
<1>3. \A b \in Appenders : b # a => pc[b] \notin Writing
  BY Alone DEF Past
<1>4. BlankPast(F)'
  <2> SUFFICES ASSUME NEW d \in Cell \ Filled(F), flash'[d] # Blank
               PROVE  d \in BatchCells(a)'
    BY DEF BlankPast, Filled
  <2>1. CASE d = c
    BY <2>1
  <2>2. CASE d # c
    <3>1. PICK b \in Appenders : pc[b] \in Programming /\ d \in BatchCells(b)
      BY <2>2 DEF RaceAt, BlankPast
    <3>2. b = a
      BY <1>3, <3>1 DEF Programming, Writing
    <3>3. QED
      BY <3>1, <3>2
  <2>3. QED
    BY <2>1, <2>2
<1>5. BatchAt(a, F)'
  <2>1. BatchAt(a, F)
    BY DEF RaceAt
  <2>2. BatchWritten(a)'
    <3>1. BatchWritten(a)
      BY <2>1 DEF BatchAt
    <3>2. QED
      BY <3>1, BatchGrows
  <2>3. pc'[a] \notin {"erase", "install", "sync"}
    BY DEF Programming
  <2>4. QED
    BY <2>1, <2>2, <2>3 DEF BatchAt, Fits
<1>6. ASSUME NEW b \in Appenders, b # a PROVE BatchAt(b, F)'
  <2>1. pc'[b] \notin Writing
    BY <1>3, <1>6 DEF Others
  <2>2. QED
    BY <2>1 DEF BatchAt, Writing, Programming
<1>7. ASSUME NEW b \in Appenders PROVE CallKnown(b, F)'
  <2>1. CallKnown(b, F)
    BY DEF RaceAt
  <2>2. CASE b = a
    BY <2>1, <2>2 DEF CallKnown, Known, Programming, Writing
  <2>3. CASE b # a
    <3>1. pc'[b] = pc[b] /\ call'[b] = call[b]
      BY <2>3 DEF Others
    <3>2. QED
      BY <2>1, <3>1 DEF CallKnown, Known
  <2>4. QED
    BY <2>2, <2>3
<1>8. \A r \in Readers : ReaderKnown(r, F)'
  BY DEF RaceAt, ReaderKnown, Known
<1>9. SlotsKnown(F)'
  <2>1. SlotsKnown(F)
    BY DEF RaceAt
  <2>2. \A b \in Appenders : pc[b] \notin {"erase", "install"}
    BY <1>3 DEF Programming, Writing
  <2>3. QED
    BY <2>1, <2>2 DEF SlotsKnown, Known
<1>10. QED
  BY <1>1, <1>2, <1>4, <1>5, <1>6, <1>7, <1>8, <1>9 DEF RaceAt

\* What a program of the target does.
LEMMA ProgramTarget ==
  ASSUME RecordInv, NEW a \in Appenders, pc[a] \in Programming, NEW op, NEW base,
         Erased(Target(a)), Program(Target(a), Data(op, base))
  PROVE  /\ Keeps /\ slot' = slot /\ Target(a) \in Cell
         /\ flash'[Target(a)] = Data(op, base)
         /\ \A d \in Cell : d # Target(a) => flash'[d] = flash[d]
<1>1. TypeOK
  BY DEF RecordInv
<1>2. Keeps
  BY <1>1, ProgramKeeps
<1>3. QED
  BY <1>1, <1>2 DEF TypeOK, Program, Erased

LEMMA BlockRace ==
  ASSUME RecordInv, NeverRefused, NEW F \in Nat, RaceAt(F), NEW a \in Appenders,
         ProgramPayload(a) \/ ProgramRerank(a)
  PROVE  NeverRefused' /\ RaceAt(F)'
<1> DEFINE T == Target(a)
           after == IF pc[a] = "payload" THEN "payloadCrc" ELSE "rerankCrc"
<1>1. pc[a] \in {"payload", "rerank"} /\ pc[a] \in Programming
  BY DEF ProgramPayload, ProgramRerank, Programming
<1>2. Erased(T) /\ TypeOK
  BY <1>1, TargetErased DEF RecordInv
<1>3. /\ call[a].head = F /\ call[a].headRerank = HeadRerank(F) /\ F \in Nat
      /\ call[a].headRerank * PerRerank = FirstId(call[a].head)
  BY <1>1, HeadAligned DEF RaceAt, BatchAt
<1>4. /\ Program(T, Data(call[a].op, FirstId(call[a].head)))
      /\ Goto(a, after)
      /\ UNCHANGED <<call, outcome, lock, reader, boundVars, acked>>
  <2>1. CASE ProgramPayload(a)
    <3>1. pc[a] = "payload" /\ T = <<"payload", call[a].head + call[a].part>>
      BY <2>1 DEF ProgramPayload, Target, Begin
    <3>2. QED
      BY <1>2, <2>1, <3>1 DEF ProgramPayload, ProgramBlock
  <2>2. CASE ProgramRerank(a)
    <3>1. pc[a] = "rerank" /\ T = <<"rerank", call[a].headRerank + call[a].part>>
      BY <2>2 DEF ProgramRerank, Target, Begin
    <3>2. QED
      BY <1>2, <1>3, <2>2, <3>1 DEF ProgramRerank, ProgramBlock
  <2>3. QED
    BY <2>1, <2>2
<1>5. /\ Keeps /\ slot' = slot /\ T \in Cell
      /\ flash'[T] = Data(call[a].op, FirstId(call[a].head))
      /\ \A d \in Cell : d # T => flash'[d] = flash[d]
  BY <1>1, <1>2, <1>4, ProgramTarget
<1>6. Others(a) /\ pc'[a] = after /\ call' = call /\ reader' = reader /\ outcome' = outcome
  BY <1>2, <1>4, OthersMove
<1>7. BatchCells(a)' = BatchCells(a) \cup {T}
  <2>1. call[a].head \in Nat /\ call[a].headRerank \in Nat /\ call[a].part \in Nat
    BY <1>2, CallFacts
  <2>2. CASE pc[a] = "payload"
    BY <1>6, <2>1, <2>2 DEF BatchCells, Begin, Wrote, Regions, Target
  <2>3. CASE pc[a] = "rerank"
    BY <1>6, <2>1, <2>3 DEF BatchCells, Begin, Wrote, Regions, Target
  <2>4. QED
    BY <1>1, <2>2, <2>3
<1>8. NeverRefused' /\ pc'[a] \in Programming
  BY <1>6 DEF NeverRefused, Programming
<1> HIDE DEF T, after
<1>9. QED
  BY <1>1, <1>5, <1>6, <1>7, <1>8, WriteRace

\* What the program of a CRC word does, whichever region it is of.
LEMMA CrcStep ==
  ASSUME RecordInv, NeverRefused, NEW F \in Nat, RaceAt(F), NEW a \in Appenders,
         ProgramPayloadCrc(a) \/ ProgramRerankCrc(a)
  PROVE  LET last == call[a].count \div
                       (IF pc[a] = "payloadCrc" THEN PerPayload ELSE PerRerank)
             done == call[a].part + 1 = last
             T    == Target(a)
         IN  /\ TypeOK /\ pc[a] \in Programming
             /\ last \in Nat
             /\ call[a].head = F /\ call[a].headRerank = HeadRerank(F)
             /\ Keeps /\ slot' = slot /\ reader' = reader /\ NeverRefused'
             /\ T \in Cell
             /\ flash'[T] = Data(call[a].op, FirstId(call[a].head))
             /\ \A d \in Cell : d # T => flash'[d] = flash[d]
             /\ Others(a)
             /\ pc'[a] = IF pc[a] = "payloadCrc"
                         THEN IF done THEN "rerank" ELSE "payload"
                         ELSE IF done THEN "erase" ELSE "rerank"
             /\ call'[a] = [call[a] EXCEPT !.part = IF done THEN 0 ELSE call[a].part + 1]
             /\ call'[a].part = IF done THEN 0 ELSE call[a].part + 1
             /\ call'[a].op = call[a].op /\ call'[a].head = call[a].head
             /\ call'[a].headRerank = call[a].headRerank
             /\ call'[a].count = call[a].count
             /\ call'[a].before = call[a].before /\ call'[a].slotA = call[a].slotA
<1> DEFINE T == Target(a)
           last == call[a].count \div
                     (IF pc[a] = "payloadCrc" THEN PerPayload ELSE PerRerank)
           done == call[a].part + 1 = last
           after == IF pc[a] = "payloadCrc"
                    THEN IF done THEN "rerank" ELSE "payload"
                    ELSE IF done THEN "erase" ELSE "rerank"
<1>1. pc[a] \in {"payloadCrc", "rerankCrc"} /\ pc[a] \in Programming
  BY DEF ProgramPayloadCrc, ProgramRerankCrc, Programming
<1>2. Erased(T) /\ TypeOK
  BY <1>1, TargetErased DEF RecordInv
<1>3. /\ call[a].head = F /\ call[a].headRerank = HeadRerank(F) /\ F \in Nat
      /\ call[a].headRerank * PerRerank = FirstId(call[a].head)
  BY <1>1, HeadAligned DEF RaceAt, BatchAt
<1>4. /\ Program(T, Data(call[a].op, FirstId(call[a].head)))
      /\ Goto(a, after)
      /\ call' = [call EXCEPT ![a].part = IF done THEN 0 ELSE @ + 1]
      /\ UNCHANGED <<outcome, lock, reader, boundVars, acked>>
  <2>1. CASE ProgramPayloadCrc(a)
    <3>1. pc[a] = "payloadCrc" /\ T = <<"payloadCrc", call[a].head + call[a].part>>
      BY <2>1 DEF ProgramPayloadCrc, Target, Begin
    <3>2. QED
      BY <1>2, <2>1, <3>1 DEF ProgramPayloadCrc, ProgramBlockCrc
  <2>2. CASE ProgramRerankCrc(a)
    <3>1. pc[a] = "rerankCrc" /\ T = <<"rerankCrc", call[a].headRerank + call[a].part>>
      BY <2>2 DEF ProgramRerankCrc, Target, Begin
    <3>2. QED
      BY <1>2, <1>3, <2>2, <3>1 DEF ProgramRerankCrc, ProgramBlockCrc
  <2>3. QED
    BY <2>1, <2>2
<1>5. /\ Keeps /\ slot' = slot /\ T \in Cell
      /\ flash'[T] = Data(call[a].op, FirstId(call[a].head))
      /\ \A d \in Cell : d # T => flash'[d] = flash[d]
  BY <1>1, <1>2, <1>4, ProgramTarget
<1>6. last \in Nat
  BY <1>2, CallFacts, GeometryAssumption
<1> HIDE DEF T, last
<1>7. Others(a) /\ pc'[a] = after
  BY <1>2, <1>4 DEF TypeOK, Others, Goto
<1>8. call'[a] = [call[a] EXCEPT !.part = IF done THEN 0 ELSE call[a].part + 1]
  BY <1>2, <1>4 DEF TypeOK
<1>9. call[a] \in CallRecord
  BY <1>2 DEF TypeOK
<1>10. /\ call'[a].part = IF done THEN 0 ELSE call[a].part + 1
       /\ call'[a].op = call[a].op /\ call'[a].head = call[a].head
       /\ call'[a].headRerank = call[a].headRerank
       /\ call'[a].count = call[a].count
       /\ call'[a].before = call[a].before /\ call'[a].slotA = call[a].slotA
  BY <1>8, <1>9 DEF CallRecord
<1>11. NeverRefused' /\ reader' = reader
  BY <1>4 DEF NeverRefused
<1>12. QED
  BY <1>1, <1>2, <1>3, <1>5, <1>6, <1>7, <1>8, <1>10, <1>11 DEF T, last

\* A CRC word that is not the batch's last record's.
LEMMA CrcRace ==
  ASSUME RecordInv, NeverRefused, NEW F \in Nat, RaceAt(F), NEW a \in Appenders,
         ProgramPayloadCrc(a) \/ ProgramRerankCrc(a), pc'[a] # "erase"
  PROVE  NeverRefused' /\ RaceAt(F)'
<1> DEFINE T == Target(a)
           P == call[a].count \div PerPayload
           R == call[a].count \div PerRerank
<1>1. pc[a] \in {"payloadCrc", "rerankCrc"}
  BY DEF ProgramPayloadCrc, ProgramRerankCrc
<1>2. /\ TypeOK /\ pc[a] \in Programming
      /\ Keeps /\ slot' = slot /\ reader' = reader /\ NeverRefused'
      /\ T \in Cell
      /\ flash'[T] = Data(call[a].op, FirstId(call[a].head))
      /\ \A d \in Cell : d # T => flash'[d] = flash[d]
      /\ Others(a)
      /\ call'[a].op = call[a].op /\ call'[a].head = call[a].head
      /\ call'[a].headRerank = call[a].headRerank
      /\ call'[a].count = call[a].count
      /\ call'[a].before = call[a].before /\ call'[a].slotA = call[a].slotA
  BY CrcStep
<1>3. call[a].head \in Nat /\ call[a].headRerank \in Nat /\ call[a].part \in Nat
      /\ P \in Nat /\ R \in Nat
  BY <1>2, CallFacts, GeometryAssumption
<1>4. pc[a] = "payloadCrc" =>
        \/ /\ call[a].part + 1 = P /\ pc'[a] = "rerank" /\ call'[a].part = 0
        \/ /\ call[a].part + 1 # P /\ pc'[a] = "payload" /\ call'[a].part = call[a].part + 1
  BY CrcStep
<1>5. pc[a] = "rerankCrc" => pc'[a] = "rerank" /\ call'[a].part = call[a].part + 1
  BY CrcStep
<1>6. BatchCells(a)' = BatchCells(a) \cup {T}
  <2> HIDE DEF P, R
  <2>1. CASE pc[a] = "payloadCrc" /\ pc'[a] = "rerank"
    BY <1>2, <1>3, <1>4, <2>1 DEF BatchCells, Begin, Wrote, Regions, Target, P
  <2>2. CASE pc[a] = "payloadCrc" /\ pc'[a] = "payload"
    BY <1>2, <1>3, <1>4, <2>2 DEF BatchCells, Begin, Wrote, Regions, Target
  <2>3. CASE pc[a] = "rerankCrc"
    BY <1>2, <1>3, <1>5, <2>3 DEF BatchCells, Begin, Wrote, Regions, Target
  <2>4. QED
    BY <1>1, <1>4, <2>1, <2>2, <2>3
<1>7. pc'[a] \in Programming
  BY <1>1, <1>4, <1>5 DEF Programming
<1> HIDE DEF T
<1>8. QED
  BY <1>2, <1>6, <1>7, WriteRace

LEMMA KnownFurther ==
  ASSUME NEW F \in Nat, NEW G \in Nat, F <= G, NEW m \in ManifestRecord, Known(m, F)
  PROVE  Known(m, G)
<1>1. FirstId(F) \in Nat /\ FirstId(G) \in Nat /\ FirstId(F) <= FirstId(G) /\ m.n \in Nat
  BY HeadBlocks, HeadMono DEF ManifestRecord
<1>2. QED
  BY <1>1 DEF Known

\* The last record's CRC word moves the frontier past the batch.
LEMMA LastCrcRace ==
  ASSUME RecordInv, NeverRefused, NEW F \in Nat, RaceAt(F), NEW a \in Appenders,
         ProgramPayloadCrc(a) \/ ProgramRerankCrc(a), pc'[a] = "erase"
  PROVE  NeverRefused' /\ \E G \in Nat : RaceAt(G)'
<1> DEFINE T == Target(a)
           P == call[a].count \div PerPayload
           R == call[a].count \div PerRerank
           op == call[a].op
<1>1. /\ TypeOK /\ pc[a] \in Programming
      /\ Keeps /\ slot' = slot /\ reader' = reader /\ NeverRefused'
      /\ T \in Cell
      /\ flash'[T] = Data(op, FirstId(call[a].head))
      /\ \A d \in Cell : d # T => flash'[d] = flash[d]
      /\ Others(a)
      /\ call[a].head = F /\ call[a].headRerank = HeadRerank(F)
      /\ call'[a].op = op /\ call'[a].head = call[a].head
      /\ call'[a].headRerank = call[a].headRerank
      /\ call'[a].count = call[a].count
      /\ call'[a].before = call[a].before /\ call'[a].slotA = call[a].slotA
  BY CrcStep
<1>2. pc[a] = "rerankCrc" /\ call[a].part + 1 = R
  <2>1. pc[a] \in {"payloadCrc", "rerankCrc"}
    BY DEF ProgramPayloadCrc, ProgramRerankCrc
  <2>2. QED
    BY <2>1, CrcStep
<1>3. /\ BatchAt(a, F) /\ AppendInv(a) /\ FrontierInv(F) /\ BlankPast(F)
      /\ Sealed(F, "payload", "payloadCrc")' /\ Sealed(F, "rerank", "rerankCrc")'
      /\ SlotsKnown(F) /\ CallKnown(a, F)
  BY <1>1, SealedStays DEF RaceAt, RecordInv
<1>4. /\ call[a].count \in Nat /\ WholeUnits(call[a].count) /\ call[a].part \in Nat
      /\ BatchWritten(a) /\ Fits(F, call[a].count)
  BY <1>1, <1>2, <1>3, CallFacts DEF AppendInv, Writing, BatchAt
<1>5. PICK G \in Nat : /\ G = F + P /\ P \in Nat \ {0} /\ R \in Nat /\ F <= G
                       /\ HeadRerank(G) = HeadRerank(F) + R
                       /\ HeadRerank(F) \in Nat /\ HeadRerank(G) \in Nat
  <2>1. P \in Nat \ {0} /\ HeadRerank(F + P) = HeadRerank(F) + R
    BY <1>4, Advance
  <2>2. R \in Nat
    BY <1>4, GeometryAssumption
  <2>3. F + P \in Nat /\ F <= F + P
    BY <2>1
  <2>4. HeadRerank(F) \in Nat /\ HeadRerank(F + P) \in Nat
    BY <2>3, HeadBlocks
  <2>5. QED
    BY <2>1, <2>2, <2>3, <2>4
<1>6. \A b \in Appenders : b # a => pc[b] \notin Writing
  BY <1>1, Alone DEF Past
<1>7. FrontierInv(G)'
  BY <1>3, <1>4, <1>5, Gap DEF FrontierInv, Fits, P, R
<1>8. /\ HeadRerank(BuiltCodes) \in Nat /\ BuiltRecords \in Nat
      /\ BuiltRecords <= HeadRerank(BuiltCodes)
      /\ HeadRerank(BuiltCodes) <= HeadRerank(F)
  BY <1>3, Gap, HeadBlocks, HeadMono DEF FrontierInv
<1> HIDE DEF P, R
<1>9. Wrote(a, "payload") = P /\ Wrote(a, "payloadCrc") = P
      /\ Wrote(a, "rerank") = R /\ Wrote(a, "rerankCrc") = call[a].part
      /\ Begin(a, "payload") = F /\ Begin(a, "payloadCrc") = F
      /\ Begin(a, "rerank") = HeadRerank(F) /\ Begin(a, "rerankCrc") = HeadRerank(F)
  BY <1>1, <1>2 DEF Wrote, Begin, P, R
<1>10. T = <<"rerankCrc", HeadRerank(F) + call[a].part>>
  BY <1>2, <1>9 DEF Target
<1>11. ASSUME NEW d \in BatchCells(a) \cup {T}
       PROVE  d \in Cell /\ flash'[d] = Data(op, FirstId(F))
  <2>1. CASE d = T
    BY <1>1, <2>1
  <2>2. CASE d \in BatchCells(a)
    BY <1>1, <1>4, <2>2, HoldingStays DEF BatchWritten
  <2>3. QED
    BY <1>11, <2>1, <2>2
<1>12. ASSUME NEW b \in Nat, F <= b, b < G
       PROVE  <<"payload", b>> \in BatchCells(a) /\ <<"payloadCrc", b>> \in BatchCells(a)
  BY <1>5, <1>9, <1>12 DEF BatchCells, Regions
<1>13. ASSUME NEW b \in Nat, HeadRerank(F) <= b, b < HeadRerank(G)
       PROVE  /\ <<"rerank", b>> \in BatchCells(a)
              /\ <<"rerankCrc", b>> \in BatchCells(a) \cup {T}
  BY <1>2, <1>4, <1>5, <1>9, <1>10, <1>13 DEF BatchCells, Regions
<1>14. Filled(F) \subseteq Filled(G)
  <2> SUFFICES ASSUME NEW d \in Filled(F) PROVE d \in Filled(G)
    OBVIOUS
  <2>1. d \in Cell /\ d[2] \in Nat
    BY GeometryAssumption DEF Filled, Cell, PayloadBlock, RerankBlock
  <2>2. QED
    BY <1>5, <2>1 DEF Filled
<1>15. BatchCells(a) \cup {T} \subseteq Filled(G)
  <2> SUFFICES ASSUME NEW d \in BatchCells(a) \cup {T} PROVE d \in Filled(G)
    OBVIOUS
  <2>1. d \in Cell
    BY <1>11
  <2>2. CASE d = T
    BY <1>2, <1>4, <1>5, <1>8, <1>10, <2>1, <2>2 DEF Filled
  <2>3. CASE d \in BatchCells(a)
    <3>1. d[1] \in Regions /\ d[2] \in Nat
      BY <2>3 DEF BatchCells
    <3>2. CASE d[1] \in {"payload", "payloadCrc"}
      BY <1>5, <1>9, <2>1, <2>3, <3>1, <3>2 DEF BatchCells, Filled
    <3>3. CASE d[1] \in {"rerank", "rerankCrc"}
      BY <1>2, <1>4, <1>5, <1>8, <1>9, <2>1, <2>3, <3>1, <3>3 DEF BatchCells, Filled
    <3>4. QED
      BY <3>1, <3>2, <3>3 DEF Regions
  <2>4. QED
    BY <2>2, <2>3
<1> HIDE DEF T, op
<1>16. Sealed(G, "payload", "payloadCrc")'
  <2> SUFFICES ASSUME NEW b \in Nat, <<"payload", b>> \in Filled(G)
               PROVE  /\ flash'[<<"payload", b>>].kind = "data"
                      /\ flash'[<<"payloadCrc", b>>] = flash'[<<"payload", b>>]
    BY DEF Sealed, Filled
  <2>1. <<"payload", b>> \in Cell /\ b < G
    BY DEF Filled
  <2>2. CASE b < F
    <3>1. <<"payload", b>> \in Filled(F)
      BY <2>1, <2>2 DEF Filled
    <3>2. QED
      BY <1>3, <3>1 DEF Sealed, Filled
  <2>3. CASE F <= b
    BY <1>11, <1>12, <2>1, <2>3 DEF Data, Content
  <2>4. QED
    BY <2>2, <2>3
<1>17. Sealed(G, "rerank", "rerankCrc")'
  <2> SUFFICES ASSUME NEW b \in Nat, <<"rerank", b>> \in Filled(G)
               PROVE  /\ flash'[<<"rerank", b>>].kind = "data"
                      /\ flash'[<<"rerankCrc", b>>] = flash'[<<"rerank", b>>]
    BY DEF Sealed, Filled
  <2>1. /\ <<"rerank", b>> \in Cell
        /\ b < BuiltRecords \/ (HeadRerank(BuiltCodes) <= b /\ b < HeadRerank(G))
    BY DEF Filled
  <2>2. CASE b < BuiltRecords \/ b < HeadRerank(F)
    <3>1. <<"rerank", b>> \in Filled(F)
      BY <2>1, <2>2 DEF Filled
    <3>2. QED
      BY <1>3, <3>1 DEF Sealed, Filled
  <2>3. CASE HeadRerank(F) <= b /\ b < HeadRerank(G)
    BY <1>11, <1>13, <2>3 DEF Data, Content
  <2>4. QED
    BY <1>5, <2>1, <2>2, <2>3
<1>18. BlankPast(G)'
  <2> SUFFICES ASSUME NEW d \in Cell \ Filled(G), flash'[d] # Blank PROVE FALSE
    BY DEF BlankPast, Filled
  <2>1. d # T /\ d \notin BatchCells(a) /\ d \notin Filled(F)
    BY <1>14, <1>15
  <2>2. flash[d] # Blank
    BY <1>1, <2>1
  <2>3. PICK b \in Appenders : pc[b] \in Programming /\ d \in BatchCells(b)
    BY <1>3, <2>1, <2>2 DEF BlankPast
  <2>4. QED
    BY <1>6, <2>1, <2>3 DEF Programming, Writing
<1>19. ASSUME NEW b \in Appenders PROVE BatchAt(b, G)' /\ CallKnown(b, G)'
  <2>1. Known(call[b].slotA, G) /\ Known(call[b].before, G)
    BY <1>1, <1>5, CallFacts, KnownFurther DEF RaceAt, CallKnown
  <2>2. CASE b = a
    <3>1. BatchAt(b, G)'
      BY <1>1, <1>3, <1>5, <2>2 DEF BatchAt, FrontierInv, Programming, P
    <3>2. CallKnown(b, G)'
      BY <1>1, <1>2, <1>3, <2>1, <2>2 DEF CallKnown, Known, Writing
    <3>3. QED
      BY <3>1, <3>2
  <2>3. CASE b # a
    <3>1. pc[b] \notin Writing /\ pc'[b] = pc[b] /\ call'[b] = call[b]
      BY <1>1, <1>6, <2>3 DEF Others
    <3>2. BatchAt(b, G)'
      BY <3>1 DEF BatchAt, Programming, Writing
    <3>3. CallKnown(b, G)'
      BY <2>1, <3>1 DEF RaceAt, CallKnown, Known
    <3>4. QED
      BY <3>2, <3>3
  <2>4. QED
    BY <2>2, <2>3
<1>20. \A r \in Readers : ReaderKnown(r, G)'
  <2> SUFFICES ASSUME NEW r \in Readers
               PROVE  Known(reader[r].slotA, G) /\ Known(reader[r].manifest, G)
    BY <1>1 DEF RaceAt, ReaderKnown, Known
  <2>1. reader[r].slotA \in ManifestRecord /\ reader[r].manifest \in ManifestRecord
    BY <1>1 DEF TypeOK, ReaderRecord
  <2>2. QED
    BY <1>5, <2>1, KnownFurther DEF RaceAt, ReaderKnown
<1>21. SlotsKnown(G)'
  <2>1. \A s \in Slot : Known(slot[s], G)
    <3>1. \A s \in Slot : slot[s] \in ManifestRecord
      BY <1>1 DEF TypeOK
    <3>2. QED
      BY <1>3, <1>5, <3>1, KnownFurther DEF SlotsKnown
  <2>2. \A b \in Appenders : pc[b] \notin {"erase", "install"}
    BY <1>2, <1>6 DEF Writing
  <2>3. slot["A"].valid
    BY <1>3, <2>2 DEF SlotsKnown
  <2>4. slot["B"].valid \/ TargetSlot(a)' = "B"
    <3>1. call[a].before.valid /\ Known(call[a].before, F) /\ call[a].before \in ManifestRecord
      BY <1>1, <1>2, <1>3, CallFacts DEF CallKnown, Writing
    <3>2. CASE call[a].before.sequence = 1
      BY <1>1, <3>2 DEF TargetSlot, NextSlot
    <3>3. CASE call[a].before.sequence # 1
      <4>1. /\ FirstId(BuiltCodes) <= call[a].before.from
            /\ call[a].before.from < call[a].before.n
            /\ call[a].before.n <= FirstId(F)
        BY <3>1, <3>3 DEF Known
      <4>2. FirstId(BuiltCodes) \in Nat /\ FirstId(F) \in Nat
            /\ call[a].before.from \in Nat /\ call[a].before.n \in Nat
        BY <3>1, Gap, HeadBlocks DEF ManifestRecord
      <4>3. F # BuiltCodes
        BY <4>1, <4>2
      <4>4. QED
        BY <1>3, <2>2, <4>3 DEF SlotsKnown
    <3>4. QED
      BY <3>2, <3>3
  <2>5. QED
    BY <1>1, <1>3, <2>1, <2>3, <2>4 DEF SlotsKnown, Known
<1>22. QED
  BY <1>1, <1>5, <1>7, <1>16, <1>17, <1>18, <1>19, <1>20, <1>21 DEF RaceAt

---------------------------------------------------------------------------
(* The manifest. *)

LEMMA SlotRace ==
  ASSUME RecordInv, NEW F \in Nat, RaceAt(F), NEW a \in Appenders, Others(a),
         pc[a] \in {"erase", "install"}, pc'[a] \in {"install", "sync"},
         flash' = flash, call' = call, reader' = reader, SlotsKnown(F)'
  PROVE  RaceAt(F)'
<1>1. FrontierInv(F)'
  BY DEF RaceAt, FrontierInv
<1>2. Sealed(F, "payload", "payloadCrc")' /\ Sealed(F, "rerank", "rerankCrc")'
  BY SealedStays DEF Keeps
<1>3. \A b \in Appenders : b # a => pc[b] \notin Writing
  BY Alone DEF Past
<1>4. BlankPast(F)'
  <2> SUFFICES ASSUME NEW c \in Cell \ Filled(F), flash[c] # Blank PROVE FALSE
    BY DEF BlankPast, Filled
  <2>1. PICK b \in Appenders : pc[b] \in Programming /\ c \in BatchCells(b)
    BY DEF RaceAt, BlankPast
  <2>2. QED
    BY <1>3, <2>1 DEF Programming, Writing
<1>5. ASSUME NEW b \in Appenders PROVE BatchAt(b, F)' /\ CallKnown(b, F)'
  <2>1. BatchAt(b, F) /\ CallKnown(b, F)
    BY DEF RaceAt
  <2>2. CASE b = a
    BY <2>1, <2>2 DEF BatchAt, CallKnown, Known, Programming, Writing
  <2>3. CASE b # a
    <3>1. pc[b] \notin Writing /\ pc'[b] = pc[b]
      BY <1>3, <2>3 DEF Others
    <3>2. QED
      BY <2>1, <3>1 DEF BatchAt, CallKnown, Known, Programming, Writing
  <2>4. QED
    BY <2>2, <2>3
<1>6. \A r \in Readers : ReaderKnown(r, F)'
  BY DEF RaceAt, ReaderKnown, Known
<1>7. QED
  BY <1>1, <1>2, <1>4, <1>5, <1>6 DEF RaceAt

LEMMA EraseRace ==
  ASSUME RecordInv, NeverRefused, NEW F \in Nat, RaceAt(F), NEW a \in Appenders,
         EraseSlot(a)
  PROVE  NeverRefused' /\ RaceAt(F)'
<1>1. TypeOK /\ pc[a] = "erase" /\ SlotsKnown(F)
  BY DEF RecordInv, EraseSlot, RaceAt
<1>2. Others(a) /\ pc'[a] = "install"
  BY <1>1, OthersMove DEF EraseSlot
<1>3. UNCHANGED <<flash, call, reader, outcome>>
  BY DEF EraseSlot, WriteSlot
<1>4. /\ TargetSlot(a) \in Slot /\ TargetSlot(a)' = TargetSlot(a)
      /\ slot'[TargetSlot(a)] = NoManifest
      /\ \A s \in Slot : s # TargetSlot(a) => slot'[s] = slot[s]
  BY <1>1, <1>3 DEF TypeOK, EraseSlot, WriteSlot, TargetSlot, NextSlot, Slot
<1>5. \A b \in Appenders : b # a => pc[b] \notin {"erase", "install"}
  BY <1>1, Alone DEF Past, Writing
<1>6. SlotsKnown(F)'
  <2>1. \A s \in Slot : /\ Known(slot'[s], F)
                        /\ slot'[s].valid => NextSlot(slot'[s].sequence) # s
    BY <1>1, <1>4, NoManifestKnown DEF SlotsKnown, NoManifest
  <2>2. CASE TargetSlot(a) = "A"
    <3>1. ~slot'["B"].valid /\ F # BuiltCodes => FALSE
      BY <1>1, <1>4, <1>5, <2>2 DEF SlotsKnown, Slot
    <3>2. QED
      BY <1>2, <1>4, <2>1, <2>2, <3>1 DEF SlotsKnown, Known, NextSlot
  <2>3. CASE TargetSlot(a) = "B"
    <3>1. slot'["A"].valid
      BY <1>1, <1>4, <1>5, <2>3 DEF SlotsKnown, Slot
    <3>2. QED
      BY <1>2, <1>4, <2>1, <2>3, <3>1 DEF SlotsKnown, Known, NextSlot
  <2>4. QED
    BY <1>4, <2>2, <2>3 DEF Slot
<1>7. NeverRefused'
  BY <1>3 DEF NeverRefused
<1>8. QED
  BY <1>1, <1>2, <1>3, <1>6, <1>7, SlotRace

\* The manifest an append installs ends at the frontier, whichever it extends.
LEMMA UpdatedKnown ==
  ASSUME RecordInv, NEW F \in Nat, RaceAt(F), NEW a \in Appenders,
         pc[a] \in {"erase", "install", "sync"}
  PROVE  /\ Updated(a).valid
         /\ Known(Updated(a), F)
         /\ NextSlot(Updated(a).sequence) # TargetSlot(a)
<1> DEFINE m == call[a].before
           first == FirstId(call[a].head)
           count == call[a].count
           U == Updated(a)
<1>1. /\ m.valid /\ Known(m, F) /\ m.sequence \in Nat /\ m.n \in Nat /\ m.from \in Nat
      /\ count \in Nat /\ WholeUnits(count) /\ call[a].head \in Nat /\ first \in Nat
  BY CallFacts DEF RaceAt, CallKnown, Writing, RecordInv, AppendInv, ManifestRecord
<1>2. BuiltCodes <= call[a].head /\ F = call[a].head + (count \div PerPayload)
  BY DEF RaceAt, BatchAt
<1>3. FirstId(F) = first + count /\ count # 0
  BY <1>1, <1>2, Advance DEF WholeUnits
<1>4. FirstId(BuiltCodes) \in Nat /\ FirstId(BuiltCodes) <= first
      /\ BuiltN <= FirstId(BuiltCodes) /\ BuiltN \in Nat
  BY <1>1, <1>2, Gap, HeadBlocks, HeadMono, GeometryAssumption
<1>5. /\ U.sequence = m.sequence + 1
      /\ U.n = first + count
      /\ U.from = IF Appended(m) = 0 THEN first ELSE m.from
      /\ U.valid = (BuiltN <= U.from /\ U.from <= U.n)
  BY DEF Updated, Manifest
<1> HIDE DEF m, first, count, U
<1>6. U.sequence >= 2
  BY <1>1, <1>5 DEF Known
<1>7. /\ FirstId(BuiltCodes) <= U.from /\ U.from < U.n /\ U.n = FirstId(F)
      /\ U.from \in Nat /\ U.n \in Nat
  <2>1. CASE Appended(m) = 0
    BY <1>1, <1>3, <1>4, <1>5, <2>1
  <2>2. CASE Appended(m) # 0
    <3>1. ~(m.n = BuiltN /\ m.from = BuiltN)
      BY <1>4, <2>2 DEF Appended
    <3>2. FirstId(BuiltCodes) <= m.from /\ m.from < m.n /\ m.n <= FirstId(F)
      BY <1>1, <3>1 DEF Known
    <3>3. QED
      BY <1>1, <1>3, <1>4, <1>5, <2>2, <3>2
  <2>3. QED
    BY <2>1, <2>2
<1>8. U.valid
  <2>1. BuiltN <= U.from /\ U.from <= U.n
    BY <1>4, <1>7
  <2>2. QED
    BY <1>5, <2>1
<1>9. NextSlot(U.sequence) # NextSlot(m.sequence)
  BY <1>1, <1>5 DEF NextSlot
<1>10. Known(U, F)
  BY <1>6, <1>7, HeadBlocks DEF Known
<1>11. QED
  BY <1>8, <1>9, <1>10 DEF U, m, TargetSlot

LEMMA InstallRace ==
  ASSUME RecordInv, NeverRefused, NEW F \in Nat, RaceAt(F), NEW a \in Appenders,
         InstallManifest(a)
  PROVE  NeverRefused' /\ RaceAt(F)'
<1>1. TypeOK /\ pc[a] = "install" /\ SlotsKnown(F)
  BY DEF RecordInv, InstallManifest, RaceAt
<1>2. Others(a) /\ pc'[a] = "sync"
  BY <1>1, OthersMove DEF InstallManifest
<1>3. UNCHANGED <<flash, call, reader, outcome>>
  BY DEF InstallManifest, WriteSlot
<1>4. /\ TargetSlot(a) \in Slot
      /\ slot'[TargetSlot(a)] = Updated(a)
      /\ \A s \in Slot : s # TargetSlot(a) => slot'[s] = slot[s]
  BY <1>1 DEF TypeOK, InstallManifest, WriteSlot, TargetSlot, NextSlot, Slot
<1>5. \A b \in Appenders : b # a => pc[b] \notin {"erase", "install"}
  BY <1>1, Alone DEF Past, Writing
<1>6. /\ Updated(a).valid
      /\ Known(Updated(a), F)
      /\ NextSlot(Updated(a).sequence) # TargetSlot(a)
  BY <1>1, UpdatedKnown
<1>7. SlotsKnown(F)'
  <2>1. ASSUME NEW s \in Slot
        PROVE  /\ Known(slot'[s], F)
               /\ slot'[s].valid => NextSlot(slot'[s].sequence) # s
    BY <1>1, <1>4, <1>6 DEF SlotsKnown
  <2>2. slot'["A"].valid
    BY <1>1, <1>4, <1>5, <1>6 DEF SlotsKnown, Slot
  <2>3. F = BuiltCodes \/ slot'["B"].valid
    BY <1>1, <1>4, <1>5, <1>6 DEF SlotsKnown, Slot
  <2>4. QED
    BY <2>1, <2>2, <2>3 DEF SlotsKnown, Known, NextSlot
<1>8. NeverRefused'
  BY <1>3 DEF NeverRefused
<1>9. QED
  BY <1>1, <1>2, <1>3, <1>7, <1>8, SlotRace

---------------------------------------------------------------------------
(* Readers, and the start. *)

LEMMA ReaderRace ==
  ASSUME TypeOK, NeverRefused, NEW F \in Nat, RaceAt(F),
         flash' = flash, slot' = slot, pc' = pc, call' = call, outcome' = outcome,
         \A r \in Readers : ReaderKnown(r, F)'
  PROVE  NeverRefused' /\ RaceAt(F)'
<1>1. FrontierInv(F)' /\ NeverRefused'
  BY DEF RaceAt, FrontierInv, NeverRefused
<1>2. Sealed(F, "payload", "payloadCrc")' /\ Sealed(F, "rerank", "rerankCrc")'
  BY SealedStays DEF Keeps
<1>3. \A b \in Appenders : BatchCells(b)' = BatchCells(b)
  BY DEF BatchCells, Begin, Wrote
<1>4. BlankPast(F)'
  BY <1>3 DEF RaceAt, BlankPast, Filled
<1>5. \A b \in Appenders : BatchAt(b, F)' /\ CallKnown(b, F)'
  BY <1>3 DEF RaceAt, BatchAt, BatchWritten, Holding, Fits, CallKnown, Known
<1>6. SlotsKnown(F)'
  BY DEF RaceAt, SlotsKnown, Known, TargetSlot
<1>7. QED
  BY <1>1, <1>2, <1>4, <1>5, <1>6 DEF RaceAt

LEMMA ReaderStepRace ==
  ASSUME TypeOK, NeverRefused, NEW F \in Nat, RaceAt(F), NEW r \in Readers,
         StartMount(r) \/ FinishReaderMount(r) \/ Unmount(r)
  PROVE  NeverRefused' /\ RaceAt(F)'
<1>1. UNCHANGED <<flash, slot, pc, call, outcome>>
  BY DEF StartMount, FinishReaderMount, Unmount, mediaVars, callVars
<1>2. /\ Known(slot["A"], F) /\ Known(slot["B"], F)
      /\ Known(reader[r].slotA, F) /\ Known(reader[r].manifest, F)
  BY DEF RaceAt, SlotsKnown, Slot, ReaderKnown
<1>3. /\ Known(reader'[r].slotA, F) /\ Known(reader'[r].manifest, F)
      /\ reader'[r].state = "mounted" => reader'[r].manifest.valid
  <2>1. CASE StartMount(r)
    <3>1. /\ reader'[r].slotA = slot["A"] /\ reader'[r].manifest = NoManifest
          /\ reader'[r].state = "mounting"
      BY <2>1 DEF StartMount, TypeOK, Unmounted
    <3>2. QED
      BY <1>2, <3>1, NoManifestKnown
  <2>2. CASE FinishReaderMount(r)
    <3> DEFINE m == Select(reader[r].slotA, slot["B"])
    <3>1. Known(m, F)
      BY <1>2, SelectKnown
    <3>2. reader'[r] = IF m.valid
                       THEN [reader[r] EXCEPT !.state = "mounted", !.manifest = m]
                       ELSE [reader[r] EXCEPT !.state = "failed"]
      BY <2>2 DEF FinishReaderMount, TypeOK
    <3>3. reader[r] \in ReaderRecord
      BY DEF TypeOK
    <3> HIDE DEF m
    <3>4. /\ reader'[r].slotA = reader[r].slotA
          /\ \/ reader'[r].manifest = m /\ m.valid
             \/ /\ reader'[r].manifest = reader[r].manifest
                /\ reader'[r].state = "failed"
      BY <3>2, <3>3 DEF ReaderRecord
    <3>5. QED
      BY <1>2, <3>1, <3>4
  <2>3. CASE Unmount(r)
    <3>1. /\ reader'[r].slotA = NoManifest /\ reader'[r].manifest = NoManifest
          /\ reader'[r].state = "off"
      BY <2>3 DEF Unmount, TypeOK, Unmounted
    <3>2. QED
      BY <3>1, NoManifestKnown
  <2>4. QED
    BY <2>1, <2>2, <2>3
<1>4. \A q \in Readers : q # r => reader'[q] = reader[q]
  BY DEF StartMount, FinishReaderMount, Unmount, TypeOK
<1>5. ASSUME NEW q \in Readers PROVE ReaderKnown(q, F)'
  BY <1>3, <1>4 DEF RaceAt, ReaderKnown, Known
<1>6. QED
  BY <1>1, <1>5, ReaderRace

LEMMA RaceInit == Init => RaceInv
<1> SUFFICES ASSUME Init PROVE RaceInv
  OBVIOUS
<1> DEFINE F == BuiltCodes
<1>1. RecordInv
  BY RecordInit
<1>2. NeverRefused
  BY DEF Init, NeverRefused
<1>3. F \in Nat /\ FrontierInv(F)
  BY Gap DEF FrontierInv
<1>4. \A c \in Cell : c \in Filled(F) <=> BuiltCell(c)
  <2> SUFFICES ASSUME NEW c \in Cell PROVE c \in Filled(F) <=> BuiltCell(c)
    OBVIOUS
  <2>1. c[2] \in Nat
    BY GeometryAssumption DEF Cell, PayloadBlock, RerankBlock
  <2>2. HeadRerank(F) \in Nat /\ BuiltRecords \in Nat
    BY Gap, HeadBlocks
  <2>3. ~(HeadRerank(F) <= c[2] /\ c[2] < HeadRerank(F))
    BY <2>1, <2>2
  <2>4. QED
    BY <2>3 DEF Filled, BuiltCell, BuiltCodes, BuiltRecords
<1>5. \A c \in Cell : flash[c] = IF c \in Filled(F) THEN Data(0, 0) ELSE Blank
  BY <1>4 DEF Init
<1>6. ASSUME NEW region, NEW crc,
             \/ region = "payload" /\ crc = "payloadCrc"
             \/ region = "rerank" /\ crc = "rerankCrc"
      PROVE  Sealed(F, region, crc)
  <2> SUFFICES ASSUME NEW b \in Nat, <<region, b>> \in Filled(F)
               PROVE  /\ flash[<<region, b>>].kind = "data"
                      /\ flash[<<crc, b>>] = flash[<<region, b>>]
    BY DEF Sealed
  <2>1. <<region, b>> \in Cell /\ <<crc, b>> \in Cell /\ <<crc, b>> \in Filled(F)
    BY <1>6 DEF Filled, Cell
  <2>2. QED
    BY <1>5, <2>1 DEF Data, Content
<1>7. BlankPast(F)
  BY <1>5 DEF BlankPast
<1>8. ASSUME NEW a \in Appenders PROVE BatchAt(a, F) /\ CallKnown(a, F)
  <2>1. pc[a] = "idle" /\ call[a].slotA = NoManifest /\ call[a].before = NoManifest
    BY DEF Init, NoCall
  <2>2. pc[a] \notin Programming \cup {"erase", "install", "sync", "mounted"} \cup Writing
    BY <2>1 DEF Programming, Writing
  <2>3. QED
    BY <2>1, <2>2, NoManifestKnown DEF BatchAt, CallKnown
<1>9. ASSUME NEW r \in Readers PROVE ReaderKnown(r, F)
  <2>1. /\ reader[r].slotA = NoManifest /\ reader[r].manifest = NoManifest
        /\ reader[r].state = "off"
    BY DEF Init, Unmounted
  <2>2. QED
    BY <2>1, NoManifestKnown DEF ReaderKnown
<1>10. SlotsKnown(F)
  <2>1. slot["A"] = BuiltManifest /\ slot["B"] = NoManifest
    BY DEF Init, Slot
  <2>2. /\ BuiltManifest.sequence = 1 /\ BuiltManifest.n = BuiltN
        /\ BuiltManifest.from = BuiltN /\ BuiltManifest.valid
    <3>1. BuiltN <= BuiltN
      BY GeometryAssumption
    <3>2. BuiltManifest.valid
      BY <3>1, Zenon DEF BuiltManifest, Manifest
    <3>3. QED
      BY <3>2 DEF BuiltManifest, Manifest
  <2>3. Known(BuiltManifest, F) /\ NextSlot(BuiltManifest.sequence) # "A"
    BY <2>2 DEF Known, NextSlot
  <2>4. QED
    BY <2>1, <2>2, <2>3, NoManifestKnown DEF SlotsKnown, Slot, NoManifest
<1> HIDE DEF F
<1>11. RaceAt(F)
  BY <1>3, <1>6, <1>7, <1>8, <1>9, <1>10 DEF RaceAt
<1>12. QED
  BY <1>1, <1>2, <1>3, <1>11 DEF RaceInv

\* While nobody is killed and the power stays, every step keeps it.
LEMMA PoweredRace ==
  ASSUME RecordsFillUnits, RaceInv, [Next]_vars, ~PowerLoss, \A a \in Appenders : ~Kill(a)
  PROVE  RaceInv'
<1>1. RecordInv /\ TypeOK /\ NeverRefused /\ RecordInv'
  BY PoweredRecord DEF RaceInv, RecordInv
<1>2. PICK F \in Nat : RaceAt(F)
  BY DEF RaceInv
<1>3. ASSUME NEW a \in Appenders, NEW count \in BatchSizes, StartAppend(a, count)
      PROVE  NeverRefused' /\ RaceAt(F)'
  BY <1>1, <1>2, <1>3, StartRace
<1>4. ASSUME NEW a \in Appenders, FinishMount(a) PROVE NeverRefused' /\ RaceAt(F)'
  BY <1>1, <1>2, <1>4, FinishMountRace
<1>5. ASSUME NEW a \in Appenders, TakeLock(a) PROVE NeverRefused' /\ RaceAt(F)'
  BY <1>1, <1>2, <1>5, TakeLockRace
<1>6. ASSUME NEW a \in Appenders, Plan(a) PROVE NeverRefused' /\ RaceAt(F)'
  BY <1>1, <1>2, <1>6, PlanRace
<1>7. ASSUME NEW a \in Appenders, ProgramPayload(a) \/ ProgramRerank(a)
      PROVE  NeverRefused' /\ RaceAt(F)'
  BY <1>1, <1>2, <1>7, BlockRace
<1>8. ASSUME NEW a \in Appenders, ProgramPayloadCrc(a) \/ ProgramRerankCrc(a)
      PROVE  NeverRefused' /\ \E G \in Nat : RaceAt(G)'
  <2>1. CASE pc'[a] = "erase"
    BY <1>1, <1>2, <1>8, <2>1, LastCrcRace
  <2>2. CASE pc'[a] # "erase"
    <3>1. NeverRefused' /\ RaceAt(F)'
      BY <1>1, <1>2, <1>8, <2>2, CrcRace
    <3>2. QED
      BY <3>1
  <2>3. QED
    BY <2>1, <2>2
<1>9. ASSUME NEW a \in Appenders, EraseSlot(a) PROVE NeverRefused' /\ RaceAt(F)'
  BY <1>1, <1>2, <1>9, EraseRace
<1>10. ASSUME NEW a \in Appenders, InstallManifest(a) PROVE NeverRefused' /\ RaceAt(F)'
  BY <1>1, <1>2, <1>10, InstallRace
<1>11. ASSUME NEW a \in Appenders, SyncAndReport(a) PROVE NeverRefused' /\ RaceAt(F)'
  BY <1>1, <1>2, <1>11, ReportRace
<1>12. ASSUME NEW r \in Readers, StartMount(r) \/ FinishReaderMount(r) \/ Unmount(r)
       PROVE  NeverRefused' /\ RaceAt(F)'
  BY <1>1, <1>2, <1>12, ReaderStepRace
<1>13. ASSUME UNCHANGED vars PROVE NeverRefused' /\ RaceAt(F)'
  <2>1. UNCHANGED <<flash, slot, pc, call, outcome, reader>>
    BY <1>13 DEF vars, mediaVars, callVars
  <2>2. \A r \in Readers : ReaderKnown(r, F)'
    BY <1>2, <2>1 DEF RaceAt, ReaderKnown, Known
  <2>3. QED
    BY <1>1, <1>2, <2>1, <2>2, ReaderRace
<1>14. NeverRefused' /\ \E G \in Nat : RaceAt(G)'
  <2>1. CASE NeverRefused' /\ RaceAt(F)'
    BY <2>1
  <2>2. CASE \E a \in Appenders : ProgramPayloadCrc(a) \/ ProgramRerankCrc(a)
    BY <1>8, <2>2
  <2>3. QED
    BY <1>3, <1>4, <1>5, <1>6, <1>7, <1>9, <1>10, <1>11, <1>12, <1>13, <2>1, <2>2
       DEF Next, Step
<1>15. QED
  BY <1>1, <1>14 DEF RaceInv

LEMMA RaceStep ==
  ASSUME RecordsFillUnits, MaxKills = 0, MaxPowerLoss = 0
  PROVE  RaceInv /\ [Next]_vars => RaceInv'
<1>1. RaceInv => ~PowerLoss /\ \A a \in Appenders : ~Kill(a)
  BY DEF PowerLoss, Kill, RaceInv, RecordInv, TypeOK
<1>2. QED
  BY <1>1, PoweredRace

---------------------------------------------------------------------------
(* What follows from it. *)

\* A sweep under any manifest anybody holds finds no bad block.
LEMMA KnownClean ==
  ASSUME NEW F \in Nat, RaceAt(F), NEW m \in ManifestRecord, m.valid, Known(m, F)
  PROVE  VerifiesClean(m)
<1>1. /\ FrontierInv(F)
      /\ Sealed(F, "payload", "payloadCrc") /\ Sealed(F, "rerank", "rerankCrc")
  BY DEF RaceAt
<1>2. /\ PerPayload \in Nat \ {0} /\ PerRerank \in Nat \ {0}
      /\ PayloadBlocks \in Nat /\ RerankBlocks \in Nat
      /\ m.n \in Nat /\ m.from \in Nat /\ BuiltN \in Nat
  BY GeometryAssumption DEF ManifestRecord
<1>3. /\ BuiltCodes \in Nat /\ BuiltRecords \in Nat
      /\ HeadRerank(BuiltCodes) \in Nat /\ HeadRerank(F) \in Nat
      /\ FirstId(BuiltCodes) \in Nat /\ FirstId(F) \in Nat
      /\ BuiltRecords <= HeadRerank(BuiltCodes) /\ BuiltRecords <= RerankBlocks
      /\ BuiltCodes <= F /\ F <= PayloadBlocks
      /\ F # BuiltCodes => HeadRerank(F) <= RerankBlocks
  BY <1>1, Gap, HeadBlocks DEF FrontierInv
<1>4. Appended(m) # 0 =>
        FirstId(BuiltCodes) <= m.from /\ m.from < m.n /\ m.n <= FirstId(F)
  BY <1>2 DEF Known, Appended
<1>5. ASSUME NEW per \in Nat \ {0}, NEW b, b \in WrittenRuns(m, per)
      PROVE  /\ b \in Nat
             /\ \/ b < Blocks(BuiltN, per)
                \/ /\ Appended(m) # 0 /\ b < Blocks(m.n, per)
                   /\ m.from \div per <= b
  <2>1. /\ Blocks(BuiltN, per) \in Nat /\ Blocks(m.n, per) \in Nat
        /\ m.from \div per \in Nat
    BY <1>2 DEF Blocks
  <2>2. QED
    BY <1>5, <2>1 DEF WrittenRuns
<1>6. ASSUME NEW b \in WrittenRuns(m, PerPayload)
      PROVE  b \in Nat /\ b < F
  <2>1. b \in Nat
    BY <1>2, <1>5
  <2>2. CASE b < Blocks(BuiltN, PerPayload)
    BY <1>3, <2>1, <2>2 DEF BuiltCodes
  <2>3. CASE Appended(m) # 0 /\ b < Blocks(m.n, PerPayload)
    <3>1. b * PerPayload < m.n
      BY <1>2, <2>1, <2>3, BlocksFilled
    <3>2. F <= b => FirstId(F) <= b * PerPayload
      BY <1>2, <2>1, MulMono DEF FirstId
    <3>3. b * PerPayload \in Nat
      BY <1>2, <2>1
    <3>4. QED
      BY <1>2, <1>3, <1>4, <2>1, <2>3, <3>1, <3>2, <3>3
  <2>4. QED
    BY <1>2, <1>5, <2>1, <2>2, <2>3
<1>7. ASSUME NEW b \in WrittenRuns(m, PerRerank)
      PROVE  /\ b \in Nat
             /\ \/ b < BuiltRecords
                \/ HeadRerank(BuiltCodes) <= b /\ b < HeadRerank(F) /\ F # BuiltCodes
  <2>1. b \in Nat
    BY <1>2, <1>5
  <2>2. CASE Appended(m) # 0 /\ b < Blocks(m.n, PerRerank) /\ m.from \div PerRerank <= b
    <3>1. b * PerRerank < m.n
      BY <1>2, <2>1, <2>2, BlocksFilled
    <3>2. HeadRerank(F) * PerRerank = FirstId(F)
          /\ HeadRerank(BuiltCodes) * PerRerank = FirstId(BuiltCodes)
      BY <1>3, HeadAligned
    <3>3. HeadRerank(F) <= b => FirstId(F) <= b * PerRerank
      BY <1>2, <1>3, <2>1, <3>2, MulMono
    <3>4. b * PerRerank \in Nat
      BY <1>2, <2>1
    <3>5. b < HeadRerank(F)
      BY <1>2, <1>3, <1>4, <2>1, <2>2, <3>1, <3>3, <3>4
    <3>6. m.from < (b + 1) * PerRerank
      <4> DEFINE q == m.from \div PerRerank
      <4>1. q \in Nat /\ m.from < (q + 1) * PerRerank
        BY <1>2, DivBounds
      <4>2. q <= b
        BY <2>2
      <4> HIDE DEF q
      <4>3. (q + 1) * PerRerank <= (b + 1) * PerRerank
        BY <1>2, <2>1, <4>1, <4>2, MulMono
      <4>4. (q + 1) * PerRerank \in Nat /\ (b + 1) * PerRerank \in Nat
        BY <1>2, <2>1, <4>1
      <4>5. QED
        BY <1>2, <4>1, <4>3, <4>4
    <3>7. HeadRerank(BuiltCodes) <= b
      <4>1. b + 1 <= HeadRerank(BuiltCodes) => (b + 1) * PerRerank <= FirstId(BuiltCodes)
        BY <1>2, <1>3, <2>1, <3>2, MulMono
      <4>2. (b + 1) * PerRerank \in Nat
        BY <1>2, <2>1
      <4>3. QED
        BY <1>2, <1>3, <1>4, <2>1, <2>2, <3>6, <4>1, <4>2
    <3>8. F # BuiltCodes
      BY <1>2, <1>3, <1>4, <2>2
    <3>9. QED
      BY <2>1, <3>5, <3>7, <3>8
  <2>3. QED
    BY <1>2, <1>5, <2>1, <2>2 DEF BuiltRecords
<1>8. BadBlocks(m, "payload", "payloadCrc", PerPayload) = {}
  <2> SUFFICES ASSUME NEW b \in WrittenRuns(m, PerPayload)
               PROVE  /\ <<"payload", b>> \in Cell
                      /\ flash[<<"payload", b>>].kind = "data"
                      /\ flash[<<"payloadCrc", b>>] = flash[<<"payload", b>>]
    BY DEF BadBlocks
  <2>1. b \in Nat /\ b < F
    BY <1>6
  <2>2. <<"payload", b>> \in Filled(F)
    BY <1>2, <1>3, <2>1 DEF Filled, Cell, PayloadBlock
  <2>3. QED
    BY <1>1, <2>1, <2>2 DEF Sealed, Filled
<1>9. BadBlocks(m, "rerank", "rerankCrc", PerRerank) = {}
  <2> SUFFICES ASSUME NEW b \in WrittenRuns(m, PerRerank)
               PROVE  /\ <<"rerank", b>> \in Cell
                      /\ flash[<<"rerank", b>>].kind = "data"
                      /\ flash[<<"rerankCrc", b>>] = flash[<<"rerank", b>>]
    BY DEF BadBlocks
  <2>1. /\ b \in Nat
        /\ \/ b < BuiltRecords
           \/ HeadRerank(BuiltCodes) <= b /\ b < HeadRerank(F) /\ F # BuiltCodes
    BY <1>7
  <2>2. b < RerankBlocks
    BY <1>2, <1>3, <2>1
  <2>3. <<"rerank", b>> \in Filled(F)
    BY <1>2, <2>1, <2>2 DEF Filled, Cell, RerankBlock
  <2>4. QED
    BY <1>1, <2>1, <2>3 DEF Sealed, Filled
<1>10. QED
  BY <1>8, <1>9 DEF VerifiesClean

\* Of two slots only one is ever being replaced, and not before both were written.
LEMMA RaceLive ==
  ASSUME RecordInv, NEW F \in Nat, RaceAt(F)
  PROVE  Live.valid /\ Known(Live, F) /\ Live \in ManifestRecord
<1>1. SlotsKnown(F) /\ TypeOK /\ LockHeld
  BY DEF RaceAt, RecordInv
<1>2. Live \in {slot["A"], slot["B"]} /\ Live \in ManifestRecord
  BY <1>1, LiveType DEF Live, Select
<1>3. slot["A"].valid \/ slot["B"].valid
  <2> SUFFICES ASSUME ~slot["A"].valid, ~slot["B"].valid PROVE FALSE
    OBVIOUS
  <2>1. PICK a \in Appenders : pc[a] = "install" /\ TargetSlot(a) = "A"
    BY <1>1 DEF SlotsKnown
  <2>2. F # BuiltCodes
    <3>1. /\ BuiltCodes <= call[a].head
          /\ F = call[a].head + (call[a].count \div PerPayload)
      BY <2>1 DEF RaceAt, BatchAt
    <3>2. WholeUnits(call[a].count) /\ call[a].count \in Nat /\ call[a].head \in Nat
      BY <1>1, <2>1, CallFacts DEF RecordInv, AppendInv, Writing
    <3>3. 0 < call[a].count \div PerPayload /\ call[a].count \div PerPayload \in Nat
      BY <3>2, BatchFillsBlock, GeometryAssumption
    <3>4. BuiltCodes \in Nat
      BY Gap
    <3>5. QED
      BY <3>1, <3>2, <3>3, <3>4
  <2>3. PICK b \in Appenders : pc[b] \in {"erase", "install"} /\ TargetSlot(b) = "B"
    BY <1>1, <2>2 DEF SlotsKnown
  <2>4. a # b /\ pc[a] \in Writing /\ pc[b] \in Writing
    BY <2>1, <2>3 DEF Writing
  <2>5. QED
    BY <1>1, <2>4 DEF LockHeld
<1>4. Live.valid
  BY <1>3 DEF Live, Select
<1>5. QED
  BY <1>1, <1>2, <1>4 DEF SlotsKnown, Slot

\* What a manifest holds lies in the blocks a sweep under it visits.
LEMMA HeldVisited ==
  ASSUME NEW m \in ManifestRecord, NEW id \in Nat, Holds(m, id),
         NEW per \in Nat \ {0}
  PROVE  id \div per \in WrittenRuns(m, per)
<1> DEFINE q == id \div per
<1>1. q \in Nat /\ q * per <= id /\ q * per \in Nat
  BY DivBounds
<1>2. m.from \in Nat /\ m.n \in Nat /\ BuiltN \in Nat
  BY GeometryAssumption DEF ManifestRecord
<1> HIDE DEF q
<1>3. CASE id \in 0 .. BuiltN - 1
  <2>1. q < Blocks(BuiltN, per)
    BY <1>1, <1>2, <1>3, BlocksFilled
  <2>2. Blocks(BuiltN, per) \in Nat
    BY <1>2 DEF Blocks
  <2>3. QED
    BY <1>1, <2>1, <2>2 DEF WrittenRuns, q
<1>4. CASE id \in m.from .. m.n - 1
  <2>1. q < Blocks(m.n, per)
    BY <1>1, <1>2, <1>4, BlocksFilled
  <2>2. m.from \div per <= q
    <3> DEFINE p == m.from \div per
    <3>1. p \in Nat /\ p * per <= m.from /\ p * per \in Nat
      BY <1>2, DivBounds
    <3>2. id < (q + 1) * per /\ (q + 1) * per \in Nat
      BY <1>1, DivBounds DEF q
    <3> HIDE DEF p
    <3>3. q + 1 <= p => (q + 1) * per <= p * per
      BY <1>1, <3>1, MulMono
    <3>4. p <= q
      BY <1>1, <1>2, <1>4, <3>1, <3>2, <3>3
    <3>5. QED
      BY <3>4 DEF p
  <2>3. Blocks(m.n, per) \in Nat /\ m.from \div per \in Nat /\ Appended(m) # 0
    BY <1>2, <1>4 DEF Blocks, Appended
  <2>4. QED
    BY <1>1, <2>1, <2>2, <2>3 DEF WrittenRuns, q
<1>5. QED
  BY <1>3, <1>4 DEF Holds

LEMMA RaceHeld == ASSUME RaceInv PROVE HeldIntact /\ LiveManifestExists
<1>1. PICK F \in Nat : RaceAt(F)
  BY DEF RaceInv
<1>2. RecordInv /\ TypeOK
  BY DEF RaceInv, RecordInv
<1>3. Live.valid /\ Known(Live, F) /\ Live \in ManifestRecord
  BY <1>1, <1>2, RaceLive
<1>4. VerifiesClean(Live)
  BY <1>1, <1>3, KnownClean
<1>5. ASSUME NEW r \in Readers, reader[r].state = "mounted"
      PROVE  VerifiesClean(reader[r].manifest)
  <2>1. ReaderKnown(r, F)
    BY <1>1 DEF RaceAt
  <2>2. /\ reader[r].manifest \in ManifestRecord
        /\ reader[r].manifest.valid /\ Known(reader[r].manifest, F)
    BY <1>2, <1>5, <2>1 DEF ReaderKnown, TypeOK, ReaderRecord
  <2>3. QED
    BY <1>1, <2>2, KnownClean
<1>6. ASSUME NEW id \in Ids, Holds(Live, id) PROVE Readable(id)
  <2>1. id \in Nat /\ PerPayload \in Nat \ {0} /\ PerRerank \in Nat \ {0}
    BY IdsAreNat, GeometryAssumption
  <2>2. /\ id \div PerPayload \in WrittenRuns(Live, PerPayload)
        /\ id \div PerRerank \in WrittenRuns(Live, PerRerank)
    BY <1>3, <1>6, <2>1, HeldVisited
  <2>3. /\ id \div PerPayload \notin BadBlocks(Live, "payload", "payloadCrc", PerPayload)
        /\ id \div PerRerank \notin BadBlocks(Live, "rerank", "rerankCrc", PerRerank)
    BY <1>4 DEF VerifiesClean
  <2>4. /\ CellOf("payload", id) = <<"payload", id \div PerPayload>>
        /\ CellOf("payloadCrc", id) = <<"payloadCrc", id \div PerPayload>>
        /\ CellOf("rerank", id) = <<"rerank", id \div PerRerank>>
        /\ CellOf("rerankCrc", id) = <<"rerankCrc", id \div PerRerank>>
    BY DEF CellOf
  <2>5. QED
    BY <2>2, <2>3, <2>4
       DEF BadBlocks, Readable, InRegions, IntactPayload, IntactRerank, Intact
<1>7. QED
  BY <1>3, <1>4, <1>5, <1>6 DEF HeldIntact, LiveManifestExists

\* With no writer, the room reported for a unit is a head and its rerank block.
LEMMA RoomIsUsable ==
  ASSUME RecordsFillUnits, RaceInv, lock = {}, RoomFor(AppendUnit)
  PROVE  \E b \in PayloadBlock : IsHead(b) /\ HeadRerank(b) \in RerankBlock
<1>1. PICK F \in Nat : RaceAt(F)
  BY DEF RaceInv
<1>2. TypeOK /\ Quiet
  BY DEF RaceInv, RecordInv, LockHeld, Quiet, Past, Programming, Writing
<1>3. AppendUnit \in Nat /\ WholeUnits(AppendUnit)
  BY GeometryAssumption DEF AppendUnit, WholeUnits
<1>4. Fits(F, AppendUnit)
  BY <1>1, <1>2, <1>3, RoomFits
<1>5. F < PayloadBlocks /\ HeadRerank(F) < RerankBlocks
  <2>1. 0 < AppendUnit \div PerPayload /\ 0 < AppendUnit \div PerRerank
    BY <1>3, BatchFillsBlock
  <2>2. AppendUnit \div PerPayload \in Nat /\ AppendUnit \div PerRerank \in Nat
        /\ HeadRerank(F) \in Nat /\ PayloadBlocks \in Nat /\ RerankBlocks \in Nat
    BY <1>3, HeadBlocks, GeometryAssumption
  <2>3. QED
    BY <1>4, <2>1, <2>2 DEF Fits
<1>6. F \in PayloadBlock /\ IsHead(F)
  BY <1>1, <1>2, <1>5, FrontierIsHead
<1>7. HeadRerank(F) \in RerankBlock
  BY <1>5, HeadBlocks, GeometryAssumption DEF RerankBlock
<1>8. QED
  BY <1>6, <1>7

\* Nothing but a power loss changes what a written cell holds.
LEMMA StepKeeps ==
  ASSUME TypeOK, [Next]_vars, ~PowerLoss
  PROVE  Keeps
<1>1. flash' = flash => Keeps
  BY DEF Keeps
<1>2. ASSUME NEW a \in Appenders, NEW why, Refuse(a, why) PROVE Keeps
  BY <1>1, <1>2 DEF Refuse, mediaVars
<1>3. ASSUME NEW c, NEW content, Erased(c), Program(c, content) PROVE Keeps
  BY <1>3, ProgramKeeps
<1>4. ASSUME NEW a \in Appenders, NEW count, StartAppend(a, count) PROVE Keeps
  BY <1>1, <1>4 DEF StartAppend, mediaVars
<1>5. ASSUME NEW a \in Appenders, Step(a) PROVE Keeps
  <2>1. CASE FinishMount(a)
    BY <1>1, <1>2, <2>1 DEF FinishMount, mediaVars
  <2>2. CASE TakeLock(a)
    BY <1>1, <1>2, <2>2 DEF TakeLock, mediaVars
  <2>3. CASE Plan(a)
    BY <1>1, <1>2, <2>3 DEF Plan, mediaVars
  <2>4. CASE ProgramPayload(a) \/ ProgramRerank(a)
    BY <1>2, <1>3, <2>4 DEF ProgramPayload, ProgramRerank, ProgramBlock
  <2>5. CASE ProgramPayloadCrc(a) \/ ProgramRerankCrc(a)
    BY <1>2, <1>3, <2>5 DEF ProgramPayloadCrc, ProgramRerankCrc, ProgramBlockCrc
  <2>6. CASE EraseSlot(a) \/ InstallManifest(a) \/ SyncAndReport(a)
    BY <1>1, <2>6 DEF EraseSlot, InstallManifest, SyncAndReport, WriteSlot
  <2>7. QED
    BY <1>5, <2>1, <2>2, <2>3, <2>4, <2>5, <2>6 DEF Step
<1>6. ASSUME NEW a \in Appenders, Kill(a) PROVE Keeps
  BY <1>1, <1>6 DEF Kill, mediaVars
<1>7. ASSUME NEW r \in Readers, StartMount(r) \/ FinishReaderMount(r) \/ Unmount(r)
      PROVE  Keeps
  BY <1>1, <1>7 DEF StartMount, FinishReaderMount, Unmount, mediaVars
<1>8. CASE UNCHANGED vars
  BY <1>1, <1>8 DEF vars, mediaVars
<1>9. QED
  BY <1>4, <1>5, <1>6, <1>7, <1>8 DEF Next

LEMMA KeptReads ==
  ASSUME Keeps, NEW id, Readable(id)
  PROVE  SameVector(id)
<1>1. \A c \in Cell : flash[c].kind = "data" => flash'[c] = flash[c]
  BY DEF Keeps, Blank, Content
<1>2. /\ CellOf("payload", id) \in Cell /\ CellOf("payloadCrc", id) \in Cell
      /\ CellOf("rerank", id) \in Cell /\ CellOf("rerankCrc", id) \in Cell
  BY DEF Readable, InRegions, CellOf, Cell
<1>3. QED
  BY <1>1, <1>2
     DEF SameVector, Readable, InRegions, IntactPayload, IntactRerank, Intact, VectorAt

---------------------------------------------------------------------------
(* What killed appends leave.  The heads of the two regions still agree,   *)
(* because no record is there without the code before it; and until the    *)
(* first kill RaceInv holds as well.                                       *)

\* No program was cut short.
NoneTorn == \A c \in Cell : flash[c] = Blank \/ flash[c].kind = "data"

KillInv ==
  /\ RecordInv
  /\ NoneTorn
  /\ kills = 0 => RaceInv

LEMMA ProgramWhole ==
  ASSUME TypeOK, NoneTorn, NEW c, Erased(c), NEW op, NEW base, Program(c, Data(op, base))
  PROVE  NoneTorn'
BY DEF TypeOK, NoneTorn, Erased, Program, Content, Blank, Data

\* Only a power loss tears a program.
LEMMA StepWhole ==
  ASSUME TypeOK, NoneTorn, [Next]_vars, ~PowerLoss
  PROVE  NoneTorn'
<1>1. flash' = flash => NoneTorn'
  BY DEF NoneTorn
<1>2. ASSUME NEW a \in Appenders, NEW why, Refuse(a, why) PROVE NoneTorn'
  BY <1>1, <1>2 DEF Refuse, mediaVars
<1>3. ASSUME NEW a \in Appenders, NEW count, StartAppend(a, count) PROVE NoneTorn'
  BY <1>1, <1>3 DEF StartAppend, mediaVars
<1>4. ASSUME NEW a \in Appenders, Step(a) PROVE NoneTorn'
  <2>1. CASE FinishMount(a) \/ TakeLock(a) \/ Plan(a)
    BY <1>1, <1>2, <2>1 DEF FinishMount, TakeLock, Plan, mediaVars
  <2>2. CASE ProgramPayload(a) \/ ProgramRerank(a)
    BY <1>2, <2>2, ProgramWhole DEF ProgramPayload, ProgramRerank, ProgramBlock
  <2>3. CASE ProgramPayloadCrc(a) \/ ProgramRerankCrc(a)
    BY <1>2, <2>3, ProgramWhole DEF ProgramPayloadCrc, ProgramRerankCrc, ProgramBlockCrc
  <2>4. CASE EraseSlot(a) \/ InstallManifest(a) \/ SyncAndReport(a)
    BY <1>1, <2>4 DEF EraseSlot, InstallManifest, SyncAndReport, WriteSlot
  <2>5. QED
    BY <1>4, <2>1, <2>2, <2>3, <2>4 DEF Step
<1>5. ASSUME NEW a \in Appenders, Kill(a) PROVE NoneTorn'
  BY <1>1, <1>5 DEF Kill, mediaVars
<1>6. ASSUME NEW r \in Readers, StartMount(r) \/ FinishReaderMount(r) \/ Unmount(r)
      PROVE  NoneTorn'
  BY <1>1, <1>6 DEF StartMount, FinishReaderMount, Unmount, mediaVars
<1>7. CASE UNCHANGED vars
  BY <1>1, <1>7 DEF vars, mediaVars
<1>8. QED
  BY <1>3, <1>4, <1>5, <1>6, <1>7 DEF Next

\* The count of kills only grows, and by kills alone.
LEMMA NoKillYet ==
  ASSUME TypeOK, [Next]_vars, ~PowerLoss, kills' = 0
  PROVE  kills = 0 /\ \A a \in Appenders : ~Kill(a)
<1>1. \A a \in Appenders : ~Kill(a)
  BY DEF Kill, TypeOK
<1>2. ASSUME NEW a \in Appenders, NEW why, Refuse(a, why) PROVE kills' = kills
  BY <1>2 DEF Refuse, boundVars
<1>3. ASSUME NEW a \in Appenders, Step(a) PROVE kills' = kills
  <2>1. CASE FinishMount(a) \/ TakeLock(a) \/ Plan(a)
    BY <1>2, <2>1 DEF FinishMount, TakeLock, Plan, boundVars
  <2>2. CASE ProgramPayload(a) \/ ProgramRerank(a)
    BY <1>2, <2>2 DEF ProgramPayload, ProgramRerank, ProgramBlock, boundVars
  <2>3. CASE ProgramPayloadCrc(a) \/ ProgramRerankCrc(a)
    BY <1>2, <2>3 DEF ProgramPayloadCrc, ProgramRerankCrc, ProgramBlockCrc, boundVars
  <2>4. CASE EraseSlot(a) \/ InstallManifest(a) \/ SyncAndReport(a)
    BY <2>4 DEF EraseSlot, InstallManifest, SyncAndReport, boundVars
  <2>5. QED
    BY <1>3, <2>1, <2>2, <2>3, <2>4 DEF Step
<1>4. kills' = kills
  BY <1>1, <1>3
     DEF Next, StartAppend, StartMount, FinishReaderMount, Unmount, boundVars, vars
<1>5. QED
  BY <1>1, <1>4

LEMMA KillInit == Init => KillInv
<1>1. Init => NoneTorn
  BY DEF Init, NoneTorn, Data, Content, Blank
<1>2. QED
  BY <1>1, RecordInit, RaceInit DEF KillInv

LEMMA KillStep ==
  ASSUME RecordsFillUnits, MaxPowerLoss = 0
  PROVE  KillInv /\ [Next]_vars => KillInv'
<1> SUFFICES ASSUME KillInv, [Next]_vars PROVE KillInv'
  OBVIOUS
<1>1. TypeOK /\ ~PowerLoss
  BY DEF KillInv, RecordInv, PowerLoss, TypeOK
<1>2. RecordInv' /\ NoneTorn'
  BY <1>1, PoweredRecord, StepWhole DEF KillInv
<1>3. kills' = 0 => RaceInv'
  BY <1>1, NoKillYet, PoweredRace DEF KillInv
<1>4. QED
  BY <1>2, <1>3 DEF KillInv

\* The record at the head's first id would be there without its code.
LEMMA RecordsAgree ==
  ASSUME RecordInv, NoneTorn
  PROVE  HeadsAgree
<1> SUFFICES ASSUME NEW b \in PayloadBlock, IsHead(b), HeadRerank(b) \in RerankBlock,
                    ~Erased(<<"rerank", HeadRerank(b)>>)
             PROVE  FALSE
  BY DEF HeadsAgree
<1> DEFINE id == FirstId(b)
<1>1. b \in Nat /\ id \in Nat /\ id = b * PerPayload
  BY GeometryAssumption DEF PayloadBlock, FirstId
<1>2. id \div PerPayload = b
  <2>1. (b + 1) * PerPayload = id + PerPayload
    BY <1>1, GeometryAssumption
  <2> HIDE DEF id
  <2>2. QED
    BY <1>1, <2>1, DivUnique, GeometryAssumption
<1>3. id \div PerRerank = HeadRerank(b)
  BY DEF HeadRerank
<1>4. id \in Ids
  <2>1. (b + 1) * PerPayload <= PayloadBlocks * PerPayload
    BY <1>1, MulMono, GeometryAssumption DEF PayloadBlock
  <2>2. (b + 1) * PerPayload = id + PerPayload /\ PayloadBlocks * PerPayload \in Nat
    BY <1>1, GeometryAssumption
  <2> HIDE DEF id
  <2>3. QED
    BY <1>1, <2>1, <2>2, GeometryAssumption DEF Ids
<1>5. /\ CellOf("payload", id) = <<"payload", b>>
      /\ CellOf("rerank", id) = <<"rerank", HeadRerank(b)>>
  BY <1>2, <1>3 DEF CellOf
<1>6. <<"payload", b>> \in Cell /\ <<"rerank", HeadRerank(b)>> \in Cell
  BY DEF Cell
<1>7. flash[<<"rerank", HeadRerank(b)>>].kind = "data"
  BY <1>6 DEF NoneTorn, Erased
<1> HIDE DEF id
<1>8. flash[<<"payload", b>>].kind = "data"
  BY <1>4, <1>5, <1>6, <1>7 DEF RecordInv, RecordFollowsCode, InRegions
<1>9. QED
  BY <1>8 DEF IsHead, Erased, Blank, Content

LEMMA KillAppendable ==
  ASSUME RecordsFillUnits, KillInv
  PROVE  Appendable
BY RecordsAgree, RoomIsUsable DEF KillInv, Appendable

---------------------------------------------------------------------------
(* The theorems. *)

LEMMA RaceInvariant ==
  ASSUME RecordsFillUnits, MaxKills = 0, MaxPowerLoss = 0
  PROVE  Spec => []RaceInv
BY RaceInit, RaceStep, PTL DEF Spec

\* However many processes append, every id the live manifest holds can be read,
\* and neither it nor a manifest a reader mounted earlier makes a sweep take the
\* gap, or a batch being written, for damage.
THEOREM RacingHeldIntact ==
  ASSUME RecordsFillUnits, MaxKills = 0, MaxPowerLoss = 0
  PROVE  Spec => []HeldIntact
BY RaceInvariant, RaceHeld, PTL

\* However many processes append, the volume always mounts.
THEOREM RacingAlwaysMounts ==
  ASSUME RecordsFillUnits, MaxKills = 0, MaxPowerLoss = 0
  PROVE  Spec => []LiveManifestExists
BY RaceInvariant, RaceHeld, PTL

\* An append that passed its checks is never refused by the medium, and the two
\* regions never disagree on where the next one goes.
THEOREM RacingNeverRefused ==
  ASSUME RecordsFillUnits, MaxKills = 0, MaxPowerLoss = 0
  PROVE  Spec => []NeverRefused
<1>1. RaceInv => NeverRefused
  BY DEF RaceInv
<1>2. QED
  BY <1>1, RaceInvariant, PTL

\* However many processes append and are killed, no append is refused as diverged
\* for what they left, and until one is killed the room `capacity` reports can be used.
THEOREM AppendableAfterKills ==
  ASSUME RecordsFillUnits, MaxPowerLoss = 0
  PROVE  Spec => []Appendable
BY KillInit, KillStep, KillAppendable, PTL DEF Spec

\* Whatever else appends, is killed or loses power, a mounted reader that could
\* read an id of its manifest reads the same vector after any step but its own
\* mount: no hypothesis on the processes, the geometry or the bounds.
THEOREM MountedUndisturbed == Spec => ReadersUndisturbed
<1>1. TypeOK /\ [Next]_vars =>
        [\A r \in Readers : \A id \in Ids :
           /\ reader[r].state = "mounted"
           /\ reader'[r] = reader[r]
           /\ Holds(reader[r].manifest, id)
           /\ Readable(id)
           => SameVector(id)]_vars
  <2> SUFFICES ASSUME TypeOK, [Next]_vars, NEW r \in Readers, NEW id \in Ids,
                      reader[r].state = "mounted", reader'[r] = reader[r], Readable(id)
               PROVE  SameVector(id)
    OBVIOUS
  <2>1. ~PowerLoss
    BY DEF PowerLoss, Unmounted
  <2>2. QED
    BY <2>1, StepKeeps, KeptReads
<1>2. QED
  BY <1>1, TypeCorrect, PTL DEF Spec, ReadersUndisturbed
=============================================================================
