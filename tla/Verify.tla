------------------------------- MODULE Verify -------------------------------
(***************************************************************************)
(* Offline verification: the sweep of a volume on disk and what it says of *)
(* the vectors it finds damaged (sector-os verify.rs), the commands that   *)
(* rest on it (sector-cli verify_cmd.rs, inspect_cmd.rs), and the file a   *)
(* build leaves when it is cut short (build_cmd.rs).                       *)
(*                                                                         *)
(* A volume is an image of Layout with vectors appended to it, the blocks  *)
(* whose bytes changed since they were written, and the length of its      *)
(* file: [image, appended, payload, rerank, codebook, length], codebook    *)
(* being what each block of each copy holds.                               *)
(***************************************************************************)
EXTENDS Layout, FiniteSets

\* The manifest after the build and one append to it, if any.
ManifestOf(volume) ==
  IF volume.appended = 0 THEN EmitManifest(volume.image)
  ELSE [EmitManifest(volume.image) EXCEPT
          !.sequence = 2, !.appended_from = AppendHead(volume.image),
          !.n = AppendHead(volume.image) + volume.appended]

StoredIds(manifest) == 0 .. manifest.built_n - 1 \cup manifest.appended_from .. manifest.n - 1

RecordsPer(manifest, kind) ==
  IF kind = "payload" THEN VectorsPerBlock(PayloadBytes(manifest))
  ELSE RecordsPerBlock(RerankBytes(manifest))

StoredBlocks(manifest, kind) ==
  {id \div RecordsPer(manifest, kind) : id \in StoredIds(manifest)}

\* A block checks when it was written and has not changed; neither an erased
\* block nor a changed one has the CRC its word claims.
Checks(volume, manifest, kind, block) ==
  block \in StoredBlocks(manifest, kind) \ volume[kind]

---------------------------------------------------------------------------
(* The file, and mounting it.                                              *)

\* FileFlash::open wants two manifest slots; a read ends inside the file.
Opens(volume) == volume.length >= ReservedBytes
Reads(volume, at, len) == at + len <= volume.length

\* A mount reads the two slots and the whole codebook.
MountsFile(volume, manifest) ==
  /\ Opens(volume)
  /\ Reads(volume, Region(manifest.table, "codebook").base,
           Pow2(manifest.b) * RerankBytes(manifest))

---------------------------------------------------------------------------
(* The sweep.                                                              *)

\* A sweep of everything up to the last block would take the gap for damage.
WrittenRunsToEnd(manifest, perBlock) == {<<0, DivCeil(manifest.n, AtLeastOne(perBlock))>>}

\* Half-open spans of blocks: one, or two when an append left a gap.
WrittenRuns(manifest, perBlock) ==
  LET per   == AtLeastOne(perBlock)
      built == DivCeil(manifest.built_n, per)
      start == manifest.appended_from \div per
      end   == DivCeil(manifest.n, per)
  IN  IF manifest.n = manifest.appended_from THEN {<<0, built>>}
      ELSE IF start <= built THEN {<<0, end>>}
      ELSE {<<0, built>>, <<start, end>>}
Swept(manifest, kind) ==
  UNION {run[1] .. run[2] - 1 : run \in WrittenRuns(manifest, RecordsPer(manifest, kind))}

CrcKind(kind) == IF kind = "payload" THEN "payloadCrc" ELSE "rerankCrc"

\* One region's report.  A region without a CRC array is unchecked, not clean.
SweepRegion(volume, manifest, kind) ==
  LET checked  == HasRegion(manifest.table, CrcKind(kind))
  IN  [kind |-> kind, blocks |-> Cardinality(Swept(manifest, kind)), checked |-> checked,
       bad |-> IF checked THEN {b \in Swept(manifest, kind) : ~Checks(volume, manifest, kind, b)} ELSE {}]

SweepReads(volume, manifest, kind) ==
  LET crc      == Region(manifest.table, CrcKind(kind))
  IN  \A b \in Swept(manifest, kind) :
        /\ Reads(volume, BlockOffset(Region(manifest.table, kind), b), BlockBytes)
        /\ Reads(volume, crc.base + b * CrcBytes, CrcBytes)

\* The blocks of the primary and of the first replica that are compared.
Compared(manifest) ==
  LET data == DivCeil(Pow2(manifest.b) * RerankBytes(manifest), BlockBytes)
      held == {data, Region(manifest.table, "codebook").blocks,
               Region(manifest.table, "replica").blocks}
  IN  0 .. (CHOOSE least \in held : \A b \in held : least <= b) - 1
Differing(volume, manifest) ==
  {b \in Compared(manifest) : volume.codebook[1][b] # volume.codebook[2][b]}
CompareReads(volume, manifest) ==
  \A b \in Compared(manifest), kind \in {"codebook", "replica"} :
    Reads(volume, BlockOffset(Region(manifest.table, kind), b), BlockBytes)

CodebookReport(volume, manifest) ==
  [kind |-> "codebook", blocks |-> Cardinality(Compared(manifest)),
   checked |-> FALSE, bad |-> Differing(volume, manifest)]

\* The whole report, or the refusal of the first read past the file's end.
VerifyVolume(volume, manifest) ==
  IF /\ MountsFile(volume, manifest) /\ CompareReads(volume, manifest)
     /\ \A kind \in {"payload", "rerank"} : SweepReads(volume, manifest, kind)
  THEN {[payload |-> SweepRegion(volume, manifest, "payload"),
         rerank |-> SweepRegion(volume, manifest, "rerank"),
         codebook |-> CodebookReport(volume, manifest),
         status |-> IF Differing(volume, manifest) = {} THEN "agree" ELSE "disagree"]}
  ELSE {}

RegionIsClean(region) == region.bad = {}
ReportIsClean(report) ==
  \A kind \in {"payload", "rerank", "codebook"} : RegionIsClean(report[kind])

---------------------------------------------------------------------------
(* What the damage costs, in vectors.                                      *)

Least(a, b) == IF a < b THEN a ELSE b

VectorsWithBadCodes(manifest, report) ==
  Least(Cardinality(report.payload.bad) * (BlockBytes \div PayloadBytes(manifest)), manifest.n)

CandidatesThatWillDrop(manifest, report) ==
  Least(Cardinality(report.rerank.bad) * AtLeastOne(BlockBytes \div RerankBytes(manifest)),
        manifest.n)

\* In expectation, as if every centroid had as many vectors.
VectorsWithBadReconstruction(manifest, report) ==
  LET bad       == Cardinality(report.codebook.bad)
      centroids == Pow2(manifest.b)
      perBlock  == DivCeil(centroids, AtLeastOne(report.codebook.blocks))
  IN  IF bad = 0 THEN 0 ELSE Least((bad * perBlock * manifest.n) \div centroids, manifest.n)

---------------------------------------------------------------------------
(* The commands.                                                           *)

DamagedRegions(report) ==
  Cardinality({kind \in {"payload", "rerank", "codebook"} : ~RegionIsClean(report[kind])})

\* `sector verify`: 0 for clean, 1 for damaged, 2 for a check that did not run.
VerifyExit(reports) ==
  IF reports = {} THEN 2
  ELSE IF \A report \in reports : DamagedRegions(report) = 0 THEN 0 ELSE 1

\* `sector repair` diagnoses and writes nothing: it succeeds when there is nothing to do.
RepairRefuses(reports) == \A report \in reports : ~ReportIsClean(report)

\* `sector inspect` compares the end of the last region with the file's length.
InspectAccepts(volume, table) ==
  /\ Opens(volume)
  /\ \A i \in DOMAIN table : End(table[i]) <= volume.length
ReplicaApart(table) ==
  Region(table, "codebook").base \div SectorBytes
    # Region(table, "replica").base \div SectorBytes

CodebookBlocks(image) == 0 .. DivCeil(CodebookBytes(image), BlockBytes) - 1

\* `sector build` writes its image in place: cut short, it leaves the first bytes.
BuildLeaves(image, written) ==
  [image |-> image, appended |-> 0, payload |-> {}, rerank |-> {},
   codebook |-> [copy \in 1 .. 2 |-> [b \in CodebookBlocks(image) |-> 0]], length |-> written]

---------------------------------------------------------------------------
(* What verification owes its reader.                                      *)

\* What a manifest is that describes a volume: ids in order, whole records to a block, and a
\* valid table of blocks whose regions hold what is counted.
Regions == Seq([kind : STRING, protection : STRING, base : Nat, block_bytes : {BlockBytes}, blocks : Nat])
HoldsRecords(manifest, kind) ==
  LET blocks == DivCeil(manifest.n, RecordsPer(manifest, kind))
  IN  /\ blocks <= Region(manifest.table, kind).blocks
      /\ blocks * CrcBytes <= ByteLen(Region(manifest.table, CrcKind(kind)))
Describes(manifest, volume) ==
  /\ {manifest.built_n, manifest.appended_from, manifest.n, volume.length} \subseteq Nat
  /\ manifest.built_n <= manifest.appended_from /\ manifest.appended_from <= manifest.n
  /\ PayloadBytes(manifest) \in 1 .. BlockBytes /\ RerankBytes(manifest) \in 1 .. BlockBytes
  /\ Pow2(manifest.b) \in Nat \ {0}
  /\ CodebookBytes(volume.image) = Pow2(manifest.b) * RerankBytes(manifest)
  /\ manifest.table \in Regions /\ TableValid(manifest.table)
  /\ \A i \in DOMAIN RegionKinds : HasRegion(manifest.table, RegionKinds[i])
  /\ \A kind \in {"payload", "rerank"} : HoldsRecords(manifest, kind)
  /\ \A kind \in {"codebook", "replica"} :
       CodebookBytes(volume.image) <= ByteLen(Region(manifest.table, kind))

Affected(volume, manifest, kind) ==
  {id \in StoredIds(manifest) : id \div RecordsPer(manifest, kind) \in volume[kind]}

\* The sweep visits the blocks that hold vectors and no others: what it reports is the
\* damage, whatever gap an append left, and the estimates are never below what is lost.
DamageReported(volume, manifest, report) ==
  /\ \A kind \in {"payload", "rerank"} :
       /\ report[kind].checked
       /\ Swept(manifest, kind) = StoredBlocks(manifest, kind)
       /\ report[kind].bad = volume[kind] \cap StoredBlocks(manifest, kind)
  /\ VectorsWithBadCodes(manifest, report) >= Cardinality(Affected(volume, manifest, "payload"))
  /\ CandidatesThatWillDrop(manifest, report) >= Cardinality(Affected(volume, manifest, "rerank"))
  /\ report.codebook.bad # {} /\ manifest.n >= Pow2(manifest.b) =>
       VectorsWithBadReconstruction(manifest, report) > 0
  /\ (report.status = "agree") <=>
       \A b \in CodebookBlocks(volume.image) : volume.codebook[1][b] = volume.codebook[2][b]

\* A file that lost the end of a block that holds vectors is never found clean, one that
\* lost any byte of a region is never inspected, and what is inspected can be verified.
CutNotClean(volume, manifest, reports) ==
  /\ VerifyExit(reports) = 0 =>
       \A kind \in {"payload", "rerank"} : \A b \in StoredBlocks(manifest, kind) :
         /\ Reads(volume, BlockOffset(Region(manifest.table, kind), b), BlockBytes)
         /\ b \notin volume[kind]
  /\ InspectAccepts(volume, manifest.table) =>
       /\ VerifyExit(reports) # 2
       /\ volume.length >= End(manifest.table[Len(manifest.table)])
  /\ VerifyExit(reports) = 1 <=> reports # {} /\ RepairRefuses(reports)

VerifySoundUnder(volume, manifest, reports) ==
  /\ \A report \in reports : DamageReported(volume, manifest, report)
  /\ CutNotClean(volume, manifest, reports)
  /\ ReplicaApart(manifest.table)
VerifySound(volume) ==
  Emits(volume.image) =>
    LET manifest == ManifestOf(volume)
    IN  VerifySoundUnder(volume, manifest, VerifyVolume(volume, manifest))

\* The file that an interrupted build leaves is not mistaken for a volume.
CutBuildRefused(image, written) ==
  Emits(image) /\ written < End(EmitTable(image)[6]) =>
    ~InspectAccepts(BuildLeaves(image, written), EmitTable(image))
=============================================================================
