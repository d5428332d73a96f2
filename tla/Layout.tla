------------------------------- MODULE Layout -------------------------------
(***************************************************************************)
(* The bytes of a volume: what the builder lays down (sector-build         *)
(* emit.rs), the region table and manifest that describe it (sector-format *)
(* region.rs, manifest.rs), and where a mounted reader looks (payload_blk, *)
(* rerank_blk, codebook_blk, sector-core mount.rs, sector-os volume.rs and *)
(* source.rs).  Writer and reader compute their addresses separately; the  *)
(* module has both, and its properties say that they agree.                *)
(*                                                                         *)
(* A byte is a triple: what it is of, and which.  A CRC word is named by   *)
(* the bytes it covers, so a CRC fits a block exactly when the block is as *)
(* it was when the word was computed.                                      *)
(***************************************************************************)
EXTENDS Integers, Sequences, SequencesExt

CONSTANTS
  BlockBytes,    \* BLOCK_BYTES, the extent of a CRC
  SectorBytes,   \* SECTOR_BYTES, the extent of an erase and of a manifest slot
  MaxAddress,    \* u32::MAX
  ByteBits       \* bits of a stored byte as far as codes go: 8

\* What the parameters have to be.
LayoutAssumption ==
  /\ BlockBytes \in Nat \ {0} /\ SectorBytes \in Nat \ {0} /\ MaxAddress \in Nat
  /\ ByteBits \in Nat \ {0}
  /\ SectorBytes % BlockBytes = 0

CrcBytes == 4
ReservedBytes == 2 * SectorBytes

DivCeil(a, b) == (a + b - 1) \div b
RoundUp(a, b) == DivCeil(a, b) * b
AtLeastOne(a) == IF a = 0 THEN 1 ELSE a
U16(a) == a % 65536
Pow2(b) == 2 ^ b

Blank == <<0, 0, 0>>
CodeByte(id, j) == <<1, id, j>>
RecordByte(id, i) == <<2, id, i>>
CodebookByte(i) == <<3, 0, i>>
Number(v) == <<4, v, 0>>
Crc32(bytes) == [i \in 1 .. CrcBytes |-> <<5, bytes, i>>]

\* to_le_bytes and from_le_bytes of an integer of w bytes.
LittleEndian(v, w) ==
  LET shifted[i \in 0 .. w - 1] == IF i = 0 THEN v ELSE shifted[i - 1] \div 256
  IN  [i \in 1 .. w |-> Number(shifted[i - 1] % 256)]
FromLittleEndian(bytes) == FoldRight(LAMBDA byte, acc : acc * 256 + byte[2], bytes, 0)

Bytes(out, at, len) == [i \in 1 .. len |-> out[at + i - 1]]

---------------------------------------------------------------------------
(* Region descriptors and the table.                                       *)

RegionKinds == <<"codebook", "replica", "payload", "payloadCrc", "rerank", "rerankCrc">>
Protections == <<"detect", "replicate", "reedSolomon">>
RegionDescBytes == 16

ByteLen(region) == region.blocks * region.block_bytes
End(region) == region.base + ByteLen(region)

RegionValid(region) ==
  /\ region.base % SectorBytes = 0
  /\ region.block_bytes # 0 /\ SectorBytes % region.block_bytes = 0
  /\ ByteLen(region) % SectorBytes = 0
  /\ End(region) <= MaxAddress

Overlap(one, other) == one.base < End(other) /\ other.base < End(one)

TableValid(table) ==
  /\ \A i \in DOMAIN table : RegionValid(table[i])
  /\ \A i, j \in DOMAIN table : i < j => ~Overlap(table[i], table[j])

\* The first descriptor of a kind.
HasRegion(table, kind) == \E i \in DOMAIN table : table[i].kind = kind
Region(table, kind) == table[SelectInSeq(table, LAMBDA r : r.kind = kind)]

BlockOffset(region, block) == region.base + block * region.block_bytes

IndexIn(names, name) == CHOOSE i \in DOMAIN names : names[i] = name

EncodeRegion(region) ==
  <<Number(IndexIn(RegionKinds, region.kind)),
    Number(IndexIn(Protections, region.protection) - 1), Number(0), Number(0)>>
  \o LittleEndian(region.base, 4) \o LittleEndian(region.block_bytes, 4)
  \o LittleEndian(region.blocks, 4)

KnownDiscriminants(raw) == raw[1][2] \in DOMAIN RegionKinds
                           /\ raw[2][2] + 1 \in DOMAIN Protections

DecodeRegion(raw) ==
  [kind |-> RegionKinds[raw[1][2]], protection |-> Protections[raw[2][2] + 1],
   base |-> FromLittleEndian(SubSeq(raw, 5, 8)),
   block_bytes |-> FromLittleEndian(SubSeq(raw, 9, 12)),
   blocks |-> FromLittleEndian(SubSeq(raw, 13, 16))]

EncodeTable(table) == FlattenSeq([i \in DOMAIN table |-> EncodeRegion(table[i])])

RawRegion(raw, i) == SubSeq(raw, (i - 1) * RegionDescBytes + 1, i * RegionDescBytes)

DecodeTable(raw) == [i \in 1 .. Len(RegionKinds) |-> DecodeRegion(RawRegion(raw, i))]

---------------------------------------------------------------------------
(* The manifest.                                                           *)

Magic == [i \in 1 .. 4 |-> <<6, 0, i>>]
Version == LittleEndian(2, 2)

\* The fields after the reserved halfword, with their widths.
Fields == <<<<"sequence", 8>>, <<"d", 2>>, <<"m", 2>>, <<"b", 2>>, <<"cb_bytes", 2>>,
            <<"n", 4>>, <<"r", 4>>, <<"built_n", 4>>, <<"appended_from", 4>>>>
FieldsAt == 8
FieldAt(i) == FoldLeft(LAMBDA at, f : at + f[2], FieldsAt, SubSeq(Fields, 1, i - 1))
TableAt == FieldAt(Len(Fields) + 1)
DigestAt == TableAt + Len(RegionKinds) * RegionDescBytes

EncodeManifest(manifest) ==
  LET scope == Magic \o Version \o LittleEndian(0, 2)
                 \o FlattenSeq([i \in DOMAIN Fields |->
                      LittleEndian(manifest[Fields[i][1]], Fields[i][2])])
                 \o EncodeTable(manifest.table)
      used  == scope \o Crc32(scope)
  IN  used \o [i \in 1 .. SectorBytes - Len(used) |-> Blank]

FieldValue(raw, name) ==
  LET i == CHOOSE i \in DOMAIN Fields : Fields[i][1] = name
  IN  FromLittleEndian(SubSeq(raw, FieldAt(i) + 1, FieldAt(i) + Fields[i][2]))

ManifestRead(raw) ==
  [table |-> DecodeTable(SubSeq(raw, TableAt + 1, DigestAt))]
  @@ [name \in {Fields[i][1] : i \in DOMAIN Fields} |-> FieldValue(raw, name)]

\* No field is used before the digest over it has verified.
ManifestValid(raw) ==
  /\ SubSeq(raw, 1, 4) = Magic /\ SubSeq(raw, 5, 6) = Version
  /\ SubSeq(raw, DigestAt + 1, DigestAt + CrcBytes) = Crc32(SubSeq(raw, 1, DigestAt))
  /\ \A i \in DOMAIN RegionKinds :
       KnownDiscriminants(RawRegion(SubSeq(raw, TableAt + 1, DigestAt), i))
  /\ LET m == ManifestRead(raw)
     IN  TableValid(m.table) /\ m.built_n <= m.appended_from /\ m.appended_from <= m.n

---------------------------------------------------------------------------
(* The builder.  An image is what `sector build` hands to emit: n vectors  *)
(* of d components, m codes of b bits each, r candidates, copies of the    *)
(* codebook, a reserve of vector slots.                                    *)

\* Euclid's algorithm, as in append_unit.
Gcd(a, b) ==
  LET step[x \in 0 .. a + b] == [y \in 0 .. a + b |-> IF y = 0 THEN x ELSE step[y][x % y]]
  IN  step[a][b]
AppendUnit(perPayload, perRerank) ==
  LET a == AtLeastOne(perPayload)
      b == AtLeastOne(perRerank)
  IN  (a \div Gcd(a, b)) * b

\* One byte to a code and one byte to a component, whatever b is.
EmitPerPayload(image) == BlockBytes \div AtLeastOne(image.m)
EmitPerRerank(image) == BlockBytes \div AtLeastOne(image.d)

\* The id the first append starts at, and the ids the regions have room for.
AppendHead(image) ==
  IF image.reserve = 0 THEN image.n
  ELSE RoundUp(image.n, AppendUnit(EmitPerPayload(image), EmitPerRerank(image)))
Capacity(image) == AppendHead(image) + image.reserve

EmitPayloadBlocks(image, ids) == DivCeil(ids, AtLeastOne(EmitPerPayload(image)))
EmitRerankBlocks(image, ids) ==
  IF image.d <= BlockBytes THEN DivCeil(ids, AtLeastOne(EmitPerRerank(image)))
  ELSE ids * DivCeil(image.d, BlockBytes)

CodebookBytes(image) == Pow2(image.b) * image.d

\* The regions in the order they are placed, with the bytes each needs.
RegionSpec(image) ==
  LET codebook == RoundUp(CodebookBytes(image), SectorBytes)
      payload  == EmitPayloadBlocks(image, Capacity(image))
      rerank   == EmitRerankBlocks(image, Capacity(image))
  IN  <<<<"codebook", "replicate", codebook>>,
        <<"replica", "replicate", codebook * (AtLeastOne(image.copies) - 1)>>,
        <<"payload", "detect", RoundUp(payload * BlockBytes, SectorBytes)>>,
        <<"payloadCrc", "detect", RoundUp(payload * CrcBytes, SectorBytes)>>,
        <<"rerank", "detect", RoundUp(rerank * BlockBytes, SectorBytes)>>,
        <<"rerankCrc", "detect", RoundUp(rerank * CrcBytes, SectorBytes)>>>>

PlacedAt(spec, i) ==
  FoldLeft(LAMBDA at, entry : at + entry[3], ReservedBytes, SubSeq(spec, 1, i - 1))

PlacedTable(spec) ==
  [i \in DOMAIN spec |->
    [kind |-> spec[i][1], protection |-> spec[i][2], base |-> PlacedAt(spec, i),
     block_bytes |-> BlockBytes, blocks |-> spec[i][3] \div BlockBytes]]

EmitTable(image) == PlacedTable(RegionSpec(image))

WriteAt(out, at, data) ==
  IF \A i \in DOMAIN data : at + i - 1 \in DOMAIN out
  THEN [a \in DOMAIN out |-> IF at <= a /\ a < at + Len(data) THEN data[a - at + 1]
                             ELSE out[a]]
  ELSE out

\* Records go into a block until it is full or there are none left, then the
\* block's CRC word is computed over what it holds.
WriteBlock(out, base, crcBase, records, perBlock, block) ==
  LET at      == base + block * BlockBytes
      held    == {slot \in 0 .. perBlock - 1 : block * perBlock + slot < Len(records)}
      Put(o, slot) == LET record == records[block * perBlock + slot + 1]
                      IN  WriteAt(o, at + slot * Len(record), record)
      filled  == FoldLeft(LAMBDA o, i : IF i - 1 \in held THEN Put(o, i - 1) ELSE o,
                          out, [i \in 1 .. perBlock |-> i])
  IN  WriteAt(filled, crcBase + block * CrcBytes, Crc32(Bytes(filled, at, BlockBytes)))

WriteBlocks(out, base, crcBase, records, perBlock, blocks) ==
  FoldLeft(LAMBDA o, i : WriteBlock(o, base, crcBase, records, perBlock, i - 1),
           out, [i \in 1 .. blocks |-> i])

Codes(image) == [v \in 1 .. image.n |-> [j \in 1 .. image.m |-> CodeByte(v - 1, j - 1)]]
Records(image) == [v \in 1 .. image.n |-> [i \in 1 .. image.d |-> RecordByte(v - 1, i - 1)]]

EmitManifest(image) ==
  [sequence |-> 1, d |-> U16(image.d), m |-> U16(image.m), b |-> image.b, cb_bytes |-> 1,
   n |-> image.n, r |-> image.r, built_n |-> image.n, appended_from |-> image.n,
   table |-> EmitTable(image)]

EmitInto(image, table) ==
  LET base(i)   == table[i].base
      blank     == [a \in 0 .. End(table[6]) - 1 |-> Blank]
      codebook  == [i \in 1 .. CodebookBytes(image) |-> CodebookByte(i)]
      extent    == RoundUp(CodebookBytes(image), SectorBytes)
      codebooks == FoldLeft(LAMBDA o, c : WriteAt(o, base(2) + (c - 1) * extent, codebook),
                            WriteAt(blank, base(1), codebook),
                            [c \in 1 .. AtLeastOne(image.copies) - 1 |-> c])
      payload   == WriteBlocks(codebooks, base(3), base(4), Codes(image),
                               EmitPerPayload(image), EmitPayloadBlocks(image, image.n))
      rerank    == WriteBlocks(payload, base(5), base(6), Records(image),
                               AtLeastOne(EmitPerRerank(image)),
                               EmitRerankBlocks(image, image.n))
  IN  WriteAt(rerank, 0, EncodeManifest(EmitManifest(image)))

Emit(image) == EmitInto(image, EmitTable(image))

\* emit returns an error instead of an image whose table does not validate.
Emits(image) == TableValid(EmitTable(image))

---------------------------------------------------------------------------
(* The mounted reader.                                                     *)

\* payload_blk.rs: codes never straddle a block.
VectorsPerBlock(bytes) == BlockBytes \div bytes
PayloadBlocksOf(bytes, n) == DivCeil(n, VectorsPerBlock(bytes))
PayloadOffset(bytes, id) ==
  (id \div VectorsPerBlock(bytes)) * BlockBytes + (id % VectorsPerBlock(bytes)) * bytes
IdsInBlock(bytes, n, block) ==
  block * VectorsPerBlock(bytes) ..
    (IF (block + 1) * VectorsPerBlock(bytes) < n THEN (block + 1) * VectorsPerBlock(bytes)
     ELSE n) - 1

\* rerank_blk.rs: a record may span blocks, and then starts one.
BlocksPerRecord(bytes) == DivCeil(bytes, BlockBytes)
RecordsPerBlock(bytes) == BlockBytes \div bytes
RerankBlocksOf(bytes, n) ==
  IF bytes <= BlockBytes THEN DivCeil(n, RecordsPerBlock(bytes))
  ELSE n * BlocksPerRecord(bytes)
\* Records laid end to end would straddle blocks.
RecordOffsetPacked(bytes, id) == id * bytes

RecordOffset(bytes, id) ==
  IF bytes <= BlockBytes
  THEN (id \div RecordsPerBlock(bytes)) * BlockBytes + (id % RecordsPerBlock(bytes)) * bytes
  ELSE id * BlocksPerRecord(bytes) * BlockBytes
BlocksOf(bytes, id) ==
  RecordOffset(bytes, id) \div BlockBytes ..
    (RecordOffset(bytes, id) + bytes - 1) \div BlockBytes
RecordCapacity(bytes, flash) ==
  IF bytes <= BlockBytes THEN (flash \div BlockBytes) * RecordsPerBlock(bytes)
  ELSE flash \div (BlocksPerRecord(bytes) * BlockBytes)

\* codebook_blk.rs: the block of a copy, given where the copies start.
CopyBytes(bytes) == RoundUp(bytes, SectorBytes)
CopyBlockAt(bytes, primary, replica, copy, block) ==
  (IF copy = 0 THEN primary ELSE replica + (copy - 1) * CopyBytes(bytes)) + block * BlockBytes
CopySector(bytes, primary, replica, copy, block) ==
  CopyBlockAt(bytes, primary, replica, copy, block) \div SectorBytes
SectorDisjoint(bytes, copies, primary, replica) ==
  /\ primary % SectorBytes = 0 /\ replica % SectorBytes = 0
  /\ \A block \in 0 .. DivCeil(bytes, BlockBytes) - 1, a, b \in 0 .. copies - 1 :
       a < b => CopySector(bytes, primary, replica, a, block)
                  # CopySector(bytes, primary, replica, b, block)

\* Geometry::of: the record sizes the manifest implies.
PayloadBytes(manifest) == (manifest.m * manifest.b) \div ByteBits
RerankBytes(manifest) == manifest.d * manifest.cb_bytes

StoredCenti(manifest) ==
  (PayloadBytes(manifest) + RerankBytes(manifest)) * 100
  + (IF VectorsPerBlock(PayloadBytes(manifest)) = 0 THEN 0
     ELSE 400 \div VectorsPerBlock(PayloadBytes(manifest)))
  + (IF RecordsPerBlock(RerankBytes(manifest)) = 0 THEN 0
     ELSE 400 \div RecordsPerBlock(RerankBytes(manifest)))

\* A device profile and the check of an image against it.
ProfileOf(manifest) ==
  [d |-> manifest.d, m |-> manifest.m, b |-> manifest.b, cb_bytes |-> manifest.cb_bytes,
   r |-> manifest.r]
ProfileAccepts(profile, manifest) ==
  /\ \A field \in {"d", "m", "b", "cb_bytes"} : manifest[field] = profile[field]
  /\ manifest.r <= profile.r

Mounts(out, profile) ==
  /\ ManifestValid(Bytes(out, 0, SectorBytes))
  /\ LET manifest == ManifestRead(Bytes(out, 0, SectorBytes))
     IN  /\ ProfileAccepts(profile, manifest)
         /\ \A kind \in {RegionKinds[i] : i \in DOMAIN RegionKinds} \ {"replica"} :
              HasRegion(manifest.table, kind)

MountedCodebook(out, manifest) ==
  Bytes(out, Region(manifest.table, "codebook").base, Pow2(manifest.b) * manifest.d)

\* What a scan takes for the codes of an id.
ReadCodes(out, manifest, id) ==
  Bytes(out, Region(manifest.table, "payload").base
               + PayloadOffset(PayloadBytes(manifest), id), PayloadBytes(manifest))

\* What stage two takes for the record of an id, and whether its blocks verify.
ReadRecord(out, manifest, id) ==
  Bytes(out, Region(manifest.table, "rerank").base
               + RecordOffset(RerankBytes(manifest), id), RerankBytes(manifest))
BlockVerifies(out, region, crc, block) ==
  Bytes(out, crc.base + block * CrcBytes, CrcBytes)
    = Crc32(Bytes(out, BlockOffset(region, block), BlockBytes))
RecordVerifies(out, manifest, id) ==
  \A block \in BlocksOf(RerankBytes(manifest), id) :
    BlockVerifies(out, Region(manifest.table, "rerank"),
                  Region(manifest.table, "rerankCrc"), block)

\* workspace.rs: the buffers a device lends the engine, as large as its profile
\* says, in entries.
WorkspaceBinds(profile, buffers) ==
  /\ buffers.adc_table >= profile.m * Pow2(profile.b)
  /\ buffers.heap >= profile.r
  /\ buffers.rotation >= profile.d
  /\ buffers.bounce > 0

---------------------------------------------------------------------------
(* An append of whole units to a built image (ingest.rs append): the       *)
(* records of the batch are packed end to end and cut at every block.      *)

FindHead(out, region) ==
  LET erased == {b \in 0 .. region.blocks - 1 :
                   \A i \in 0 .. BlockBytes - 1 : out[BlockOffset(region, b) + i] = Blank}
  IN  CHOOSE b \in erased : \A c \in erased : b <= c
AppendBlock(out, region, crc, block, data) ==
  WriteAt(WriteAt(out, BlockOffset(region, block), data), crc.base + block * CrcBytes, Crc32(data))
AppendBatch(out, region, crc, head, records, perBlock) ==
  LET packed == FlattenSeq(records)
  IN  FoldLeft(LAMBDA o, i : AppendBlock(o, region, crc, head + i - 1,
                               SubSeq(packed, (i - 1) * BlockBytes + 1, i * BlockBytes)),
               out, [i \in 1 .. Len(records) \div perBlock |-> i])

\* The batch is one unit; the payload head fixes the id, the rerank block follows from it.
AppendAt(image, out, table, head) ==
  LET first  == head * AtLeastOne(EmitPerPayload(image))
      unit   == AppendUnit(EmitPerPayload(image), EmitPerRerank(image))
      codes  == [v \in 1 .. unit |-> [j \in 1 .. image.m |-> CodeByte(first + v - 1, j - 1)]]
      vectors == [v \in 1 .. unit |-> [i \in 1 .. image.d |-> RecordByte(first + v - 1, i - 1)]]
      perRerank == AtLeastOne(EmitPerRerank(image))
      payload == AppendBatch(out, table[3], table[4], head, codes, AtLeastOne(EmitPerPayload(image)))
  IN  [first |-> first, unit |-> unit, codes |-> codes, vectors |-> vectors,
       out |-> AppendBatch(payload, table[5], table[6], first \div perRerank, vectors, perRerank),
       manifest |-> [EmitManifest(image) EXCEPT
                       !.sequence = @ + 1, !.n = first + unit, !.appended_from = first]]

Appended(image, out, table) == AppendAt(image, out, table, FindHead(out, table[3]))

---------------------------------------------------------------------------
(* What the layout owes its readers.                                       *)

\* An image mounts, with the parameters it was built with, and every id reads back
\* its own codes, and its own record from blocks that verify.
ReadsBack(image, out, manifest) ==
  /\ Mounts(out, ProfileOf(manifest))
  /\ ManifestRead(Bytes(out, 0, SectorBytes)) = manifest
  /\ MountedCodebook(out, manifest) = [i \in 1 .. CodebookBytes(image) |-> CodebookByte(i)]
  /\ \A id \in 0 .. image.n - 1 :
       /\ ReadCodes(out, manifest, id) = Codes(image)[id + 1]
       /\ ReadRecord(out, manifest, id) = Records(image)[id + 1]
       /\ RecordVerifies(out, manifest, id)

\* "a record may exceed a block" (rerank_blk.rs:24): an image of such records reads back.  It
\* does not (run documented_claims).
EmittedWhereRead(image) ==
  Emits(image) => ReadsBack(image, Emit(image), EmitManifest(image))

\* "two codes pack per byte" (payload_blk.rs:15): the bytes taken for the codes of an id are
\* of that id, however few bits a code has.  emit stores a byte a code (run documented_claims).
CodesWhereRead(image) ==
  Emits(image) =>
    LET out == Emit(image)
    IN  \A id \in 0 .. image.n - 1 :
          LET codes == ReadCodes(out, EmitManifest(image), id)
          IN  \A i \in DOMAIN codes : \E j \in 0 .. image.m - 1 : codes[i] = CodeByte(id, j)

BlankBlock(out, region, crc, block) ==
  /\ Bytes(out, BlockOffset(region, block), BlockBytes) = [i \in 1 .. BlockBytes |-> Blank]
  /\ Bytes(out, crc.base + block * CrcBytes, CrcBytes) = [i \in 1 .. CrcBytes |-> Blank]

\* Exactly the blocks past the built vectors look erased, data and CRC word both:
\* that is how an append finds where to start.
JournalIsErasure(image, out, table) ==
  LET Journal(region, crc, built) ==
        \A block \in 0 .. region.blocks - 1 :
          BlankBlock(out, region, crc, block) <=> block >= built
  IN  /\ Journal(table[3], table[4], EmitPayloadBlocks(image, image.n))
      /\ Journal(table[5], table[6], EmitRerankBlocks(image, image.n))

\* The slots the operator reserved can be appended to, in both regions, from the
\* block boundary an append starts at.
ReserveUsable(image, table) ==
  LET Room(region, perBlock) == region.blocks * perBlock - AppendHead(image)
  IN  /\ Room(table[3], EmitPerPayload(image)) >= image.reserve
      /\ Room(table[5], EmitPerRerank(image)) >= image.reserve
      /\ image.reserve > 0 => /\ AppendHead(image) % EmitPerPayload(image) = 0
                              /\ AppendHead(image) % EmitPerRerank(image) = 0

\* Every copy of a codebook block lies in an erase sector of its own, and all hold
\* the same bytes.
CopiesApart(image, out, table) ==
  LET At(copy, block) == CopyBlockAt(CodebookBytes(image), table[1].base, table[2].base,
                                     copy, block)
  IN  /\ SectorDisjoint(CodebookBytes(image), image.copies, table[1].base, table[2].base)
      /\ \A copy \in 0 .. image.copies - 1,
            block \in 0 .. DivCeil(CodebookBytes(image), BlockBytes) - 1 :
           Bytes(out, At(copy, block), BlockBytes) = Bytes(out, At(0, block), BlockBytes)

\* Where records fill their blocks and the builder's own ids are not disturbed, an appended
\* vector reads back its codes and its record under its id, from blocks that verify.
AppendedWhereRead(image, a, table) ==
  LET fills == BlockBytes % image.m = 0 /\ BlockBytes % image.d = 0
      room  == a.first + a.unit <= table[5].blocks * AtLeastOne(EmitPerRerank(image))
  IN  image.reserve > 0 /\ fills /\ image.m <= image.d /\ room =>
        /\ \A v \in 1 .. a.unit :
             /\ ReadCodes(a.out, a.manifest, a.first + v - 1) = a.codes[v]
             /\ ReadRecord(a.out, a.manifest, a.first + v - 1) = a.vectors[v]
             /\ RecordVerifies(a.out, a.manifest, a.first + v - 1)
        /\ \A id \in 0 .. image.n - 1 :
             /\ ReadCodes(a.out, a.manifest, id) = Codes(image)[id + 1]
             /\ ReadRecord(a.out, a.manifest, id) = Records(image)[id + 1]

\* The arithmetic of blocks: every id lies in exactly one payload block and is
\* counted there; records share no byte; what a part is said to hold fits it.
BlocksPartitionIds(image) ==
  LET ids == 0 .. image.n - 1
      span(id) == RecordOffset(image.d, id) .. RecordOffset(image.d, id) + image.d - 1
  IN  /\ UNION {IdsInBlock(image.m, image.n, b) : b \in 0 .. PayloadBlocksOf(image.m, image.n) - 1}
           = ids
      /\ \A id \in ids : id \in IdsInBlock(image.m, image.n,
                                          PayloadOffset(image.m, id) \div BlockBytes)
      /\ \A one, other \in ids : one < other => span(one) \intersect span(other) = {}
      /\ RecordCapacity(image.d, RerankBlocksOf(image.d, image.n) * BlockBytes) >= image.n

\* What one more vector is said to cost is what a whole append of them takes, to the
\* hundredth of a byte, where records fill their blocks.
MarginalCost(image) ==
  LET manifest == EmitManifest(image)
      payload  == EmitPerPayload(image)
      rerank   == EmitPerRerank(image)
      unit     == AppendUnit(payload, rerank)
      blocks   == unit \div payload + unit \div AtLeastOne(rerank)
  IN  BlockBytes % image.m = 0 /\ BlockBytes % image.d = 0 =>
        100 * blocks * (BlockBytes + CrcBytes) - unit * StoredCenti(manifest) \in 0 .. 2 * unit - 1

EmittedSound(image, out, table) ==
  /\ ReadsBack(image, out, EmitManifest(image))
  /\ JournalIsErasure(image, out, table)
  /\ ReserveUsable(image, table)
  /\ AppendedWhereRead(image, Appended(image, out, table), table)
  /\ CopiesApart(image, out, table)
  /\ BlocksPartitionIds(image)
  /\ MarginalCost(image)
LayoutSound(image) ==
  Emits(image) => EmittedSound(image, Emit(image), EmitTable(image))

\* An image that mounts on a device indexes nothing outside the device's buffers.
MountFitsWorkspace(profile, buffers, manifest) ==
  WorkspaceBinds(profile, buffers) /\ ProfileAccepts(profile, manifest) =>
    /\ buffers.adc_table >= manifest.m * Pow2(manifest.b)
    /\ buffers.rotation >= manifest.d
    /\ buffers.heap >= manifest.r
=============================================================================
