--------------------------- MODULE VolumeAppend ---------------------------
(***************************************************************************)
(* Appending to a built SECTOR volume (sector-os/src/ingest.rs, `append`), *)
(* over the two-slot manifest of sector-format/src/manifest.rs and the     *)
(* block append of sector-core/src/append.rs, while other processes append *)
(* to or mount the same image, and processes and the machine stop.         *)
(*                                                                         *)
(* A vector is named by the append that stored it and its place in that    *)
(* batch; a block's bytes are named by the append that wrote them and the  *)
(* id its vector 0 would have at this placement, which is all a reader can *)
(* get wrong.  A CRC word holds the name of the bytes it certifies.        *)
(*                                                                         *)
(* A mount reads the pair of slots twice (volume.rs, then core's mount.rs) *)
(* and uses the second reading's manifest; the one reading here is that    *)
(* one, the first only being another that can fail alike.                  *)
(*                                                                         *)
(* Two batches' bytes are taken never to be subsets of one another, bit    *)
(* for bit, so NOR programming over a programmed block is refused; and no  *)
(* block of codes is taken to be all 0xFF.                                 *)
(***************************************************************************)
EXTENDS Integers, FiniteSets

CONSTANTS
  Appenders,      \* processes that call `append`
  Readers,        \* processes that mount the image to search it
  PerPayload,     \* vectors in a payload block
  PerRerank,      \* records in a rerank block
  PayloadBlocks,  \* blocks of the payload region
  RerankBlocks,   \* blocks of the rerank region
  BuiltN,         \* vectors the builder wrote
  BatchSizes,     \* vectors a caller may offer to one append
  MaxOps,         \* bound: calls of `append`
  MaxKills,       \* bound: processes killed in the middle of a call
  MaxPowerLoss    \* bound: power losses

\* Records divide the 512-byte block (`append` slices the batch block by
\* block), so both counts are powers of two and the smaller divides the
\* larger; a code is never longer than the record it approximates.
ASSUME GeometryAssumption ==
  /\ PerRerank \in Nat \ {0}
  /\ PerPayload \in Nat \ {0}
  /\ PerPayload % PerRerank = 0
  /\ PayloadBlocks \in Nat
  /\ RerankBlocks \in Nat
  /\ BuiltN \in Nat \ {0}
  /\ BuiltN <= PayloadBlocks * PerPayload
  /\ BuiltN <= RerankBlocks * PerRerank

ASSUME BoundAssumption ==
  /\ BatchSizes \subseteq Nat
  /\ MaxOps \in Nat
  /\ MaxKills \in Nat
  /\ MaxPowerLoss \in Nat

VARIABLES
  flash,      \* the file as every process sees it: contents of each cell
  unsynced,   \* cells programmed since the last sync_all
  slot,       \* the two manifest slots as every process sees them
  slotDisk,   \* what each slot may hold on the device if power goes now
  lock,       \* the appender holding the exclusive file lock, if any
  pc,         \* where each appender is
  call,       \* what each appender knows: arguments and what it has read
  outcome,    \* how each appender's last call ended
  reader,     \* each reader: whether mounted, and with which manifest
  nextOp,     \* the number the next append gets
  kills,      \* processes killed so far
  losses,     \* power losses so far
  acked       \* history: the appends whose caller was told they are stored

mediaVars  == <<flash, unsynced, slot, slotDisk>>
callVars   == <<pc, call, outcome, lock>>
boundVars  == <<nextOp, kills, losses>>
vars == <<mediaVars, callVars, reader, boundVars, acked>>

---------------------------------------------------------------------------
(***************************************************************************)
(* The media.                                                              *)
(***************************************************************************)
PayloadBlock == 0 .. PayloadBlocks - 1
RerankBlock  == 0 .. RerankBlocks - 1

\* A data block, and the CRC word the CRC region holds for it.
Cell == ({"payload", "payloadCrc"} \X PayloadBlock)
          \cup ({"rerank", "rerankCrc"} \X RerankBlock)

Content(kind, op, base) == [kind |-> kind, op |-> op, base |-> base]
Blank == Content("blank", 0, 0)      \* erased
Torn  == Content("torn", 0, 0)       \* a program cut short by power loss
Data(op, base) == Content("data", op, base)

CellContent == [kind : {"blank", "torn", "data"}, op : Nat, base : Int]

Blocks(n, per) == (n + per - 1) \div per

Manifest(sequence, n, from) ==
  [valid |-> BuiltN <= from /\ from <= n,
   sequence |-> sequence, n |-> n, from |-> from]

\* A slot that does not decode: erased, or torn.
NoManifest == [valid |-> FALSE, sequence |-> 0, n |-> 0, from |-> 0]

ManifestRecord == [valid : BOOLEAN, sequence : Nat, n : Nat, from : Nat]

Slot == {"A", "B"}

\* The higher sequence among verifying slots; slot A on a tie.
Select(a, b) ==
  IF a.valid /\ b.valid
  THEN IF b.sequence > a.sequence THEN b ELSE a
  ELSE IF a.valid THEN a ELSE b

Live == Select(slot["A"], slot["B"])

\* Fault: the live slot, the parity an earlier version returned.
NextSlotLive(sequence) == IF sequence % 2 = 0 THEN "B" ELSE "A"

\* The slot the install after `sequence` writes.
NextSlot(sequence) == IF sequence % 2 = 0 THEN "A" ELSE "B"

Appended(m) == m.n - m.from
Holds(m, id) == m.valid /\ (id \in 0 .. BuiltN - 1 \/ id \in m.from .. m.n - 1)

\* Ids an append advances by: both block counts divide it.
AppendUnit == PerPayload

---------------------------------------------------------------------------
(***************************************************************************)
(* What a read of the media yields.                                        *)
(***************************************************************************)
Ids == 0 .. (PayloadBlocks * PerPayload) - 1

CellOf(region, id) ==
  <<region, id \div (IF region \in {"payload", "payloadCrc"}
                     THEN PerPayload ELSE PerRerank)>>

InRegions(id) ==
  /\ CellOf("payload", id) \in Cell
  /\ CellOf("rerank", id) \in Cell

\* The block holding `id` passes its CRC.
Intact(region, crc, id) ==
  /\ flash[CellOf(region, id)].kind = "data"
  /\ flash[CellOf(crc, id)] = flash[CellOf(region, id)]

IntactPayload(id) == Intact("payload", "payloadCrc", id)
IntactRerank(id)  == Intact("rerank", "rerankCrc", id)

Readable(id) == InRegions(id) /\ IntactPayload(id) /\ IntactRerank(id)

\* The vector whose bytes a read of `id` in `region` returns.
VectorAt(region, id) ==
  LET c == flash[CellOf(region, id)] IN <<c.op, id - c.base>>

\* The blocks `sector verify` sweeps in a region of `per` ids a block: the built
\* run and the appended one, without the erased blocks between them.
WrittenRuns(m, per) ==
  (0 .. Blocks(BuiltN, per) - 1)
    \cup (IF Appended(m) = 0 THEN {}
          ELSE (m.from \div per) .. (Blocks(m.n, per) - 1))

\* What the sweep finds: the blocks whose CRC word is not theirs.
BadBlocks(m, region, crc, per) ==
  {b \in WrittenRuns(m, per) :
     \/ <<region, b>> \notin Cell
     \/ flash[<<region, b>>].kind # "data"
     \/ flash[<<crc, b>>] # flash[<<region, b>>]}

VerifiesClean(m) ==
  /\ BadBlocks(m, "payload", "payloadCrc", PerPayload) = {}
  /\ BadBlocks(m, "rerank", "rerankCrc", PerRerank) = {}

---------------------------------------------------------------------------
(***************************************************************************)
(* Initial state: the image `sector build` emits, with erased blocks past  *)
(* the built ones, mounted by nobody.                                      *)
(***************************************************************************)
BuiltCell(c) ==
  IF c[1] \in {"payload", "payloadCrc"}
  THEN c[2] < Blocks(BuiltN, PerPayload)
  ELSE c[2] < Blocks(BuiltN, PerRerank)

BuiltManifest == Manifest(1, BuiltN, BuiltN)

NoCall == [op |-> 0, count |-> 0, slotA |-> NoManifest,
           before |-> NoManifest, head |-> 0, headRerank |-> 0, part |-> 0]

\* `since` is history: the live sequence when the mount began.
Unmounted == [state |-> "off", since |-> 0,
              slotA |-> NoManifest, manifest |-> NoManifest]

Init ==
  /\ flash = [c \in Cell |-> IF BuiltCell(c) THEN Data(0, 0) ELSE Blank]
  /\ unsynced = {}
  /\ slot = [s \in Slot |-> IF s = "A" THEN BuiltManifest ELSE NoManifest]
  /\ slotDisk = [s \in Slot |-> {slot[s]}]
  /\ lock = {}
  /\ pc = [a \in Appenders |-> "idle"]
  /\ call = [a \in Appenders |-> NoCall]
  /\ outcome = [a \in Appenders |-> "none"]
  /\ reader = [r \in Readers |-> Unmounted]
  /\ nextOp = 1
  /\ kills = 0
  /\ losses = 0
  /\ acked = {[op |-> 0, first |-> 0, count |-> BuiltN]}

---------------------------------------------------------------------------
(***************************************************************************)
(* Steps shared by the actions of `append`.                                *)
(***************************************************************************)
Goto(a, label) == pc' = [pc EXCEPT ![a] = label]

\* Fault: the lock outlives a call that ends in an error or a kill.
ReturnKeepsLock(a, how) ==
  /\ Goto(a, "idle")
  /\ outcome' = [outcome EXCEPT ![a] = how]
  /\ call' = [call EXCEPT ![a] = NoCall]
  /\ lock' = IF how = "ok" THEN lock \ {a} ELSE lock

\* Return from the call.  The writer, if open, is dropped and with it the lock.
Return(a, how) ==
  /\ Goto(a, "idle")
  /\ outcome' = [outcome EXCEPT ![a] = how]
  /\ call' = [call EXCEPT ![a] = NoCall]
  /\ lock' = lock \ {a}

\* An early return that has written nothing.
Refuse(a, why) ==
  /\ Return(a, why)
  /\ UNCHANGED <<mediaVars, reader, boundVars, acked>>

\* Faults: a block counts as erased if any byte of it is; a program past the
\* region's end is not refused.
ErasedInPart(c) == c \in Cell
ErasedUnbounded(c) == c \notin Cell \/ flash[c] = Blank

\* NOR programming: only an erased cell takes new bits.
Erased(c) == c \in Cell /\ flash[c] = Blank

Program(c, content) ==
  /\ flash' = [flash EXCEPT ![c] = content]
  /\ unsynced' = unsynced \cup {c}
  /\ UNCHANGED <<slot, slotDisk>>

---------------------------------------------------------------------------
(***************************************************************************)
(* `append`, in program order.                                             *)
(***************************************************************************)

\* Mount, first half: slot A is read.  No lock is held.
StartAppend(a, count) ==
  /\ pc[a] = "idle"
  /\ nextOp <= MaxOps
  /\ nextOp' = nextOp + 1
  /\ Goto(a, "mounting")
  /\ call' = [call EXCEPT ![a] = [NoCall EXCEPT !.op = nextOp,
                                                !.count = count,
                                                !.slotA = slot["A"]]]
  /\ UNCHANGED <<mediaVars, outcome, lock, reader, kills, losses, acked>>

\* Mount, second half: slot B is read and the live manifest selected.
MountedManifest(a) == Select(call[a].slotA, slot["B"])

WholeUnits(count) == count # 0 /\ count % AppendUnit = 0

FinishMount(a) ==
  /\ pc[a] = "mounting"
  /\ \/ /\ ~MountedManifest(a).valid
        /\ Refuse(a, "volume")
     \/ /\ MountedManifest(a).valid
        /\ ~WholeUnits(call[a].count)
        /\ Refuse(a, "notAligned")
     \/ /\ MountedManifest(a).valid
        /\ WholeUnits(call[a].count)
        /\ Goto(a, "mounted")
        /\ call' = [call EXCEPT ![a].before = MountedManifest(a)]
        /\ UNCHANGED <<mediaVars, outcome, lock, reader, boundVars, acked>>

\* WritableVolume::open: try_lock, refused rather than waited on.
TakeLock(a) ==
  /\ pc[a] = "mounted"
  /\ \/ /\ lock # {}
        /\ Refuse(a, "locked")
     \/ /\ lock = {}
        /\ lock' = {a}
        /\ Goto(a, "locked")
        /\ UNCHANGED <<mediaVars, call, outcome, reader, boundVars, acked>>

\* `capacity`: slots in erased blocks past the live extent, by a fresh mount.
ErasedSlots(region, blocks, per) ==
  per * Cardinality({b \in Blocks(Live.n, per) .. blocks - 1 :
                       Erased(<<region, b>>)})

PayloadSlots == ErasedSlots("payload", PayloadBlocks, PerPayload)
RerankSlots  == ErasedSlots("rerank", RerankBlocks, PerRerank)

\* Fault: only the payload region is consulted.
RoomForCodes(count) == count <= PayloadSlots

RoomFor(count) == count <= PayloadSlots /\ count <= RerankSlots

\* `find_head` on the payload region: its first erased block.
IsHead(b) ==
  /\ b \in PayloadBlock
  /\ Erased(<<"payload", b>>)
  /\ \A c \in 0 .. b - 1 : ~Erased(<<"payload", c>>)

FirstId(head) == head * PerPayload

\* Fault: each region's own head, whatever id the other region's implies.
HeadRerankOwn(head) ==
  CHOOSE b \in 0 .. RerankBlocks :
    /\ Erased(<<"rerank", b>>) \/ b = RerankBlocks
    /\ \A c \in 0 .. b - 1 : ~Erased(<<"rerank", c>>)

HeadRerank(head) == FirstId(head) \div PerRerank

\* Capacity, head and the check of the rerank block the head implies.  Only
\* the lock holder writes, so what is read here stays true until it writes.
Plan(a) ==
  /\ pc[a] = "locked"
  /\ \/ /\ ~Live.valid
        /\ Refuse(a, "volume")
     \/ /\ Live.valid
        /\ \/ ~RoomFor(call[a].count)
           \/ ~\E b \in PayloadBlock : IsHead(b)
           \/ \E b \in PayloadBlock :
                IsHead(b) /\ HeadRerank(b) >= RerankBlocks
        /\ Refuse(a, "full")
     \/ /\ Live.valid
        /\ RoomFor(call[a].count)
        /\ \E b \in PayloadBlock :
             /\ IsHead(b)
             /\ HeadRerank(b) < RerankBlocks
             /\ \/ /\ ~Erased(<<"rerank", HeadRerank(b)>>)
                   /\ Refuse(a, "diverged")
                \/ /\ Erased(<<"rerank", HeadRerank(b)>>)
                   /\ Goto(a, "payload")
                   /\ call' = [call EXCEPT ![a].head = b,
                                           ![a].headRerank = HeadRerank(b)]
                   /\ UNCHANGED <<mediaVars, outcome, lock, reader,
                                  boundVars, acked>>

\* The two halves of `append_block` for the block `part` of the batch in
\* `region`, which ends `blocks` blocks after the region's base: data, then
\* CRC.  A block past the region lies on the next region's programmed bytes.
ProgramBlock(a, region, block, base, next) ==
  \/ /\ ~Erased(<<region, block>>)
     /\ Refuse(a, "refused")
  \/ /\ Erased(<<region, block>>)
     /\ Program(<<region, block>>, Data(call[a].op, base))
     /\ Goto(a, next)
     /\ UNCHANGED <<call, outcome, lock, reader, boundVars, acked>>

ProgramBlockCrc(a, crc, block, base, done, more, next) ==
  \/ /\ ~Erased(<<crc, block>>)
     /\ Refuse(a, "refused")
  \/ /\ Erased(<<crc, block>>)
     /\ Program(<<crc, block>>, Data(call[a].op, base))
     /\ Goto(a, IF done THEN next ELSE more)
     /\ call' = [call EXCEPT ![a].part = IF done THEN 0 ELSE @ + 1]
     /\ UNCHANGED <<outcome, lock, reader, boundVars, acked>>

\* Block `part` of the codes goes to block head + part of the region, so the
\* batch's vector 0 lands at id head * PerPayload; and likewise the records.
ProgramPayload(a) ==
  /\ pc[a] = "payload"
  /\ ProgramBlock(a, "payload", call[a].head + call[a].part,
                  FirstId(call[a].head), "payloadCrc")

ProgramPayloadCrc(a) ==
  /\ pc[a] = "payloadCrc"
  /\ ProgramBlockCrc(a, "payloadCrc", call[a].head + call[a].part,
                     FirstId(call[a].head),
                     call[a].part + 1 = call[a].count \div PerPayload,
                     "payload", "rerank")

ProgramRerank(a) ==
  /\ pc[a] = "rerank"
  /\ ProgramBlock(a, "rerank", call[a].headRerank + call[a].part,
                  call[a].headRerank * PerRerank, "rerankCrc")

ProgramRerankCrc(a) ==
  /\ pc[a] = "rerankCrc"
  /\ ProgramBlockCrc(a, "rerankCrc", call[a].headRerank + call[a].part,
                     call[a].headRerank * PerRerank,
                     call[a].part + 1 = call[a].count \div PerRerank,
                     "rerank", "erase")

\* Faults: the appended run restarts at every append; the gap before the first
\* appended id is not recorded.
UpdatedRestarts(a) ==
  LET m == call[a].before
      first == FirstId(call[a].head)
  IN  Manifest(m.sequence + 1, first + call[a].count, first)

UpdatedNoGap(a) ==
  LET m == call[a].before
  IN  Manifest(m.sequence + 1, FirstId(call[a].head) + call[a].count, m.from)

\* The manifest installed is the one mounted before the lock, updated.
Updated(a) ==
  LET m == call[a].before
      first == FirstId(call[a].head)
  IN  Manifest(m.sequence + 1, first + call[a].count,
               IF Appended(m) = 0 THEN first ELSE m.from)

TargetSlot(a) == NextSlot(call[a].before.sequence)

WriteSlot(s, m, mayRemain) ==
  /\ slot' = [slot EXCEPT ![s] = m]
  /\ slotDisk' = [slotDisk EXCEPT ![s] = @ \cup mayRemain]
  /\ UNCHANGED <<flash, unsynced>>

EraseSlot(a) ==
  /\ pc[a] = "erase"
  /\ WriteSlot(TargetSlot(a), NoManifest, {NoManifest})
  /\ Goto(a, "install")
  /\ UNCHANGED <<call, outcome, lock, reader, boundVars, acked>>

\* The slot was erased by this call under the lock, so it takes the program.
InstallManifest(a) ==
  /\ pc[a] = "install"
  /\ WriteSlot(TargetSlot(a), Updated(a), {NoManifest, Updated(a)})
  /\ Goto(a, "sync")
  /\ UNCHANGED <<call, outcome, lock, reader, boundVars, acked>>

\* Fault: success is reported without the sync.
ReportUnsynced(a) ==
  /\ pc[a] = "sync"
  /\ acked' = acked \cup {[op |-> call[a].op,
                           first |-> FirstId(call[a].head),
                           count |-> call[a].count]}
  /\ Return(a, "ok")
  /\ UNCHANGED <<mediaVars, reader, boundVars>>

\* sync_all makes every write to the file durable, whoever made it; the
\* caller is told the batch is stored and the lock is dropped.
SyncAndReport(a) ==
  /\ pc[a] = "sync"
  /\ unsynced' = {}
  /\ slotDisk' = [s \in Slot |-> {slot[s]}]
  /\ acked' = acked \cup {[op |-> call[a].op,
                           first |-> FirstId(call[a].head),
                           count |-> call[a].count]}
  /\ Return(a, "ok")
  /\ UNCHANGED <<flash, slot, reader, boundVars>>

Step(a) ==
  \/ FinishMount(a)
  \/ TakeLock(a)
  \/ Plan(a)
  \/ ProgramPayload(a)
  \/ ProgramPayloadCrc(a)
  \/ ProgramRerank(a)
  \/ ProgramRerankCrc(a)
  \/ EraseSlot(a)
  \/ InstallManifest(a)
  \/ SyncAndReport(a)

---------------------------------------------------------------------------
(***************************************************************************)
(* Readers: a search process mounts the image and keeps the manifest.      *)
(***************************************************************************)
StartMount(r) ==
  /\ reader[r].state = "off"
  /\ reader' = [reader EXCEPT ![r] = [Unmounted EXCEPT !.state = "mounting",
                                                       !.since = Live.sequence,
                                                       !.slotA = slot["A"]]]
  /\ UNCHANGED <<mediaVars, callVars, boundVars, acked>>

FinishReaderMount(r) ==
  LET m == Select(reader[r].slotA, slot["B"]) IN
  /\ reader[r].state = "mounting"
  /\ reader' = [reader EXCEPT ![r] =
                  IF m.valid
                  THEN [@ EXCEPT !.state = "mounted", !.manifest = m]
                  ELSE [@ EXCEPT !.state = "failed"]]
  /\ UNCHANGED <<mediaVars, callVars, boundVars, acked>>

Unmount(r) ==
  /\ reader[r].state \in {"mounted", "failed"}
  /\ reader' = [reader EXCEPT ![r] = Unmounted]
  /\ UNCHANGED <<mediaVars, callVars, boundVars, acked>>

---------------------------------------------------------------------------
(***************************************************************************)
(* The environment.                                                        *)
(***************************************************************************)

\* The process dies: the kernel drops its lock, its writes stay in the cache.
Kill(a) ==
  /\ pc[a] # "idle"
  /\ kills < MaxKills
  /\ kills' = kills + 1
  /\ Return(a, "killed")
  /\ UNCHANGED <<mediaVars, reader, nextOp, losses, acked>>

\* Power goes: every process dies, and a write not covered by a sync_all is on
\* the device whole, in part or not at all, independently of every other.
PowerLoss ==
  /\ losses < MaxPowerLoss
  /\ losses' = losses + 1
  /\ \E lost \in SUBSET unsynced :
       \E torn \in SUBSET lost :
         flash' = [c \in Cell |-> IF c \in torn THEN Torn
                                  ELSE IF c \in lost THEN Blank
                                  ELSE flash[c]]
  /\ unsynced' = {}
  /\ \E a \in slotDisk["A"], b \in slotDisk["B"] :
       slot' = [s \in Slot |-> IF s = "A" THEN a ELSE b]
  /\ slotDisk' = [s \in Slot |-> {slot'[s]}]
  /\ lock' = {}
  /\ pc' = [a \in Appenders |-> "idle"]
  /\ call' = [a \in Appenders |-> NoCall]
  /\ outcome' = [a \in Appenders |->
                   IF pc[a] = "idle" THEN outcome[a] ELSE "killed"]
  /\ reader' = [r \in Readers |-> Unmounted]
  /\ UNCHANGED <<nextOp, kills, acked>>

---------------------------------------------------------------------------
Next ==
  \/ \E a \in Appenders, count \in BatchSizes : StartAppend(a, count)
  \/ \E a \in Appenders : Step(a)
  \/ \E a \in Appenders : Kill(a)
  \/ \E r \in Readers : StartMount(r)
  \/ \E r \in Readers : FinishReaderMount(r)
  \/ \E r \in Readers : Unmount(r)
  \/ PowerLoss

Spec == Init /\ [][Next]_vars

\* A process that is not killed is scheduled: nothing in `append` waits.
FairSpec == Spec /\ \A a \in Appenders : WF_vars(Step(a))

---------------------------------------------------------------------------
(***************************************************************************)
(* Properties.                                                             *)
(***************************************************************************)
PcLabel == {"idle", "mounting", "mounted", "locked", "payload", "payloadCrc",
            "rerank", "rerankCrc", "erase", "install", "sync"}

Outcome == {"none", "ok", "volume", "notAligned", "locked", "full",
            "diverged", "refused", "killed"}

CallRecord == [op : Nat, count : Nat, slotA : ManifestRecord,
               before : ManifestRecord, head : Nat, headRerank : Nat, part : Nat]

ReaderRecord == [state : {"off", "mounting", "mounted", "failed"},
                 since : Nat, slotA : ManifestRecord, manifest : ManifestRecord]

\* The variables keep their types.
TypeOK ==
  /\ flash \in [Cell -> CellContent]
  /\ unsynced \subseteq Cell
  /\ slot \in [Slot -> ManifestRecord]
  /\ slotDisk \in [Slot -> SUBSET ManifestRecord]
  /\ lock \subseteq Appenders
  /\ pc \in [Appenders -> PcLabel]
  /\ call \in [Appenders -> CallRecord]
  /\ outcome \in [Appenders -> Outcome]
  /\ reader \in [Readers -> ReaderRecord]
  /\ nextOp \in Nat
  /\ kills \in Nat
  /\ losses \in Nat
  /\ acked \subseteq [op : Nat, first : Nat, count : Nat]

\* A code and a rerank record that both pass their CRC under one id are of one
\* vector: stage two never rescores a candidate against another vector's bytes
\* (ingest.rs, "The **id** is what both regions must agree on").
NoCrossedRecords ==
  \A id \in Ids :
    Readable(id) => VectorAt("payload", id) = VectorAt("rerank", id)

\* An append whose caller was told it succeeded stays stored: the live manifest
\* holds its ids, both blocks of each pass their CRC and hold its vectors.
AckedDurable ==
  \A k \in acked :
    \A id \in k.first .. k.first + k.count - 1 :
      /\ Holds(Live, id)
      /\ Readable(id)
      /\ VectorAt("payload", id) = <<k.op, id - k.first>>
      /\ VectorAt("rerank", id) = <<k.op, id - k.first>>

\* A slot always verifies, whatever is interrupted: the volume mounts.
LiveManifestExists == Live.valid

\* Every id the live manifest holds can be read in both regions, so a dropped
\* candidate is evidence of damage (manifest.rs, `appended_from`), and a sweep
\* finds no bad block, under that manifest or the one a reader has mounted: the
\* gap and the blocks an append is writing are not taken for damage (verify.rs,
\* `written_runs`).
HeldIntact ==
  /\ \A id \in Ids : Holds(Live, id) => Readable(id)
  /\ VerifiesClean(Live)
  /\ \A r \in Readers :
       reader[r].state = "mounted" => VerifiesClean(reader[r].manifest)

\* The medium never refuses an append that passed its checks: no append is
\* left half done by the volume running out under it, or by blocks in its way.
NeverRefused ==
  \A a \in Appenders : outcome[a] \notin {"refused", "diverged"}

\* What earlier appends left, finished or killed, never stands in the way of the
\* next: the rerank block that the payload head implies is erased, so that no
\* append is refused for good as diverged (ingest.rs, "a crashed append does not
\* leave a volume permanently unappendable").
HeadsAgree ==
  \A b \in PayloadBlock :
    IsHead(b) /\ HeadRerank(b) \in RerankBlock => Erased(<<"rerank", HeadRerank(b)>>)

\* The room `capacity` reports can be used: when nobody is appending and it has
\* a unit to spare, the next append finds its head in both regions.  A killed
\* append takes payload blocks and leaves the rerank blocks of their ids, which
\* are still counted and no append can use: the second part is for none killed.
Appendable ==
  /\ HeadsAgree
  /\ Live.valid /\ lock = {} /\ kills = 0 /\ RoomFor(AppendUnit) =>
       \E b \in PayloadBlock : IsHead(b) /\ HeadRerank(b) \in RerankBlock

\* An install does not undo an install: the live manifest is only ever
\* replaced by a later one, and never withdrawn while the next is written.
LiveNeverRegresses ==
  [][Live'.valid /\ Live'.sequence >= Live.sequence]_slot

\* A mounted reader is not disturbed: what its manifest holds and it could
\* read reads as the same vector after any step, its own mount apart.
SameVector(id) ==
  /\ Readable(id)'
  /\ VectorAt("payload", id)' = VectorAt("payload", id)
  /\ VectorAt("rerank", id)' = VectorAt("rerank", id)

ReadersUndisturbed ==
  [][\A r \in Readers : \A id \in Ids :
       /\ reader[r].state = "mounted"
       /\ reader'[r] = reader[r]
       /\ Holds(reader[r].manifest, id)
       /\ Readable(id)
       => SameVector(id)]_vars

\* What a search returns is never another vector's bytes: an id the live
\* manifest holds, whose two blocks pass their CRC, is one vector (ingest.rs,
\* "Neither state returns wrong bytes").
NoWrongBytes ==
  \A id \in Ids :
    Holds(Live, id) /\ Readable(id)
      => VectorAt("payload", id) = VectorAt("rerank", id)

\* The two slots are read one after the other and installs may come between.
\* A mount fails only when an install has completed since it began, and never
\* yields a manifest from before the one its start's live manifest replaced.
MountRecent ==
  \A r \in Readers :
    /\ reader[r].state = "failed" => Live.sequence > reader[r].since
    /\ reader[r].state = "mounted" =>
         /\ reader[r].manifest.sequence + 1 >= reader[r].since
         /\ reader[r].manifest.sequence <= Live.sequence

\* A held lock is given back, on success, on every error and on a kill
\* (ingest.rs, "the kernel releases it if the process dies").
LockReleased == lock # {} ~> lock = {}

\* The detailed specification implements the insert-only store.
Visible ==
  {<<id, VectorAt("rerank", id)>> :
     id \in {i \in Ids : Holds(Live, i) /\ Readable(i)}}

Reported ==
  UNION {{<<id, <<k.op, id - k.first>>>> : id \in k.first .. k.first + k.count - 1} :
           k \in acked}

Store == INSTANCE VectorStore WITH visible <- Visible, stored <- Reported
ImplementsStore == Store!StoreSpec

=============================================================================
