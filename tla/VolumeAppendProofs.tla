------------------------- MODULE VolumeAppendProofs -------------------------
(***************************************************************************)
(* Theorems about VolumeAppend, for any processes, geometry and bounds.    *)
(***************************************************************************)
EXTENDS VolumeAppend, TLAPS

USE DEF Content, Blank, Torn, Data, NoManifest, NoCall, Unmounted

---------------------------------------------------------------------------
(***************************************************************************)
(* Type correctness.                                                       *)
(***************************************************************************)

\* A manifest built from natural fields, or selected from two records, is one.
LEMMA ManifestType ==
  ASSUME NEW s \in Nat, NEW n \in Nat, NEW f \in Nat
  PROVE  Manifest(s, n, f) \in ManifestRecord
BY GeometryAssumption DEF Manifest, ManifestRecord

LEMMA SelectType ==
  ASSUME NEW a \in ManifestRecord, NEW b \in ManifestRecord
  PROVE  Select(a, b) \in ManifestRecord
BY DEF Select

LEMMA NoManifestType == NoManifest \in ManifestRecord
BY DEF ManifestRecord

\* Every program leaves a well-typed medium.
LEMMA ProgramType ==
  ASSUME TypeOK, NEW c \in Cell, NEW op \in Nat, NEW base \in Int,
         Program(c, Data(op, base))
  PROVE  /\ flash' \in [Cell -> CellContent]
         /\ unsynced' \subseteq Cell
         /\ slot' \in [Slot -> ManifestRecord]
         /\ slotDisk' \in [Slot -> SUBSET ManifestRecord]
BY DEF TypeOK, Program, CellContent

\* An early return leaves the types of everything it touches.
LEMMA RefuseType ==
  ASSUME TypeOK, NEW a \in Appenders, NEW why \in Outcome, Refuse(a, why)
  PROVE  TypeOK'
BY NoManifestType DEF TypeOK, Refuse, Return, Goto, PcLabel, CallRecord,
   mediaVars, boundVars

LEMMA BlockType ==
  ASSUME TypeOK, NEW a \in Appenders, NEW region, NEW block, NEW base \in Int,
         NEW next \in PcLabel, ProgramBlock(a, region, block, base, next)
  PROVE  TypeOK'
<1>1. CASE Refuse(a, "refused")
  BY <1>1, RefuseType DEF Outcome
<1>2. CASE /\ Erased(<<region, block>>)
           /\ Program(<<region, block>>, Data(call[a].op, base))
           /\ Goto(a, next)
           /\ UNCHANGED <<call, outcome, lock, reader, boundVars, acked>>
  <2>1. call[a].op \in Nat
    BY DEF TypeOK, CallRecord
  <2>2. <<region, block>> \in Cell
    BY <1>2 DEF Erased
  <2>3. QED
    BY <1>2, <2>1, <2>2, ProgramType DEF TypeOK, Goto, boundVars
<1>3. QED
  BY <1>1, <1>2 DEF ProgramBlock

LEMMA BlockCrcType ==
  ASSUME TypeOK, NEW a \in Appenders, NEW crc, NEW block, NEW base \in Int,
         NEW done \in BOOLEAN, NEW more \in PcLabel, NEW next \in PcLabel,
         ProgramBlockCrc(a, crc, block, base, done, more, next)
  PROVE  TypeOK'
<1>1. CASE Refuse(a, "refused")
  BY <1>1, RefuseType DEF Outcome
<1>2. CASE /\ Erased(<<crc, block>>)
           /\ Program(<<crc, block>>, Data(call[a].op, base))
           /\ Goto(a, IF done THEN next ELSE more)
           /\ call' = [call EXCEPT ![a].part = IF done THEN 0 ELSE @ + 1]
           /\ UNCHANGED <<outcome, lock, reader, boundVars, acked>>
  <2>1. call[a].op \in Nat
    BY DEF TypeOK, CallRecord
  <2>2. <<crc, block>> \in Cell
    BY <1>2 DEF Erased
  <2>3. call' \in [Appenders -> CallRecord]
    BY <1>2 DEF TypeOK, CallRecord
  <2>4. pc' \in [Appenders -> PcLabel]
    BY <1>2 DEF TypeOK, Goto
  <2>5. QED
    BY <1>2, <2>1, <2>2, <2>3, <2>4, ProgramType DEF TypeOK, boundVars
<1>3. QED
  BY <1>1, <1>2 DEF ProgramBlockCrc

LEMMA SlotType ==
  ASSUME TypeOK, NEW s \in Slot, NEW m \in ManifestRecord,
         NEW rest \in SUBSET ManifestRecord, WriteSlot(s, m, rest)
  PROVE  /\ flash' \in [Cell -> CellContent]
         /\ unsynced' \subseteq Cell
         /\ slot' \in [Slot -> ManifestRecord]
         /\ slotDisk' \in [Slot -> SUBSET ManifestRecord]
BY DEF TypeOK, WriteSlot

LEMMA CallFacts ==
  ASSUME TypeOK, NEW a \in Appenders
  PROVE  /\ call[a].op \in Nat
         /\ call[a].count \in Nat
         /\ call[a].slotA \in ManifestRecord
         /\ call[a].before \in ManifestRecord
         /\ call[a].head \in Nat
         /\ call[a].headRerank \in Nat
         /\ call[a].part \in Nat
         /\ FirstId(call[a].head) \in Nat
         /\ call[a].headRerank * PerRerank \in Nat
BY GeometryAssumption DEF TypeOK, CallRecord, FirstId

LEMMA HeadRerankType ==
  ASSUME NEW b \in PayloadBlock
  PROVE  b \in Nat /\ HeadRerank(b) \in Nat
BY GeometryAssumption DEF PayloadBlock, HeadRerank, FirstId

LEMMA UpdatedType ==
  ASSUME TypeOK, NEW a \in Appenders
  PROVE  Updated(a) \in ManifestRecord
<1>1. /\ call[a].before.sequence + 1 \in Nat
      /\ call[a].before.from \in Nat
      /\ FirstId(call[a].head) + call[a].count \in Nat
  BY CallFacts DEF ManifestRecord
<1>2. QED
  BY <1>1, CallFacts, ManifestType DEF Updated

LEMMA TypeInit == Init => TypeOK
<1> SUFFICES ASSUME Init PROVE TypeOK
  OBVIOUS
<1>1. BuiltManifest \in ManifestRecord
  BY GeometryAssumption, ManifestType DEF BuiltManifest
<1>2. flash \in [Cell -> CellContent]
  BY DEF Init, CellContent
<1>3. slot \in [Slot -> ManifestRecord]
  BY <1>1, NoManifestType DEF Init
<1>4. slotDisk \in [Slot -> SUBSET ManifestRecord]
  BY <1>3 DEF Init
<1>5. call \in [Appenders -> CallRecord]
  BY NoManifestType DEF Init, CallRecord
<1>6. reader \in [Readers -> ReaderRecord]
  BY NoManifestType DEF Init, ReaderRecord
<1>7. QED
  BY <1>2, <1>3, <1>4, <1>5, <1>6, GeometryAssumption
     DEF Init, TypeOK, PcLabel, Outcome

LEMMA TypeStep == TypeOK /\ [Next]_vars => TypeOK'
<1> SUFFICES ASSUME TypeOK, [Next]_vars PROVE TypeOK'
  OBVIOUS
<1> USE DEF boundVars, mediaVars, callVars
<1>1. ASSUME NEW a \in Appenders, NEW count \in BatchSizes, StartAppend(a, count)
      PROVE  TypeOK'
  <2>1. count \in Nat /\ slot["A"] \in ManifestRecord
    BY BoundAssumption DEF TypeOK, Slot
  <2>2. call' \in [Appenders -> CallRecord]
    BY <1>1, <2>1, NoManifestType DEF TypeOK, StartAppend, CallRecord
  <2>3. QED
    BY <1>1, <2>2 DEF TypeOK, StartAppend, Goto, PcLabel
<1>2. ASSUME NEW a \in Appenders, FinishMount(a) PROVE TypeOK'
  <2>1. MountedManifest(a) \in ManifestRecord
    BY CallFacts, SelectType DEF MountedManifest, TypeOK, Slot
  <2>2. CASE Refuse(a, "volume") \/ Refuse(a, "notAligned")
    BY <2>2, RefuseType DEF Outcome
  <2>3. CASE /\ Goto(a, "mounted")
             /\ call' = [call EXCEPT ![a].before = MountedManifest(a)]
             /\ UNCHANGED <<mediaVars, outcome, lock, reader, boundVars, acked>>
    <3>1. call' \in [Appenders -> CallRecord]
      BY <2>1, <2>3 DEF TypeOK, CallRecord
    <3>2. QED
      BY <2>3, <3>1 DEF TypeOK, Goto, PcLabel
  <2>4. QED
    BY <1>2, <2>2, <2>3 DEF FinishMount
<1>3. ASSUME NEW a \in Appenders, TakeLock(a) PROVE TypeOK'
  <2>1. CASE Refuse(a, "locked")
    BY <2>1, RefuseType DEF Outcome
  <2>2. CASE ~Refuse(a, "locked")
    BY <1>3, <2>2 DEF TypeOK, TakeLock, Goto, PcLabel
  <2>3. QED
    BY <2>1, <2>2
<1>4. ASSUME NEW a \in Appenders, Plan(a) PROVE TypeOK'
  <2>1. CASE Refuse(a, "volume") \/ Refuse(a, "full") \/ Refuse(a, "diverged")
    BY <2>1, RefuseType DEF Outcome
  <2>2. CASE \E b \in PayloadBlock :
               /\ Goto(a, "payload")
               /\ call' = [call EXCEPT ![a].head = b,
                                       ![a].headRerank = HeadRerank(b)]
               /\ UNCHANGED <<mediaVars, outcome, lock, reader, boundVars, acked>>
    <3>1. PICK b \in PayloadBlock :
               /\ Goto(a, "payload")
               /\ call' = [call EXCEPT ![a].head = b,
                                       ![a].headRerank = HeadRerank(b)]
               /\ UNCHANGED <<mediaVars, outcome, lock, reader, boundVars, acked>>
      BY <2>2
    <3>2. call' \in [Appenders -> CallRecord]
      BY <3>1, HeadRerankType DEF TypeOK, CallRecord
    <3>3. QED
      BY <3>1, <3>2 DEF TypeOK, Goto, PcLabel
  <2>3. QED
    BY <1>4, <2>1, <2>2 DEF Plan
<1>5. ASSUME NEW a \in Appenders, ProgramPayload(a) PROVE TypeOK'
  BY <1>5, BlockType, CallFacts DEF ProgramPayload, PcLabel
<1>6. ASSUME NEW a \in Appenders, ProgramPayloadCrc(a) PROVE TypeOK'
  <2>1. (call[a].part + 1 = call[a].count \div PerPayload) \in BOOLEAN
    OBVIOUS
  <2>2. FirstId(call[a].head) \in Int /\ {"payload", "rerank"} \subseteq PcLabel
    BY CallFacts DEF PcLabel
  <2>3. QED
    BY <1>6, <2>1, <2>2, BlockCrcType DEF ProgramPayloadCrc
<1>7. ASSUME NEW a \in Appenders, ProgramRerank(a) PROVE TypeOK'
  BY <1>7, BlockType, CallFacts DEF ProgramRerank, PcLabel
<1>8. ASSUME NEW a \in Appenders, ProgramRerankCrc(a) PROVE TypeOK'
  <2>1. (call[a].part + 1 = call[a].count \div PerRerank) \in BOOLEAN
    OBVIOUS
  <2>2. call[a].headRerank * PerRerank \in Int /\ {"rerank", "erase"} \subseteq PcLabel
    BY CallFacts DEF PcLabel
  <2>3. QED
    BY <1>8, <2>1, <2>2, BlockCrcType DEF ProgramRerankCrc
<1>9. ASSUME NEW a \in Appenders, EraseSlot(a) PROVE TypeOK'
  <2>1. TargetSlot(a) \in Slot
    BY DEF TargetSlot, NextSlot, Slot
  <2>2. /\ flash' \in [Cell -> CellContent]
        /\ unsynced' \subseteq Cell
        /\ slot' \in [Slot -> ManifestRecord]
        /\ slotDisk' \in [Slot -> SUBSET ManifestRecord]
    <3>1. {NoManifest} \in SUBSET ManifestRecord
      BY NoManifestType
    <3>2. WriteSlot(TargetSlot(a), NoManifest, {NoManifest})
      BY <1>9 DEF EraseSlot
    <3>3. QED
      BY <2>1, <3>1, <3>2, SlotType, NoManifestType
  <2>3. QED
    BY <1>9, <2>2 DEF EraseSlot, TypeOK, Goto, PcLabel
<1>10. ASSUME NEW a \in Appenders, InstallManifest(a) PROVE TypeOK'
  <2>1. TargetSlot(a) \in Slot
    BY DEF TargetSlot, NextSlot, Slot
  <2>2. /\ flash' \in [Cell -> CellContent]
        /\ unsynced' \subseteq Cell
        /\ slot' \in [Slot -> ManifestRecord]
        /\ slotDisk' \in [Slot -> SUBSET ManifestRecord]
    <3>1. {NoManifest, Updated(a)} \in SUBSET ManifestRecord
      BY NoManifestType, UpdatedType
    <3>2. WriteSlot(TargetSlot(a), Updated(a), {NoManifest, Updated(a)})
      BY <1>10 DEF InstallManifest
    <3>3. QED
      BY <2>1, <3>1, <3>2, SlotType, UpdatedType
  <2>3. QED
    BY <1>10, <2>2 DEF InstallManifest, TypeOK, Goto, PcLabel
<1>11. ASSUME NEW a \in Appenders, SyncAndReport(a) PROVE TypeOK'
  <2>1. call' \in [Appenders -> CallRecord]
    BY <1>11, NoManifestType DEF TypeOK, SyncAndReport, Return, CallRecord
  <2>2. slotDisk' \in [Slot -> SUBSET ManifestRecord]
    BY <1>11 DEF TypeOK, SyncAndReport
  <2>3. acked' \subseteq [op : Nat, first : Nat, count : Nat]
    BY <1>11, CallFacts DEF TypeOK, SyncAndReport
  <2>4. QED
    BY <1>11, <2>1, <2>2, <2>3
       DEF TypeOK, SyncAndReport, Return, Goto, PcLabel, Outcome
<1>12. ASSUME NEW a \in Appenders, Kill(a) PROVE TypeOK'
  <2>1. call' \in [Appenders -> CallRecord]
    BY <1>12, NoManifestType DEF TypeOK, Kill, Return, CallRecord
  <2>2. QED
    BY <1>12, <2>1 DEF TypeOK, Kill, Return, Goto, PcLabel, Outcome
<1>13. ASSUME NEW r \in Readers,
              StartMount(r) \/ FinishReaderMount(r) \/ Unmount(r)
       PROVE  TypeOK'
  <2>1. /\ slot["A"] \in ManifestRecord
        /\ slot["B"] \in ManifestRecord
        /\ Live.sequence \in Nat
    BY SelectType DEF TypeOK, Slot, Live, ManifestRecord
  <2>2. Select(reader[r].slotA, slot["B"]) \in ManifestRecord
    BY <2>1, SelectType DEF TypeOK, ReaderRecord
  <2>3. reader' \in [Readers -> ReaderRecord]
    <3>1. CASE StartMount(r)
      BY <3>1, <2>1, NoManifestType DEF TypeOK, StartMount, ReaderRecord
    <3>2. CASE FinishReaderMount(r)
      <4>1. reader' = [reader EXCEPT ![r].state = "mounted",
                         ![r].manifest = Select(reader[r].slotA, slot["B"])]
            \/ reader' = [reader EXCEPT ![r].state = "failed"]
        BY <3>2 DEF FinishReaderMount, TypeOK
      <4>2. QED
        BY <4>1, <2>2 DEF TypeOK, ReaderRecord
    <3>3. CASE Unmount(r)
      BY <3>3, NoManifestType DEF TypeOK, Unmount, ReaderRecord
    <3>4. QED
      BY <1>13, <3>1, <3>2, <3>3
  <2>4. QED
    BY <1>13, <2>3 DEF TypeOK, StartMount, FinishReaderMount, Unmount
<1>14. ASSUME PowerLoss PROVE TypeOK'
  <2>1. flash' \in [Cell -> CellContent]
    BY <1>14 DEF TypeOK, PowerLoss, CellContent
  <2>2. slot' \in [Slot -> ManifestRecord]
    <3>1. PICK x \in slotDisk["A"], y \in slotDisk["B"] :
            slot' = [s \in Slot |-> IF s = "A" THEN x ELSE y]
      BY <1>14 DEF PowerLoss
    <3>2. x \in ManifestRecord /\ y \in ManifestRecord
      BY <3>1 DEF TypeOK, Slot
    <3>3. QED
      BY <3>1, <3>2
  <2>3. slotDisk' \in [Slot -> SUBSET ManifestRecord]
    BY <1>14, <2>2 DEF PowerLoss
  <2>4. call' \in [Appenders -> CallRecord] /\ reader' \in [Readers -> ReaderRecord]
    BY <1>14, NoManifestType DEF PowerLoss, CallRecord, ReaderRecord
  <2>5. outcome' \in [Appenders -> Outcome]
    BY <1>14 DEF TypeOK, PowerLoss, Outcome
  <2>6. QED
    BY <1>14, <2>1, <2>2, <2>3, <2>4, <2>5 DEF TypeOK, PowerLoss, PcLabel
<1>15. CASE UNCHANGED vars
  BY <1>15 DEF TypeOK, vars
<1>16. QED
  BY <1>1, <1>2, <1>3, <1>4, <1>5, <1>6, <1>7, <1>8, <1>9, <1>10, <1>11,
     <1>12, <1>13, <1>14, <1>15 DEF Next, Step

\* The variables of an appendable volume keep their types, whatever processes
\* append, mount and die, and whatever a power loss leaves.
THEOREM TypeCorrect == Spec => []TypeOK
BY TypeInit, TypeStep, PTL DEF Spec

---------------------------------------------------------------------------
(***************************************************************************)
(* A code and a record under one id are of one vector.  The invariant is   *)
(* not inductive: that the record agrees with the code it is written next  *)
(* to needs that the code was written first, by the same append, at the    *)
(* ids the record's block covers, and that nobody else writes meanwhile.   *)
(***************************************************************************)
Writing == {"locked", "payload", "payloadCrc", "rerank", "rerankCrc",
            "erase", "install", "sync"}

\* Only the lock holder is past the lock.
LockHeld == \A a \in Appenders : pc[a] \in Writing => lock = {a}

\* The first `k` blocks of the batch's codes are where the head puts them.
CodesWritten(a, k) ==
  \A b \in call[a].head .. call[a].head + k - 1 :
    /\ <<"payload", b>> \in Cell
    /\ flash[<<"payload", b>>] = Data(call[a].op, FirstId(call[a].head))

\* How far an append has come, and what it has left behind on the way.
AppendInv(a) ==
  /\ pc[a] \in {"mounting", "mounted", "locked"} => call[a].part = 0
  /\ pc[a] \in {"mounted"} \cup Writing => WholeUnits(call[a].count)
  /\ pc[a] \in {"payload", "payloadCrc", "rerank", "rerankCrc"} =>
       call[a].headRerank = HeadRerank(call[a].head)
  /\ pc[a] \in {"payload", "payloadCrc"} =>
       call[a].part < call[a].count \div PerPayload
  /\ pc[a] = "payload" => CodesWritten(a, call[a].part)
  /\ pc[a] = "payloadCrc" => CodesWritten(a, call[a].part + 1)
  /\ pc[a] \in {"rerank", "rerankCrc"} =>
       /\ call[a].part < call[a].count \div PerRerank
       /\ CodesWritten(a, call[a].count \div PerPayload)

\* A record block is only there with the code block of the same append.
RecordFollowsCode ==
  \A id \in Ids :
    InRegions(id) /\ flash[CellOf("rerank", id)].kind = "data"
      => flash[CellOf("payload", id)] = flash[CellOf("rerank", id)]

RecordInv ==
  /\ TypeOK
  /\ LockHeld
  /\ \A a \in Appenders : AppendInv(a)
  /\ RecordFollowsCode

---------------------------------------------------------------------------
(* The arithmetic of blocks: products and quotients by the block sizes. *)

LEMMA MulMono ==
  ASSUME NEW x \in Nat, NEW y \in Nat, NEW d \in Nat, x <= y
  PROVE  x * d <= y * d
<1>1. y - x \in Nat /\ y = x + (y - x)
  OBVIOUS
<1>2. (x + (y - x)) * d = x * d + (y - x) * d
  BY <1>1
<1>3. (y - x) * d \in Nat
  BY <1>1
<1>4. x * d \in Nat /\ y * d \in Nat
  OBVIOUS
<1>5. y * d = x * d + (y - x) * d
  BY <1>1, <1>2
<1>6. QED
  BY <1>3, <1>4, <1>5

LEMMA DivBounds ==
  ASSUME NEW a \in Nat, NEW d \in Nat \ {0}
  PROVE  /\ a \div d \in Nat
         /\ (a \div d) * d <= a
         /\ a < ((a \div d) + 1) * d
OBVIOUS

LEMMA DivUnique ==
  ASSUME NEW a \in Nat, NEW d \in Nat \ {0}, NEW q \in Nat,
         q * d <= a, a < (q + 1) * d
  PROVE  a \div d = q
<1> DEFINE p == a \div d
<1>1. p \in Nat /\ p * d <= a /\ a < (p + 1) * d
  BY DivBounds
<1> HIDE DEF p
<1>2. ~(p + 1 <= q)
  <2>1. p + 1 <= q => (p + 1) * d <= q * d
    BY <1>1, MulMono
  <2>2. (p + 1) * d \in Nat /\ q * d \in Nat
    BY <1>1
  <2>3. QED
    BY <1>1, <2>1, <2>2
<1>3. ~(q + 1 <= p)
  <2>1. q + 1 <= p => (q + 1) * d <= p * d
    BY <1>1, MulMono
  <2>2. (q + 1) * d \in Nat /\ p * d \in Nat
    BY <1>1
  <2>3. QED
    BY <1>1, <2>1, <2>2
<1>4. p = q
  BY <1>1, <1>2, <1>3
<1>5. QED
  BY <1>4 DEF p

\* A payload block spans a whole number of rerank blocks.
LEMMA Span ==
  /\ PerPayload \div PerRerank \in Nat
  /\ PerPayload = (PerPayload \div PerRerank) * PerRerank
BY GeometryAssumption

\* The rerank block a head implies starts at the id the head starts at.
LEMMA HeadAligned ==
  ASSUME NEW h \in Nat
  PROVE  HeadRerank(h) * PerRerank = FirstId(h)
<1> DEFINE k == PerPayload \div PerRerank
<1>1. k \in Nat /\ PerPayload = k * PerRerank
  BY Span
<1> HIDE DEF k
<1>2. h * k \in Nat /\ FirstId(h) \in Nat
  BY <1>1, GeometryAssumption DEF FirstId
<1>3. (h * k) * PerRerank = h * (k * PerRerank)
  BY <1>1, GeometryAssumption
<1>4. (h * k) * PerRerank = FirstId(h)
  BY <1>1, <1>3 DEF FirstId
<1>5. ((h * k) + 1) * PerRerank = (h * k) * PerRerank + PerRerank
  BY <1>2, GeometryAssumption
<1>6. FirstId(h) \div PerRerank = h * k
  BY <1>2, <1>4, <1>5, DivUnique, GeometryAssumption
<1>7. QED
  BY <1>4, <1>6 DEF HeadRerank

\* An id lies in the payload block its rerank block's first id lies in.
LEMMA BlockOfRecord ==
  ASSUME NEW id \in Nat
  PROVE  ((id \div PerRerank) * PerRerank) \div PerPayload = id \div PerPayload
<1> DEFINE k == PerPayload \div PerRerank
           q == id \div PerPayload
           r == id \div PerRerank
<1>1. k \in Nat /\ PerPayload = k * PerRerank
  BY Span
<1>2. q \in Nat /\ q * PerPayload <= id /\ id < (q + 1) * PerPayload
  BY DivBounds, GeometryAssumption
<1>3. r \in Nat /\ r * PerRerank <= id /\ id < (r + 1) * PerRerank
  BY DivBounds, GeometryAssumption
<1> HIDE DEF k, q, r
<1>4. (q * k) * PerRerank = q * PerPayload /\ q * k \in Nat
  BY <1>1, <1>2, GeometryAssumption
<1>5. q * k <= r
  <2>1. r + 1 <= q * k => (r + 1) * PerRerank <= (q * k) * PerRerank
    BY <1>3, <1>4, MulMono, GeometryAssumption
  <2>2. (r + 1) * PerRerank \in Nat /\ q * PerPayload \in Nat
    BY <1>2, <1>3, GeometryAssumption
  <2>3. ~(r + 1 <= q * k)
    BY <1>2, <1>3, <1>4, <2>1, <2>2
  <2>4. QED
    BY <1>3, <1>4, <2>3
<1>6. (q * k) * PerRerank <= r * PerRerank
  BY <1>3, <1>4, <1>5, MulMono, GeometryAssumption
<1>7. r * PerRerank \in Nat /\ q * PerPayload <= r * PerRerank
      /\ r * PerRerank < (q + 1) * PerPayload
  BY <1>2, <1>3, <1>4, <1>6, GeometryAssumption
<1>8. (r * PerRerank) \div PerPayload = q
  BY <1>2, <1>7, DivUnique, GeometryAssumption
<1>9. QED
  BY <1>8 DEF q, r

\* The ids of a whole-unit batch fall in the payload blocks it programs.
LEMMA IdInBatch ==
  ASSUME NEW h \in Nat, NEW count \in Nat, count % PerPayload = 0,
         NEW id \in Nat, FirstId(h) <= id, id < FirstId(h) + count
  PROVE  id \div PerPayload \in h .. h + (count \div PerPayload) - 1
<1> DEFINE c == count \div PerPayload
           q == id \div PerPayload
<1>1. c \in Nat /\ count = c * PerPayload
  BY GeometryAssumption
<1>2. q \in Nat /\ q * PerPayload <= id /\ id < (q + 1) * PerPayload
  BY DivBounds, GeometryAssumption
<1> HIDE DEF c, q
<1>3. (h + c) * PerPayload = h * PerPayload + c * PerPayload
      /\ (h + c) * PerPayload \in Nat /\ h * PerPayload \in Nat
  BY <1>1, GeometryAssumption
<1>4. q < h + c
  <2>1. h + c <= q => (h + c) * PerPayload <= q * PerPayload
    BY <1>1, <1>2, MulMono, GeometryAssumption
  <2>2. q * PerPayload \in Nat
    BY <1>2, GeometryAssumption
  <2>3. QED
    BY <1>1, <1>2, <1>3, <2>1, <2>2 DEF FirstId
<1>5. h <= q
  <2>1. q + 1 <= h => (q + 1) * PerPayload <= h * PerPayload
    BY <1>2, MulMono, GeometryAssumption
  <2>2. (q + 1) * PerPayload \in Nat
    BY <1>2, GeometryAssumption
  <2>3. QED
    BY <1>2, <1>3, <2>1, <2>2 DEF FirstId
<1>6. q \in h .. h + c - 1
  BY <1>1, <1>2, <1>4, <1>5
<1>7. QED
  BY <1>6 DEF c, q

\* The ids of the rerank block an append programs are ids of its batch.
LEMMA RecordInBatch ==
  ASSUME NEW h \in Nat, NEW count \in Nat, NEW part \in Nat,
         part < count \div PerRerank, NEW id \in Nat,
         id \div PerRerank = HeadRerank(h) + part
  PROVE  FirstId(h) <= id /\ id < FirstId(h) + count
<1> DEFINE r == HeadRerank(h)
           c == count \div PerRerank
<1>1. c \in Nat /\ c * PerRerank <= count
  BY DivBounds, GeometryAssumption
<1>2. r \in Nat /\ r * PerRerank = FirstId(h) /\ FirstId(h) \in Nat
  BY HeadAligned, GeometryAssumption DEF HeadRerank, FirstId
<1>3. (r + part) * PerRerank <= id /\ id < (r + part + 1) * PerRerank
  BY DivBounds, GeometryAssumption
<1>4. part + 1 <= c
  BY <1>1
<1> HIDE DEF r, c
<1>5. /\ (r + part) * PerRerank = r * PerRerank + part * PerRerank
      /\ (r + part + 1) * PerRerank = r * PerRerank + (part + 1) * PerRerank
      /\ part * PerRerank \in Nat
      /\ (part + 1) * PerRerank \in Nat
      /\ c * PerRerank \in Nat
  BY <1>1, <1>2, GeometryAssumption
<1>6. (part + 1) * PerRerank <= c * PerRerank
  BY <1>1, <1>4, MulMono, GeometryAssumption
<1>7. QED
  BY <1>1, <1>2, <1>3, <1>5, <1>6

\* A batch of whole units fills at least a block of either region.
LEMMA BatchFillsBlock ==
  ASSUME NEW count \in Nat, WholeUnits(count)
  PROVE  0 < count \div PerPayload /\ 0 < count \div PerRerank
<1>1. count # 0 /\ count % PerPayload = 0
  BY DEF WholeUnits, AppendUnit
<1>2. count >= PerPayload
  BY <1>1, GeometryAssumption
<1>3. PerPayload >= PerRerank
  BY GeometryAssumption
<1>4. QED
  BY <1>2, <1>3, GeometryAssumption

\* A block is one of those `n` items fill exactly when its first item is.
LEMMA BlocksFilled ==
  ASSUME NEW n \in Nat, NEW per \in Nat \ {0}, NEW k \in Nat
  PROVE  k < Blocks(n, per) <=> k * per < n
<1> DEFINE B == Blocks(n, per)
<1>1. n + per - 1 \in Nat
  OBVIOUS
<1>2. B \in Nat /\ B * per <= n + per - 1 /\ n + per - 1 < (B + 1) * per
  BY <1>1, DivBounds DEF Blocks
<1> HIDE DEF B
<1>3. k + 1 <= B => (k + 1) * per <= B * per
  BY <1>2, MulMono
<1>4. B + 1 <= k + 1 => (B + 1) * per <= (k + 1) * per
  BY <1>2, MulMono
<1>5. /\ (k + 1) * per = k * per + per
      /\ k * per \in Nat
      /\ B * per \in Nat
      /\ (B + 1) * per \in Nat
  BY <1>2
<1>6. k < B => k * per < n
  BY <1>2, <1>3, <1>5
<1>7. ~(k < B) => ~(k * per < n)
  BY <1>2, <1>4, <1>5
<1>8. QED
  BY <1>6, <1>7 DEF B

---------------------------------------------------------------------------
(* The steps. *)

LEMMA Cells ==
  ASSUME NEW id
  PROVE  /\ CellOf("payload", id) = <<"payload", id \div PerPayload>>
         /\ CellOf("rerank", id) = <<"rerank", id \div PerRerank>>
BY DEF CellOf

LEMMA IdsAreNat == Ids \subseteq Nat
BY DEF Ids

\* Nothing programmed is programmed again.
Keeps == \A c \in Cell : flash[c] # Blank => flash'[c] = flash[c]

LEMMA ProgramKeeps ==
  ASSUME TypeOK, NEW c, Erased(c), NEW content, Program(c, content)
  PROVE  Keeps
BY DEF TypeOK, Erased, Program, Keeps

LEMMA DataStays ==
  ASSUME Keeps, NEW c \in Cell, NEW op, NEW base, flash[c] = Data(op, base)
  PROVE  flash'[c] = Data(op, base)
BY DEF Keeps

LEMMA CodesKept ==
  ASSUME Keeps, NEW a \in Appenders, NEW k, CodesWritten(a, k)
  PROVE  \A b \in call[a].head .. call[a].head + k - 1 :
           /\ <<"payload", b>> \in Cell
           /\ flash'[<<"payload", b>>] = Data(call[a].op, FirstId(call[a].head))
<1> HIDE DEF Data
<1>1. QED
  BY DataStays DEF CodesWritten

\* An appender that does not move stays right whatever is programmed.
LEMMA StaysPut ==
  ASSUME TypeOK, NEW b \in Appenders, AppendInv(b), Keeps,
         pc'[b] = pc[b], call'[b] = call[b]
  PROVE  AppendInv(b)'
<1> HIDE DEF Data
<1>2. CodesWritten(b, call[b].part) => CodesWritten(b, call[b].part)'
  BY CodesKept DEF CodesWritten
<1>3. CodesWritten(b, call[b].part + 1) => CodesWritten(b, call[b].part + 1)'
  BY CodesKept DEF CodesWritten
<1>4. CodesWritten(b, call[b].count \div PerPayload)
        => CodesWritten(b, call[b].count \div PerPayload)'
  BY CodesKept DEF CodesWritten
<1>5. QED
  BY <1>2, <1>3, <1>4 DEF AppendInv

LEMMA IdleInv ==
  ASSUME NEW a \in Appenders, pc'[a] = "idle"
  PROVE  AppendInv(a)'
BY DEF AppendInv, Writing

LEMMA CodesStay ==
  ASSUME RecordFollowsCode, flash' = flash
  PROVE  RecordFollowsCode'
BY DEF RecordFollowsCode

\* A program of any other cell than a record block's moves no record.
LEMMA RecordsStay ==
  ASSUME TypeOK, RecordFollowsCode, NEW region \in {"payload", "payloadCrc", "rerankCrc"},
         NEW block, Erased(<<region, block>>), NEW content,
         Program(<<region, block>>, content)
  PROVE  RecordFollowsCode'
<1> SUFFICES ASSUME NEW id \in Ids, InRegions(id),
                    flash'[CellOf("rerank", id)].kind = "data"
             PROVE  flash'[CellOf("payload", id)] = flash'[CellOf("rerank", id)]
  BY DEF RecordFollowsCode, InRegions
<1>1. flash'[CellOf("rerank", id)] = flash[CellOf("rerank", id)]
  BY Cells DEF TypeOK, Program, InRegions
<1>2. flash[CellOf("payload", id)] = flash[CellOf("rerank", id)]
  BY <1>1 DEF RecordFollowsCode
<1>3. flash'[CellOf("payload", id)] = flash[CellOf("payload", id)]
  BY <1>1, <1>2, ProgramKeeps DEF Keeps, InRegions
<1>4. QED
  BY <1>1, <1>2, <1>3

\* The end of a call, however it ends.
LEMMA ReturnInv ==
  ASSUME RecordInv, TypeOK', NEW a \in Appenders, NEW how, Return(a, how),
         flash' = flash
  PROVE  RecordInv'
<1>1. LockHeld'
  BY DEF RecordInv, LockHeld, TypeOK, Return, Goto, Writing
<1>2. ASSUME NEW b \in Appenders PROVE AppendInv(b)'
  <2>1. CASE b = a
    BY <2>1, IdleInv DEF RecordInv, TypeOK, Return, Goto
  <2>2. CASE b # a
    <3>1. pc'[b] = pc[b] /\ call'[b] = call[b]
      BY <2>2 DEF RecordInv, TypeOK, Return, Goto
    <3>2. QED
      BY <3>1, StaysPut DEF RecordInv, Keeps
  <2>3. QED
    BY <2>1, <2>2
<1>3. QED
  BY <1>1, <1>2, CodesStay DEF RecordInv

LEMMA RefuseInv ==
  ASSUME RecordInv, NEW a \in Appenders, NEW why \in Outcome, Refuse(a, why)
  PROVE  RecordInv'
BY RefuseType, ReturnInv DEF RecordInv, Refuse, mediaVars

\* A step of one appender that goes on.
LEMMA MoveInv ==
  ASSUME RecordInv, TypeOK', NEW a \in Appenders, NEW label, Goto(a, label),
         \A b \in Appenders \ {a} : call'[b] = call[b],
         Keeps, lock' = lock \/ (lock = {} /\ lock' = {a}),
         label \in Writing => lock' = {a},
         RecordFollowsCode', AppendInv(a)'
  PROVE  RecordInv'
<1>1. LockHeld'
  BY DEF RecordInv, LockHeld, TypeOK, Goto
<1>2. ASSUME NEW b \in Appenders PROVE AppendInv(b)'
  <2>1. CASE b # a
    <3>1. pc'[b] = pc[b] /\ call'[b] = call[b]
      BY <2>1 DEF RecordInv, TypeOK, Goto
    <3>2. QED
      BY <3>1, StaysPut DEF RecordInv
  <2>2. QED
    BY <2>1
<1>3. QED
  BY <1>1, <1>2 DEF RecordInv

\* The codes: block `part` joins the blocks written, and the next one follows.
LEMMA PayloadInv ==
  ASSUME RecordInv, TypeOK', NEW a \in Appenders, ProgramPayload(a)
  PROVE  RecordInv'
<1> DEFINE block == call[a].head + call[a].part
<1>1. CASE Refuse(a, "refused")
  BY <1>1, RefuseInv DEF Outcome
<1>2. CASE /\ Erased(<<"payload", block>>)
           /\ Program(<<"payload", block>>, Data(call[a].op, FirstId(call[a].head)))
           /\ Goto(a, "payloadCrc")
           /\ UNCHANGED <<call, outcome, lock, reader, boundVars, acked>>
  <2>1. Keeps
    BY <1>2, ProgramKeeps DEF RecordInv
  <2>2. RecordFollowsCode'
    BY <1>2, RecordsStay DEF RecordInv
  <2>3. pc[a] = "payload" /\ pc'[a] = "payloadCrc" /\ lock = {a} /\ call' = call
    BY <1>2 DEF RecordInv, LockHeld, Writing, ProgramPayload, Goto, TypeOK
  <2>4. call[a].head \in Nat /\ call[a].part \in Nat
    BY CallFacts DEF RecordInv
  <2>5. CodesWritten(a, call[a].part + 1)'
    <3> HIDE DEF Data
    <3>1. CodesWritten(a, call[a].part)
      BY <2>3 DEF RecordInv, AppendInv
    <3>2. \A b \in call[a].head .. call[a].head + call[a].part - 1 :
            /\ <<"payload", b>> \in Cell
            /\ flash'[<<"payload", b>>] = Data(call[a].op, FirstId(call[a].head))
      BY <2>1, <3>1, CodesKept
    <3>3. /\ <<"payload", block>> \in Cell
          /\ flash'[<<"payload", block>>] = Data(call[a].op, FirstId(call[a].head))
      BY <1>2 DEF Erased, Program, RecordInv, TypeOK
    <3>4. \A b \in call[a].head .. call[a].head + (call[a].part + 1) - 1 :
            b = block \/ b \in call[a].head .. call[a].head + call[a].part - 1
      BY <2>4
    <3>5. \A b \in call[a].head .. call[a].head + (call[a].part + 1) - 1 :
            /\ <<"payload", b>> \in Cell
            /\ flash'[<<"payload", b>>] = Data(call[a].op, FirstId(call[a].head))
      BY <3>2, <3>3, <3>4
    <3>6. QED
      BY <2>3, <3>5 DEF CodesWritten
  <2>6. AppendInv(a)'
    BY <2>3, <2>5 DEF RecordInv, AppendInv, Writing
  <2>7. QED
    BY <1>2, <2>1, <2>2, <2>3, <2>6, MoveInv
<1>3. QED
  BY <1>1, <1>2 DEF ProgramPayload, ProgramBlock

LEMMA PayloadCrcInv ==
  ASSUME RecordInv, TypeOK', NEW a \in Appenders, ProgramPayloadCrc(a)
  PROVE  RecordInv'
<1> DEFINE block == call[a].head + call[a].part
           last  == call[a].count \div PerPayload
           done  == call[a].part + 1 = last
<1>1. CASE Refuse(a, "refused")
  BY <1>1, RefuseInv DEF Outcome
<1>2. CASE /\ Erased(<<"payloadCrc", block>>)
           /\ Program(<<"payloadCrc", block>>,
                      Data(call[a].op, FirstId(call[a].head)))
           /\ Goto(a, IF done THEN "rerank" ELSE "payload")
           /\ call' = [call EXCEPT ![a].part = IF done THEN 0 ELSE @ + 1]
           /\ UNCHANGED <<outcome, lock, reader, boundVars, acked>>
  <2>1. Keeps
    BY <1>2, ProgramKeeps DEF RecordInv
  <2>2. RecordFollowsCode'
    BY <1>2, RecordsStay DEF RecordInv
  <2>3. pc[a] = "payloadCrc" /\ lock = {a}
    BY DEF RecordInv, LockHeld, Writing, ProgramPayloadCrc
  <2>4. /\ call[a].part \in Nat
        /\ call[a].count \in Nat
        /\ last \in Nat
    BY CallFacts, GeometryAssumption DEF RecordInv
  <2>5. /\ \A b \in Appenders \ {a} : call'[b] = call[b]
        /\ call'[a] = [call[a] EXCEPT !.part = IF done THEN 0 ELSE @ + 1]
    BY <1>2 DEF RecordInv, TypeOK
  <2>6. /\ call'[a].part = IF done THEN 0 ELSE call[a].part + 1
        /\ call'[a].count = call[a].count
        /\ call'[a].head = call[a].head
        /\ call'[a].headRerank = call[a].headRerank
        /\ call'[a].op = call[a].op
    BY <2>5 DEF RecordInv, TypeOK, CallRecord
  <2>7. /\ WholeUnits(call[a].count)
        /\ call[a].headRerank = HeadRerank(call[a].head)
        /\ call[a].part < last
        /\ CodesWritten(a, call[a].part + 1)
    BY <2>3 DEF RecordInv, AppendInv, Writing
  <2>8. \A b \in call[a].head .. call[a].head + (call[a].part + 1) - 1 :
          /\ <<"payload", b>> \in Cell
          /\ flash'[<<"payload", b>>] = Data(call[a].op, FirstId(call[a].head))
    BY <2>1, <2>7, CodesKept
  <2>9. AppendInv(a)'
    <3>1. CASE done
      <4>1. pc'[a] = "rerank" /\ call'[a].part = 0
        BY <1>2, <2>6, <3>1 DEF Goto, RecordInv, TypeOK
      <4>2. CodesWritten(a, call[a].count \div PerPayload)'
        BY <2>6, <2>8, <3>1 DEF CodesWritten
      <4>3. 0 < call[a].count \div PerRerank
        BY <2>4, <2>7, BatchFillsBlock
      <4>4. QED
        BY <2>6, <2>7, <4>1, <4>2, <4>3 DEF AppendInv
    <3>2. CASE ~done
      <4>1. pc'[a] = "payload" /\ call'[a].part = call[a].part + 1
        BY <1>2, <2>6, <3>2 DEF Goto, RecordInv, TypeOK
      <4>2. CodesWritten(a, call[a].part)'
        BY <2>6, <2>8, <4>1 DEF CodesWritten
      <4>3. call[a].part + 1 < last
        BY <2>4, <2>7, <3>2
      <4>4. QED
        BY <2>6, <2>7, <4>1, <4>2, <4>3 DEF AppendInv
    <3>3. QED
      BY <3>1, <3>2
  <2>10. QED
    BY <1>2, <2>1, <2>2, <2>3, <2>5, <2>9, MoveInv
<1>3. QED
  BY <1>1, <1>2 DEF ProgramPayloadCrc, ProgramBlockCrc

\* The records: their block's ids are ids of the batch, and the codes of the
\* whole batch are already there.
LEMMA RerankInv ==
  ASSUME RecordInv, TypeOK', NEW a \in Appenders, ProgramRerank(a)
  PROVE  RecordInv'
<1> DEFINE block == call[a].headRerank + call[a].part
           base  == call[a].headRerank * PerRerank
<1>1. CASE Refuse(a, "refused")
  BY <1>1, RefuseInv DEF Outcome
<1>2. CASE /\ Erased(<<"rerank", block>>)
           /\ Program(<<"rerank", block>>, Data(call[a].op, base))
           /\ Goto(a, "rerankCrc")
           /\ UNCHANGED <<call, outcome, lock, reader, boundVars, acked>>
  <2>1. Keeps
    BY <1>2, ProgramKeeps DEF RecordInv
  <2>2. pc[a] = "rerank" /\ pc'[a] = "rerankCrc" /\ lock = {a} /\ call' = call
    BY <1>2 DEF RecordInv, LockHeld, Writing, ProgramRerank, Goto, TypeOK
  <2>3. /\ WholeUnits(call[a].count)
        /\ call[a].headRerank = HeadRerank(call[a].head)
        /\ call[a].part < call[a].count \div PerRerank
        /\ CodesWritten(a, call[a].count \div PerPayload)
    BY <2>2 DEF RecordInv, AppendInv, Writing
  <2>4. /\ call[a].head \in Nat
        /\ call[a].part \in Nat
        /\ call[a].count \in Nat
    BY CallFacts DEF RecordInv
  <2>5. base = FirstId(call[a].head)
    BY <2>3, <2>4, HeadAligned
  <2>6. AppendInv(a)'
    <3>1. \A b \in call[a].head .. call[a].head + (call[a].count \div PerPayload) - 1 :
            /\ <<"payload", b>> \in Cell
            /\ flash'[<<"payload", b>>] = Data(call[a].op, FirstId(call[a].head))
      BY <2>1, <2>3, CodesKept
    <3>2. CodesWritten(a, call[a].count \div PerPayload)'
      BY <2>2, <3>1 DEF CodesWritten
    <3>3. QED
      BY <2>2, <2>3, <3>2 DEF AppendInv
  <2>7. RecordFollowsCode'
    <3> SUFFICES ASSUME NEW id \in Ids, InRegions(id),
                        flash'[CellOf("rerank", id)].kind = "data"
                 PROVE  flash'[CellOf("payload", id)] = flash'[CellOf("rerank", id)]
      BY DEF RecordFollowsCode, InRegions
    <3>1. id \in Nat
      BY IdsAreNat
    <3>2. CASE id \div PerRerank = block
      <4>1. FirstId(call[a].head) <= id /\ id < FirstId(call[a].head) + call[a].count
        BY <2>3, <2>4, <3>1, <3>2, RecordInBatch
      <4>2. call[a].count % PerPayload = 0
        BY <2>3 DEF WholeUnits, AppendUnit
      <4>3. id \div PerPayload \in
              call[a].head .. call[a].head + (call[a].count \div PerPayload) - 1
        BY <2>4, <3>1, <4>1, <4>2, IdInBatch
      <4>4. flash[CellOf("payload", id)] = Data(call[a].op, FirstId(call[a].head))
        BY <2>3, <4>3, Cells DEF CodesWritten
      <4>5. flash'[CellOf("payload", id)] = flash[CellOf("payload", id)]
        BY <2>1, <4>4 DEF Keeps, InRegions
      <4>6. flash'[CellOf("rerank", id)] = Data(call[a].op, base)
        BY <1>2, <3>2, Cells DEF Program, InRegions, RecordInv, TypeOK
      <4>7. QED
        BY <2>5, <4>4, <4>5, <4>6
    <3>3. CASE id \div PerRerank # block
      <4>1. flash'[CellOf("rerank", id)] = flash[CellOf("rerank", id)]
        BY <1>2, <3>3, Cells DEF Program, InRegions, RecordInv, TypeOK
      <4>2. flash[CellOf("payload", id)] = flash[CellOf("rerank", id)]
        BY <4>1 DEF RecordInv, RecordFollowsCode
      <4>3. flash'[CellOf("payload", id)] = flash[CellOf("payload", id)]
        BY <2>1, <4>1, <4>2 DEF Keeps, InRegions
      <4>4. QED
        BY <4>1, <4>2, <4>3
    <3>4. QED
      BY <3>2, <3>3
  <2>8. QED
    BY <1>2, <2>1, <2>2, <2>6, <2>7, MoveInv
<1>3. QED
  BY <1>1, <1>2 DEF ProgramRerank, ProgramBlock

LEMMA RerankCrcInv ==
  ASSUME RecordInv, TypeOK', NEW a \in Appenders, ProgramRerankCrc(a)
  PROVE  RecordInv'
<1> DEFINE block == call[a].headRerank + call[a].part
           base  == call[a].headRerank * PerRerank
           last  == call[a].count \div PerRerank
           done  == call[a].part + 1 = last
<1>1. CASE Refuse(a, "refused")
  BY <1>1, RefuseInv DEF Outcome
<1>2. CASE /\ Erased(<<"rerankCrc", block>>)
           /\ Program(<<"rerankCrc", block>>, Data(call[a].op, base))
           /\ Goto(a, IF done THEN "erase" ELSE "rerank")
           /\ call' = [call EXCEPT ![a].part = IF done THEN 0 ELSE @ + 1]
           /\ UNCHANGED <<outcome, lock, reader, boundVars, acked>>
  <2>1. Keeps
    BY <1>2, ProgramKeeps DEF RecordInv
  <2>2. RecordFollowsCode'
    BY <1>2, RecordsStay DEF RecordInv
  <2>3. pc[a] = "rerankCrc" /\ lock = {a}
    BY DEF RecordInv, LockHeld, Writing, ProgramRerankCrc
  <2>4. call[a].part \in Nat /\ last \in Nat
    BY CallFacts, GeometryAssumption DEF RecordInv
  <2>5. /\ \A b \in Appenders \ {a} : call'[b] = call[b]
        /\ call'[a] = [call[a] EXCEPT !.part = IF done THEN 0 ELSE @ + 1]
    BY <1>2 DEF RecordInv, TypeOK
  <2>6. /\ call'[a].part = IF done THEN 0 ELSE call[a].part + 1
        /\ call'[a].count = call[a].count
        /\ call'[a].head = call[a].head
        /\ call'[a].headRerank = call[a].headRerank
        /\ call'[a].op = call[a].op
    BY <2>5 DEF RecordInv, TypeOK, CallRecord
  <2>7. /\ WholeUnits(call[a].count)
        /\ call[a].headRerank = HeadRerank(call[a].head)
        /\ call[a].part < last
        /\ CodesWritten(a, call[a].count \div PerPayload)
    BY <2>3 DEF RecordInv, AppendInv, Writing
  <2>8. CodesWritten(a, call[a].count \div PerPayload)'
    <3>1. \A b \in call[a].head .. call[a].head + (call[a].count \div PerPayload) - 1 :
            /\ <<"payload", b>> \in Cell
            /\ flash'[<<"payload", b>>] = Data(call[a].op, FirstId(call[a].head))
      BY <2>1, <2>7, CodesKept
    <3>2. QED
      BY <2>6, <3>1 DEF CodesWritten
  <2>9. AppendInv(a)'
    <3>1. CASE done
      <4>1. pc'[a] = "erase"
        BY <1>2, <3>1 DEF Goto, RecordInv, TypeOK
      <4>2. QED
        BY <2>6, <2>7, <4>1 DEF AppendInv
    <3>2. CASE ~done
      <4>1. pc'[a] = "rerank" /\ call'[a].part = call[a].part + 1
        BY <1>2, <2>6, <3>2 DEF Goto, RecordInv, TypeOK
      <4>2. call[a].part + 1 < last
        BY <2>4, <2>7, <3>2
      <4>3. QED
        BY <2>6, <2>7, <2>8, <4>1, <4>2 DEF AppendInv
    <3>3. QED
      BY <3>1, <3>2
  <2>10. QED
    BY <1>2, <2>1, <2>2, <2>3, <2>5, <2>9, MoveInv
<1>3. QED
  BY <1>1, <1>2 DEF ProgramRerankCrc, ProgramBlockCrc

\* The steps that program nothing.
LEMMA FinishMountInv ==
  ASSUME RecordInv, TypeOK', NEW a \in Appenders, FinishMount(a)
  PROVE  RecordInv'
<1>1. CASE Refuse(a, "volume") \/ Refuse(a, "notAligned")
  BY <1>1, RefuseInv DEF Outcome
<1>2. CASE /\ WholeUnits(call[a].count)
           /\ Goto(a, "mounted")
           /\ call' = [call EXCEPT ![a].before = MountedManifest(a)]
           /\ UNCHANGED <<mediaVars, outcome, lock, reader, boundVars, acked>>
  <2>1. /\ \A b \in Appenders \ {a} : call'[b] = call[b]
        /\ call'[a].count = call[a].count
        /\ call'[a].part = call[a].part
        /\ flash' = flash
        /\ pc'[a] = "mounted"
    BY <1>2 DEF RecordInv, TypeOK, CallRecord, Goto, mediaVars
  <2>2. AppendInv(a)'
    BY <1>2, <2>1 DEF AppendInv, RecordInv, FinishMount
  <2>3. Keeps /\ RecordFollowsCode'
    BY <2>1, CodesStay DEF Keeps, RecordInv
  <2>4. QED
    BY <1>2, <2>1, <2>2, <2>3, MoveInv DEF Writing
<1>3. QED
  BY <1>1, <1>2 DEF FinishMount

LEMMA TakeLockInv ==
  ASSUME RecordInv, TypeOK', NEW a \in Appenders, TakeLock(a)
  PROVE  RecordInv'
<1>1. CASE Refuse(a, "locked")
  BY <1>1, RefuseInv DEF Outcome
<1>2. CASE /\ lock = {}
           /\ lock' = {a}
           /\ Goto(a, "locked")
           /\ UNCHANGED <<mediaVars, call, outcome, reader, boundVars, acked>>
  <2>1. flash' = flash /\ call' = call /\ pc'[a] = "locked"
    BY <1>2 DEF RecordInv, TypeOK, Goto, mediaVars
  <2>2. AppendInv(a)'
    BY <2>1 DEF AppendInv, RecordInv, TakeLock
  <2>3. Keeps /\ RecordFollowsCode'
    BY <2>1, CodesStay DEF Keeps, RecordInv
  <2>4. QED
    BY <1>2, <2>1, <2>2, <2>3, MoveInv
<1>3. QED
  BY <1>1, <1>2 DEF TakeLock

LEMMA PlanInv ==
  ASSUME RecordInv, TypeOK', NEW a \in Appenders, Plan(a)
  PROVE  RecordInv'
<1>1. CASE Refuse(a, "volume") \/ Refuse(a, "full") \/ Refuse(a, "diverged")
  BY <1>1, RefuseInv DEF Outcome
<1>2. CASE \E b \in PayloadBlock :
             /\ Goto(a, "payload")
             /\ call' = [call EXCEPT ![a].head = b,
                                     ![a].headRerank = HeadRerank(b)]
             /\ UNCHANGED <<mediaVars, outcome, lock, reader, boundVars, acked>>
  <2>1. PICK b \in PayloadBlock :
             /\ Goto(a, "payload")
             /\ call' = [call EXCEPT ![a].head = b,
                                     ![a].headRerank = HeadRerank(b)]
             /\ UNCHANGED <<mediaVars, outcome, lock, reader, boundVars, acked>>
    BY <1>2
  <2>2. pc[a] = "locked" /\ lock = {a}
    BY DEF Plan, RecordInv, LockHeld, Writing
  <2>3. /\ \A c \in Appenders \ {a} : call'[c] = call[c]
        /\ call'[a].count = call[a].count
        /\ call'[a].head = b
        /\ call'[a].headRerank = HeadRerank(b)
        /\ call'[a].part = call[a].part
        /\ flash' = flash
        /\ pc'[a] = "payload"
    BY <2>1 DEF RecordInv, TypeOK, CallRecord, Goto, mediaVars
  <2>4. WholeUnits(call[a].count) /\ call[a].part = 0 /\ call[a].count \in Nat
    BY <2>2, CallFacts DEF RecordInv, AppendInv, Writing
  <2>5. 0 < call[a].count \div PerPayload
    BY <2>4, BatchFillsBlock
  <2>6. CodesWritten(a, call[a].part)'
    <3>1. call'[a].part = 0 /\ call'[a].head \in Nat
      BY <2>3, <2>4 DEF PayloadBlock
    <3>2. call'[a].head .. call'[a].head + call'[a].part - 1 = {}
      BY <3>1
    <3>3. QED
      BY <3>2 DEF CodesWritten
  <2>7. AppendInv(a)'
    BY <2>3, <2>4, <2>5, <2>6 DEF AppendInv
  <2>8. Keeps /\ RecordFollowsCode'
    BY <2>3, CodesStay DEF Keeps, RecordInv
  <2>9. QED
    BY <2>1, <2>2, <2>3, <2>7, <2>8, MoveInv
<1>3. QED
  BY <1>1, <1>2 DEF Plan

LEMMA ManifestInv ==
  ASSUME RecordInv, TypeOK', NEW a \in Appenders, EraseSlot(a) \/ InstallManifest(a)
  PROVE  RecordInv'
<1>1. PICK label \in {"install", "sync"} : Goto(a, label)
  BY DEF EraseSlot, InstallManifest
<1>2. /\ flash' = flash
      /\ call' = call
      /\ lock' = lock
      /\ pc[a] \in {"erase", "install"}
  BY DEF EraseSlot, InstallManifest, WriteSlot
<1>3. pc'[a] = label /\ lock = {a} /\ WholeUnits(call[a].count)
  BY <1>1, <1>2 DEF RecordInv, TypeOK, LockHeld, AppendInv, Writing, Goto
<1>4. AppendInv(a)'
  BY <1>1, <1>2, <1>3 DEF AppendInv
<1>5. Keeps /\ RecordFollowsCode'
  BY <1>2, CodesStay DEF Keeps, RecordInv
<1>6. QED
  BY <1>1, <1>2, <1>3, <1>4, <1>5, MoveInv

LEMMA StartInv ==
  ASSUME RecordInv, TypeOK', NEW a \in Appenders, NEW count, StartAppend(a, count)
  PROVE  RecordInv'
<1>1. /\ flash' = flash
      /\ lock' = lock
      /\ Goto(a, "mounting")
      /\ pc'[a] = "mounting"
      /\ \A b \in Appenders \ {a} : call'[b] = call[b]
      /\ call'[a].part = 0
  BY DEF StartAppend, RecordInv, TypeOK, Goto, mediaVars
<1>2. AppendInv(a)'
  BY <1>1 DEF AppendInv, Writing
<1>3. Keeps /\ RecordFollowsCode'
  BY <1>1, CodesStay DEF Keeps, RecordInv
<1>4. QED
  BY <1>1, <1>2, <1>3, MoveInv DEF Writing

\* A built rerank block is full of vectors whose codes were built too.
LEMMA RecordInit == Init => RecordInv
<1> SUFFICES ASSUME Init PROVE RecordInv
  OBVIOUS
<1>1. TypeOK
  BY TypeInit
<1>2. LockHeld /\ \A a \in Appenders : AppendInv(a)
  BY DEF Init, LockHeld, AppendInv, Writing
<1>3. RecordFollowsCode
  <2> SUFFICES ASSUME NEW id \in Ids, InRegions(id),
                      flash[CellOf("rerank", id)].kind = "data"
               PROVE  flash[CellOf("payload", id)] = flash[CellOf("rerank", id)]
    BY DEF RecordFollowsCode
  <2> DEFINE r == id \div PerRerank
             q == id \div PerPayload
  <2>1. id \in Nat
    BY IdsAreNat
  <2>2. r \in Nat /\ q \in Nat /\ q * PerPayload <= r * PerRerank
    <3>1. r \in Nat /\ q \in Nat /\ r * PerRerank \in Nat
      BY <2>1, GeometryAssumption
    <3>2. (r * PerRerank) \div PerPayload = q
      BY <2>1, BlockOfRecord
    <3>3. ((r * PerRerank) \div PerPayload) * PerPayload <= r * PerRerank
      BY <3>1, DivBounds, GeometryAssumption
    <3>4. QED
      BY <3>1, <3>2, <3>3
  <2>3. BuiltCell(CellOf("rerank", id))
    BY DEF Init, InRegions
  <2>4. r < Blocks(BuiltN, PerRerank)
    BY <2>3, Cells DEF BuiltCell
  <2>5. r * PerRerank < BuiltN
    BY <2>2, <2>4, BlocksFilled, GeometryAssumption
  <2>6. q * PerPayload < BuiltN
    <3>1. q * PerPayload \in Nat /\ r * PerRerank \in Nat
      BY <2>2, GeometryAssumption
    <3>2. QED
      BY <2>2, <2>5, <3>1, GeometryAssumption
  <2>7. q < Blocks(BuiltN, PerPayload)
    BY <2>2, <2>6, BlocksFilled, GeometryAssumption
  <2>8. BuiltCell(CellOf("payload", id))
    BY <2>7, Cells DEF BuiltCell
  <2>9. QED
    BY <2>3, <2>8 DEF Init, InRegions
<1>4. QED
  BY <1>1, <1>2, <1>3 DEF RecordInv

\* While the power stays, every step keeps it.
LEMMA PoweredRecord ==
  ASSUME RecordInv, [Next]_vars, ~PowerLoss
  PROVE  RecordInv'
<1>1. TypeOK'
  BY TypeStep DEF RecordInv
<1>2. ASSUME NEW a \in Appenders, NEW count \in BatchSizes, StartAppend(a, count)
      PROVE  RecordInv'
  BY <1>1, <1>2, StartInv
<1>3. ASSUME NEW a \in Appenders, FinishMount(a) PROVE RecordInv'
  BY <1>1, <1>3, FinishMountInv
<1>4. ASSUME NEW a \in Appenders, TakeLock(a) PROVE RecordInv'
  BY <1>1, <1>4, TakeLockInv
<1>5. ASSUME NEW a \in Appenders, Plan(a) PROVE RecordInv'
  BY <1>1, <1>5, PlanInv
<1>6. ASSUME NEW a \in Appenders, ProgramPayload(a) PROVE RecordInv'
  BY <1>1, <1>6, PayloadInv
<1>7. ASSUME NEW a \in Appenders, ProgramPayloadCrc(a) PROVE RecordInv'
  BY <1>1, <1>7, PayloadCrcInv
<1>8. ASSUME NEW a \in Appenders, ProgramRerank(a) PROVE RecordInv'
  BY <1>1, <1>8, RerankInv
<1>9. ASSUME NEW a \in Appenders, ProgramRerankCrc(a) PROVE RecordInv'
  BY <1>1, <1>9, RerankCrcInv
<1>10. ASSUME NEW a \in Appenders, EraseSlot(a) \/ InstallManifest(a)
       PROVE  RecordInv'
  BY <1>1, <1>10, ManifestInv
<1>11. ASSUME NEW a \in Appenders, SyncAndReport(a) \/ Kill(a) PROVE RecordInv'
  BY <1>1, <1>11, ReturnInv DEF SyncAndReport, Kill, mediaVars
<1>12. ASSUME NEW r \in Readers,
              StartMount(r) \/ FinishReaderMount(r) \/ Unmount(r)
       PROVE  RecordInv'
  <2>1. flash' = flash /\ pc' = pc /\ call' = call /\ lock' = lock
    BY <1>12 DEF StartMount, FinishReaderMount, Unmount, mediaVars, callVars
  <2>2. QED
    BY <1>1, <2>1, StaysPut, CodesStay DEF RecordInv, LockHeld, Keeps
<1>13. CASE UNCHANGED vars
  <2>1. flash' = flash /\ pc' = pc /\ call' = call /\ lock' = lock
    BY <1>13 DEF vars, mediaVars, callVars
  <2>2. QED
    BY <1>1, <2>1, StaysPut, CodesStay DEF RecordInv, LockHeld, Keeps
<1>14. QED
  BY <1>2, <1>3, <1>4, <1>5, <1>6, <1>7, <1>8, <1>9, <1>10, <1>11, <1>12,
     <1>13 DEF Next, Step

LEMMA RecordStep ==
  ASSUME MaxPowerLoss = 0
  PROVE  RecordInv /\ [Next]_vars => RecordInv'
<1>1. RecordInv => ~PowerLoss
  BY DEF PowerLoss, RecordInv, TypeOK
<1>2. QED
  BY <1>1, PoweredRecord

LEMMA RecordSafe == RecordInv => NoCrossedRecords
BY DEF RecordInv, RecordFollowsCode, NoCrossedRecords, Readable, IntactPayload,
   IntactRerank, Intact, VectorAt

\* While the machine keeps its power, whoever appends and whichever process is
\* killed between any two writes, the code and the record under one id are of
\* one vector: writing both at the id, codes first, is enough.
THEOREM RecordsFollowIds ==
  ASSUME MaxPowerLoss = 0
  PROVE  Spec => []NoCrossedRecords
BY RecordInit, RecordStep, RecordSafe, PTL DEF Spec

=============================================================================
