---------------------------- MODULE StoreProofs ----------------------------
(***************************************************************************)
(* What one appender promises whatever process is killed and whenever, as  *)
(* long as the machine keeps its power: what it acknowledged stays stored, *)
(* the volume always mounts, a mount is recent, and the volume implements  *)
(* the insert-only store.  With a second appender, or with a power loss    *)
(* after a kill, an acknowledged id can be lost (README, sections 3, 5).   *)
(*                                                                         *)
(* None of it is inductive alone.  That an acknowledged id stays held      *)
(* needs that installs only extend the live manifest; that needs that the  *)
(* manifest an append extends is the live one, that the slot it erases is  *)
(* the other one, and that the head it found lies past every id the live   *)
(* manifest holds.                                                         *)
(***************************************************************************)
EXTENDS VolumeAppendProofs

OneAppender == \A a, b \in Appenders : a = b

Regions == {"payload", "payloadCrc", "rerank", "rerankCrc"}

Holding(c, op, base) == c \in Cell /\ flash[c] = Data(op, base)

\* All four cells of an id are those of one append.
StoredAt(id, op, base) == \A region \in Regions : Holding(CellOf(region, id), op, base)

---------------------------------------------------------------------------
(* An append in progress. *)

Programming == {"payload", "payloadCrc", "rerank", "rerankCrc"}
Past == Programming \cup {"erase", "install", "sync"}

\* Where the batch begins in a region, and how many of its blocks are there.
Begin(a, region) ==
  IF region \in {"payload", "payloadCrc"} THEN call[a].head ELSE call[a].headRerank

Wrote(a, region) ==
  CASE region = "payload" ->
         IF pc[a] = "payload" THEN call[a].part
         ELSE IF pc[a] = "payloadCrc" THEN call[a].part + 1
         ELSE call[a].count \div PerPayload
    [] region = "payloadCrc" ->
         IF pc[a] \in {"payload", "payloadCrc"} THEN call[a].part
         ELSE call[a].count \div PerPayload
    [] region = "rerank" ->
         IF pc[a] \in {"payload", "payloadCrc"} THEN 0
         ELSE IF pc[a] = "rerank" THEN call[a].part
         ELSE IF pc[a] = "rerankCrc" THEN call[a].part + 1
         ELSE call[a].count \div PerRerank
    [] region = "rerankCrc" ->
         IF pc[a] \in {"payload", "payloadCrc"} THEN 0
         ELSE IF pc[a] \in {"rerank", "rerankCrc"} THEN call[a].part
         ELSE call[a].count \div PerRerank

BatchCells(a) ==
  {c \in Regions \X Nat :
     Begin(a, c[1]) <= c[2] /\ c[2] < Begin(a, c[1]) + Wrote(a, c[1])}

BatchWritten(a) ==
  \A c \in BatchCells(a) : Holding(c, call[a].op, FirstId(call[a].head))

CallInv(a) ==
  /\ pc[a] = "mounting" => call[a].slotA = slot["A"]
  /\ pc[a] \in {"mounted", "locked", "erase", "install"} \cup Programming =>
       call[a].before = Live
  /\ pc[a] \in {"erase", "install"} \cup Programming =>
       /\ Live.n <= FirstId(call[a].head)
       /\ \A b \in PayloadBlock : b < call[a].head => flash[<<"payload", b>>] # Blank
  /\ pc[a] \in Past =>
       /\ call[a].headRerank = HeadRerank(call[a].head)
       /\ WholeUnits(call[a].count)
       /\ BatchWritten(a)
  /\ pc[a] = "sync" =>
       /\ Live.from <= FirstId(call[a].head)
       /\ Live.n = FirstId(call[a].head) + call[a].count

---------------------------------------------------------------------------
(* What it leaves behind. *)

\* One slot verifies, the other is a manifest behind or nothing, and neither is
\* the slot its successor is written to.
SlotsInv ==
  /\ Live.valid
  /\ \A s \in Slot :
       slot[s].valid =>
         /\ BuiltN <= slot[s].from /\ slot[s].from <= slot[s].n
         /\ slot[s].sequence <= Live.sequence
         /\ Live.sequence <= slot[s].sequence + 1
         /\ NextSlot(slot[s].sequence) # s

\* No head lies among the ids the live manifest reaches to.
LiveFilled ==
  \A b \in PayloadBlock : b * PerPayload < Live.n => flash[<<"payload", b>>] # Blank

KeptBy(m, k) ==
  /\ k.first + k.count <= m.n
  /\ k.first + k.count <= BuiltN \/ m.from <= k.first

AckedInv ==
  \A k \in acked :
    /\ k.count # 0
    /\ KeptBy(Live, k)
    /\ \A id \in k.first .. k.first + k.count - 1 : StoredAt(id, k.op, k.first)

\* A reader between its two slot reads has the newest manifest already, or will
\* find it or its successor's absence in slot B.
ReaderInv(r) ==
  /\ reader[r].state = "mounting" =>
       /\ reader[r].since <= Live.sequence
       /\ reader[r].slotA.valid =>
            /\ reader[r].slotA.sequence <= Live.sequence
            /\ reader[r].since <= reader[r].slotA.sequence + 1
       /\ NextSlot(reader[r].since) = "B" => reader[r].slotA.valid
  /\ reader[r].state = "failed" => Live.sequence > reader[r].since
  /\ reader[r].state = "mounted" =>
       /\ reader[r].manifest.sequence + 1 >= reader[r].since
       /\ reader[r].manifest.sequence <= Live.sequence

StoreInv ==
  /\ RecordInv
  /\ SlotsInv
  /\ LiveFilled
  /\ AckedInv
  /\ \A a \in Appenders : CallInv(a)
  /\ \A r \in Readers : ReaderInv(r)

---------------------------------------------------------------------------
(* The arithmetic of whole batches. *)

LEMMA UnitsDivide ==
  ASSUME NEW count \in Nat, WholeUnits(count)
  PROVE  count % PerPayload = 0 /\ count % PerRerank = 0 /\ count # 0
<1> DEFINE k == PerPayload \div PerRerank
           c == count \div PerPayload
<1>1. count # 0 /\ count % PerPayload = 0
  BY DEF WholeUnits, AppendUnit
<1>2. k \in Nat /\ PerPayload = k * PerRerank
  BY Span
<1>3. c \in Nat /\ count = c * PerPayload
  BY <1>1, GeometryAssumption
<1> HIDE DEF k, c
<1>4. c * k \in Nat /\ count = (c * k) * PerRerank
  BY <1>2, <1>3, GeometryAssumption
<1>5. ((c * k) + 1) * PerRerank = (c * k) * PerRerank + PerRerank
  BY <1>4, GeometryAssumption
<1>6. count \div PerRerank = c * k
  BY <1>4, <1>5, DivUnique, GeometryAssumption
<1>7. count % PerRerank = count - PerRerank * (count \div PerRerank)
  BY GeometryAssumption
<1>8. count % PerRerank = 0
  BY <1>4, <1>6, <1>7, GeometryAssumption
<1>9. QED
  BY <1>1, <1>8

\* The ids of a run of `n` items that fill whole blocks lie in those blocks.
LEMMA IdInRun ==
  ASSUME NEW per \in Nat \ {0}, NEW h \in Nat, NEW n \in Nat, n % per = 0,
         NEW id \in Nat, h * per <= id, id < h * per + n
  PROVE  h <= id \div per /\ id \div per < h + (n \div per)
<1> DEFINE c == n \div per
           q == id \div per
<1>1. c \in Nat /\ n = c * per
  OBVIOUS
<1>2. q \in Nat /\ q * per <= id /\ id < (q + 1) * per
  BY DivBounds
<1> HIDE DEF c, q
<1>3. (h + c) * per = h * per + c * per
      /\ (h + c) * per \in Nat /\ h * per \in Nat
  BY <1>1
<1>4. q < h + c
  <2>1. h + c <= q => (h + c) * per <= q * per
    BY <1>1, <1>2, MulMono
  <2>2. q * per \in Nat
    BY <1>2
  <2>3. QED
    BY <1>1, <1>2, <1>3, <2>1, <2>2
<1>5. h <= q
  <2>1. q + 1 <= h => (q + 1) * per <= h * per
    BY <1>2, MulMono
  <2>2. (q + 1) * per \in Nat
    BY <1>2
  <2>3. QED
    BY <1>2, <1>3, <2>1, <2>2
<1>6. QED
  BY <1>4, <1>5 DEF c, q

---------------------------------------------------------------------------
(* What does not change while blocks are programmed. *)

LEMMA LiveType == ASSUME TypeOK PROVE Live \in ManifestRecord
BY SelectType DEF TypeOK, Live, Slot

LEMMA HoldingStays ==
  ASSUME Keeps, NEW c, NEW op, NEW base, Holding(c, op, base)
  PROVE  c \in Cell /\ flash'[c] = Data(op, base)
BY DEF Holding, Keeps, Data, Blank, Content

LEMMA QuietMedia ==
  ASSUME StoreInv, Keeps, slot' = slot
  PROVE  /\ Live' = Live
         /\ SlotsInv'
         /\ LiveFilled'
         /\ acked' = acked => AckedInv'
         /\ \A r \in Readers : reader'[r] = reader[r] => ReaderInv(r)'
<1>1. Live' = Live
  BY DEF Live
<1>2. SlotsInv'
  BY <1>1 DEF StoreInv, SlotsInv
<1>3. LiveFilled'
  <2> SUFFICES ASSUME NEW b \in PayloadBlock, b * PerPayload < Live.n
               PROVE  flash'[<<"payload", b>>] # Blank
    BY <1>1 DEF LiveFilled
  <2>1. <<"payload", b>> \in Cell /\ flash[<<"payload", b>>] # Blank
    BY DEF StoreInv, LiveFilled, Cell
  <2>2. QED
    BY <2>1 DEF Keeps
<1>4. ASSUME acked' = acked PROVE AckedInv'
  <2> SUFFICES ASSUME NEW k \in acked
               PROVE  /\ k.count # 0 /\ KeptBy(Live', k)
                      /\ \A id \in k.first .. k.first + k.count - 1 :
                           StoredAt(id, k.op, k.first)'
    BY <1>4 DEF AckedInv, KeptBy
  <2>1. k.count # 0 /\ KeptBy(Live', k)
    BY <1>1 DEF StoreInv, AckedInv
  <2>2. ASSUME NEW id \in k.first .. k.first + k.count - 1
        PROVE  StoredAt(id, k.op, k.first)'
    <3>1. StoredAt(id, k.op, k.first)
      BY DEF StoreInv, AckedInv
    <3>2. QED
      BY <3>1, HoldingStays DEF StoredAt, Holding
  <2>3. QED
    BY <2>1, <2>2
<1>5. ASSUME NEW r \in Readers, reader'[r] = reader[r] PROVE ReaderInv(r)'
  BY <1>1, <1>5 DEF StoreInv, ReaderInv
<1>6. QED
  BY <1>1, <1>2, <1>3, <1>4, <1>5

\* A step that leaves slots, readers and the acknowledged alone.
LEMMA MoveStore ==
  ASSUME StoreInv, RecordInv', OneAppender, NEW a \in Appenders, Keeps,
         slot' = slot, acked' = acked, reader' = reader, CallInv(a)'
  PROVE  StoreInv'
<1>1. \A b \in Appenders : CallInv(b)'
  BY DEF OneAppender
<1>2. QED
  BY <1>1, QuietMedia DEF StoreInv

LEMMA IdleCall ==
  ASSUME NEW a \in Appenders, pc'[a] = "idle"
  PROVE  CallInv(a)'
BY DEF CallInv, Past, Programming

\* A call that ends, refused or killed.
LEMMA ReturnStore ==
  ASSUME StoreInv, RecordInv', OneAppender, NEW a \in Appenders, NEW how,
         Return(a, how), UNCHANGED <<flash, slot, acked, reader>>
  PROVE  StoreInv'
<1>1. pc'[a] = "idle"
  BY DEF Return, Goto, StoreInv, RecordInv, TypeOK
<1>2. Keeps
  BY DEF Keeps
<1>3. QED
  BY <1>1, <1>2, IdleCall, MoveStore

LEMMA RefuseStore ==
  ASSUME StoreInv, RecordInv', OneAppender, NEW a \in Appenders, NEW why, Refuse(a, why)
  PROVE  StoreInv'
BY ReturnStore DEF Refuse, mediaVars

---------------------------------------------------------------------------
(* The steps of an append that program. *)

\* One more block of the batch is there.
LEMMA BatchGrows ==
  ASSUME NEW a \in Appenders, Keeps, BatchWritten(a), NEW c \in Cell,
         flash'[c] = Data(call[a].op, FirstId(call[a].head)),
         BatchCells(a)' \subseteq BatchCells(a) \cup {c},
         call'[a].op = call[a].op, call'[a].head = call[a].head
  PROVE  BatchWritten(a)'
<1> SUFFICES ASSUME NEW d \in BatchCells(a)'
             PROVE  d \in Cell /\ flash'[d] = Data(call[a].op, FirstId(call[a].head))
  BY DEF BatchWritten, Holding, FirstId, Data, Content
<1>1. CASE d = c
  BY <1>1
<1>2. CASE d \in BatchCells(a)
  BY <1>2, HoldingStays DEF BatchWritten
<1>3. QED
  BY <1>1, <1>2

LEMMA WriteStore ==
  ASSUME StoreInv, RecordInv', OneAppender, NEW a \in Appenders, Keeps,
         pc[a] \in Programming, pc'[a] \in Programming \cup {"erase"},
         slot' = slot, acked' = acked, reader' = reader,
         call'[a].op = call[a].op, call'[a].head = call[a].head,
         call'[a].headRerank = call[a].headRerank, call'[a].count = call[a].count,
         call'[a].before = call[a].before,
         NEW c \in Cell, flash'[c] = Data(call[a].op, FirstId(call[a].head)),
         BatchCells(a)' \subseteq BatchCells(a) \cup {c}
  PROVE  StoreInv'
<1>1. CallInv(a) /\ Live' = Live
  BY DEF StoreInv, Live
<1>2. BatchWritten(a)'
  <2>1. BatchWritten(a)
    BY <1>1 DEF CallInv, Past
  <2>2. QED
    BY <2>1, BatchGrows
<1>3. \A b \in PayloadBlock : b < call[a].head => flash'[<<"payload", b>>] # Blank
  <2>1. \A b \in PayloadBlock : b < call[a].head => flash[<<"payload", b>>] # Blank
    BY <1>1 DEF CallInv
  <2>2. \A b \in PayloadBlock : <<"payload", b>> \in Cell
    BY DEF Cell
  <2>3. QED
    BY <2>1, <2>2 DEF Keeps
<1>4. CallInv(a)'
  BY <1>1, <1>2, <1>3 DEF CallInv, Past, Programming, FirstId, HeadRerank, WholeUnits
<1>5. QED
  BY <1>4, MoveStore

LEMMA PayloadStore ==
  ASSUME StoreInv, RecordInv', OneAppender, NEW a \in Appenders, ProgramPayload(a)
  PROVE  StoreInv'
<1> DEFINE block == call[a].head + call[a].part
<1>1. CASE Refuse(a, "refused")
  BY <1>1, RefuseStore
<1>2. CASE /\ Erased(<<"payload", block>>)
           /\ Program(<<"payload", block>>, Data(call[a].op, FirstId(call[a].head)))
           /\ Goto(a, "payloadCrc")
           /\ UNCHANGED <<call, outcome, lock, reader, boundVars, acked>>
  <2>1. Keeps /\ TypeOK
    BY <1>2, ProgramKeeps DEF StoreInv, RecordInv
  <2>2. pc[a] = "payload" /\ pc'[a] = "payloadCrc" /\ call' = call
    BY <1>2, <2>1 DEF ProgramPayload, Goto, TypeOK
  <2>3. /\ <<"payload", block>> \in Cell
        /\ flash'[<<"payload", block>>] = Data(call[a].op, FirstId(call[a].head))
        /\ slot' = slot
    BY <1>2, <2>1 DEF Erased, Program, TypeOK
  <2>4. call[a].head \in Nat /\ call[a].part \in Nat
    BY <2>1, CallFacts
  <2>5. BatchCells(a)' \subseteq BatchCells(a) \cup {<<"payload", block>>}
    BY <2>2, <2>4 DEF BatchCells, Begin, Wrote, Regions
  <2>6. QED
    BY <1>2, <2>1, <2>2, <2>3, <2>5, WriteStore DEF Programming
<1>3. QED
  BY <1>1, <1>2 DEF ProgramPayload, ProgramBlock

LEMMA PayloadCrcStore ==
  ASSUME StoreInv, RecordInv', OneAppender, NEW a \in Appenders, ProgramPayloadCrc(a)
  PROVE  StoreInv'
<1> DEFINE block == call[a].head + call[a].part
           last  == call[a].count \div PerPayload
           done  == call[a].part + 1 = last
<1>1. CASE Refuse(a, "refused")
  BY <1>1, RefuseStore
<1>2. CASE /\ Erased(<<"payloadCrc", block>>)
           /\ Program(<<"payloadCrc", block>>,
                      Data(call[a].op, FirstId(call[a].head)))
           /\ Goto(a, IF done THEN "rerank" ELSE "payload")
           /\ call' = [call EXCEPT ![a].part = IF done THEN 0 ELSE @ + 1]
           /\ UNCHANGED <<outcome, lock, reader, boundVars, acked>>
  <2>1. Keeps /\ TypeOK
    BY <1>2, ProgramKeeps DEF StoreInv, RecordInv
  <2>2. pc[a] = "payloadCrc" /\ pc'[a] = IF done THEN "rerank" ELSE "payload"
    BY <1>2, <2>1 DEF ProgramPayloadCrc, Goto, TypeOK
  <2>3. /\ <<"payloadCrc", block>> \in Cell
        /\ flash'[<<"payloadCrc", block>>] = Data(call[a].op, FirstId(call[a].head))
        /\ slot' = slot
    BY <1>2, <2>1 DEF Erased, Program, TypeOK
  <2>4. /\ call'[a].part = IF done THEN 0 ELSE call[a].part + 1
        /\ call'[a].op = call[a].op
        /\ call'[a].head = call[a].head
        /\ call'[a].headRerank = call[a].headRerank
        /\ call'[a].count = call[a].count
        /\ call'[a].before = call[a].before
    BY <1>2, <2>1 DEF TypeOK, CallRecord
  <2>5. /\ call[a].head \in Nat /\ call[a].headRerank \in Nat /\ call[a].part \in Nat
        /\ last \in Nat
    BY <2>1, CallFacts, GeometryAssumption
  <2>6. BatchCells(a)' \subseteq BatchCells(a) \cup {<<"payloadCrc", block>>}
    <3> HIDE DEF last
    <3>1. CASE done
      BY <2>2, <2>4, <2>5, <3>1 DEF BatchCells, Begin, Wrote, Regions, last
    <3>2. CASE ~done
      BY <2>2, <2>4, <2>5, <3>2 DEF BatchCells, Begin, Wrote, Regions
    <3>3. QED
      BY <3>1, <3>2
  <2>7. QED
    BY <1>2, <2>1, <2>2, <2>3, <2>4, <2>6, WriteStore DEF Programming
<1>3. QED
  BY <1>1, <1>2 DEF ProgramPayloadCrc, ProgramBlockCrc

LEMMA RerankStore ==
  ASSUME StoreInv, RecordInv', OneAppender, NEW a \in Appenders, ProgramRerank(a)
  PROVE  StoreInv'
<1> DEFINE block == call[a].headRerank + call[a].part
           base  == call[a].headRerank * PerRerank
<1>1. CASE Refuse(a, "refused")
  BY <1>1, RefuseStore
<1>2. CASE /\ Erased(<<"rerank", block>>)
           /\ Program(<<"rerank", block>>, Data(call[a].op, base))
           /\ Goto(a, "rerankCrc")
           /\ UNCHANGED <<call, outcome, lock, reader, boundVars, acked>>
  <2>1. Keeps /\ TypeOK
    BY <1>2, ProgramKeeps DEF StoreInv, RecordInv
  <2>2. pc[a] = "rerank" /\ pc'[a] = "rerankCrc" /\ call' = call
    BY <1>2, <2>1 DEF ProgramRerank, Goto, TypeOK
  <2>3. call[a].head \in Nat /\ call[a].headRerank \in Nat /\ call[a].part \in Nat
    BY <2>1, CallFacts
  <2>4. base = FirstId(call[a].head)
    BY <2>2, <2>3, HeadAligned DEF StoreInv, CallInv, Past, Programming
  <2>5. /\ <<"rerank", block>> \in Cell
        /\ flash'[<<"rerank", block>>] = Data(call[a].op, FirstId(call[a].head))
        /\ slot' = slot
    BY <1>2, <2>1, <2>4 DEF Erased, Program, TypeOK
  <2>6. BatchCells(a)' \subseteq BatchCells(a) \cup {<<"rerank", block>>}
    BY <2>2, <2>3 DEF BatchCells, Begin, Wrote, Regions
  <2>7. QED
    BY <1>2, <2>1, <2>2, <2>5, <2>6, WriteStore DEF Programming
<1>3. QED
  BY <1>1, <1>2 DEF ProgramRerank, ProgramBlock

LEMMA RerankCrcStore ==
  ASSUME StoreInv, RecordInv', OneAppender, NEW a \in Appenders, ProgramRerankCrc(a)
  PROVE  StoreInv'
<1> DEFINE block == call[a].headRerank + call[a].part
           base  == call[a].headRerank * PerRerank
           last  == call[a].count \div PerRerank
           done  == call[a].part + 1 = last
<1>1. CASE Refuse(a, "refused")
  BY <1>1, RefuseStore
<1>2. CASE /\ Erased(<<"rerankCrc", block>>)
           /\ Program(<<"rerankCrc", block>>, Data(call[a].op, base))
           /\ Goto(a, IF done THEN "erase" ELSE "rerank")
           /\ call' = [call EXCEPT ![a].part = IF done THEN 0 ELSE @ + 1]
           /\ UNCHANGED <<outcome, lock, reader, boundVars, acked>>
  <2>1. Keeps /\ TypeOK
    BY <1>2, ProgramKeeps DEF StoreInv, RecordInv
  <2>2. pc[a] = "rerankCrc" /\ pc'[a] = IF done THEN "erase" ELSE "rerank"
    BY <1>2, <2>1 DEF ProgramRerankCrc, Goto, TypeOK
  <2>3. /\ call'[a].part = IF done THEN 0 ELSE call[a].part + 1
        /\ call'[a].op = call[a].op
        /\ call'[a].head = call[a].head
        /\ call'[a].headRerank = call[a].headRerank
        /\ call'[a].count = call[a].count
        /\ call'[a].before = call[a].before
    BY <1>2, <2>1 DEF TypeOK, CallRecord
  <2>4. /\ call[a].head \in Nat /\ call[a].headRerank \in Nat /\ call[a].part \in Nat
        /\ last \in Nat
    BY <2>1, CallFacts, GeometryAssumption
  <2>5. base = FirstId(call[a].head)
    BY <2>2, <2>4, HeadAligned DEF StoreInv, CallInv, Past, Programming
  <2>6. /\ <<"rerankCrc", block>> \in Cell
        /\ flash'[<<"rerankCrc", block>>] = Data(call[a].op, FirstId(call[a].head))
        /\ slot' = slot
    BY <1>2, <2>1, <2>5 DEF Erased, Program, TypeOK
  <2>7. BatchCells(a)' \subseteq BatchCells(a) \cup {<<"rerankCrc", block>>}
    <3> HIDE DEF last
    <3>1. CASE done
      BY <2>2, <2>3, <2>4, <3>1 DEF BatchCells, Begin, Wrote, Regions, last
    <3>2. CASE ~done
      BY <2>2, <2>3, <2>4, <3>2 DEF BatchCells, Begin, Wrote, Regions
    <3>3. QED
      BY <3>1, <3>2
  <2>8. QED
    BY <1>2, <2>1, <2>2, <2>3, <2>6, <2>7, WriteStore DEF Programming
<1>3. QED
  BY <1>1, <1>2 DEF ProgramRerankCrc, ProgramBlockCrc

---------------------------------------------------------------------------
(* The steps that read. *)

LEMMA StartStore ==
  ASSUME StoreInv, RecordInv', OneAppender, NEW a \in Appenders, NEW count,
         StartAppend(a, count)
  PROVE  StoreInv'
<1>1. /\ pc'[a] = "mounting" /\ call'[a].slotA = slot["A"]
      /\ UNCHANGED <<flash, slot, acked, reader>>
  BY DEF StartAppend, StoreInv, RecordInv, TypeOK, Goto, mediaVars
<1>2. CallInv(a)' /\ Keeps
  BY <1>1 DEF CallInv, Past, Programming, Keeps
<1>3. QED
  BY <1>1, <1>2, MoveStore

LEMMA FinishMountStore ==
  ASSUME StoreInv, RecordInv', OneAppender, NEW a \in Appenders, FinishMount(a)
  PROVE  StoreInv'
<1>1. CASE Refuse(a, "volume") \/ Refuse(a, "notAligned")
  BY <1>1, RefuseStore
<1>2. CASE /\ Goto(a, "mounted")
           /\ call' = [call EXCEPT ![a].before = MountedManifest(a)]
           /\ UNCHANGED <<mediaVars, outcome, lock, reader, boundVars, acked>>
  <2>1. /\ pc'[a] = "mounted" /\ call'[a].before = MountedManifest(a)
        /\ UNCHANGED <<flash, slot, acked, reader>>
    BY <1>2 DEF StoreInv, RecordInv, TypeOK, CallRecord, Goto, mediaVars
  <2>2. MountedManifest(a) = Live /\ Live' = Live
    BY <2>1 DEF FinishMount, StoreInv, CallInv, MountedManifest, Live
  <2>3. CallInv(a)' /\ Keeps
    BY <2>1, <2>2 DEF CallInv, Past, Programming, Keeps
  <2>4. QED
    BY <2>1, <2>3, MoveStore
<1>3. QED
  BY <1>1, <1>2 DEF FinishMount

LEMMA TakeLockStore ==
  ASSUME StoreInv, RecordInv', OneAppender, NEW a \in Appenders, TakeLock(a)
  PROVE  StoreInv'
<1>1. CASE Refuse(a, "locked")
  BY <1>1, RefuseStore
<1>2. CASE /\ Goto(a, "locked")
           /\ UNCHANGED <<mediaVars, call, outcome, reader, boundVars, acked>>
  <2>1. /\ pc[a] = "mounted" /\ pc'[a] = "locked"
        /\ UNCHANGED <<flash, slot, acked, reader, call>>
    BY <1>2 DEF StoreInv, RecordInv, TypeOK, TakeLock, Goto, mediaVars
  <2>2. CallInv(a)' /\ Keeps
    BY <2>1 DEF StoreInv, CallInv, Past, Programming, Keeps, Live
  <2>3. QED
    BY <2>1, <2>2, MoveStore
<1>3. QED
  BY <1>1, <1>2 DEF TakeLock

\* The head lies past what the live manifest holds, as those blocks are not erased.
LEMMA PlanStore ==
  ASSUME StoreInv, RecordInv', OneAppender, NEW a \in Appenders, Plan(a)
  PROVE  StoreInv'
<1>1. CASE Refuse(a, "volume") \/ Refuse(a, "full") \/ Refuse(a, "diverged")
  BY <1>1, RefuseStore
<1>2. CASE \E b \in PayloadBlock :
             /\ IsHead(b)
             /\ Goto(a, "payload")
             /\ call' = [call EXCEPT ![a].head = b,
                                     ![a].headRerank = HeadRerank(b)]
             /\ UNCHANGED <<mediaVars, outcome, lock, reader, boundVars, acked>>
  <2>1. PICK b \in PayloadBlock :
             /\ IsHead(b)
             /\ Goto(a, "payload")
             /\ call' = [call EXCEPT ![a].head = b,
                                     ![a].headRerank = HeadRerank(b)]
             /\ UNCHANGED <<mediaVars, outcome, lock, reader, boundVars, acked>>
    BY <1>2
  <2>2. /\ pc[a] = "locked" /\ pc'[a] = "payload"
        /\ call'[a].head = b /\ call'[a].headRerank = HeadRerank(b)
        /\ call'[a].part = call[a].part /\ call'[a].count = call[a].count
        /\ call'[a].before = call[a].before
        /\ UNCHANGED <<flash, slot, acked, reader>>
    <3>1. pc[a] = "locked"
      BY DEF Plan
    <3>2. pc \in [Appenders -> PcLabel] /\ call \in [Appenders -> CallRecord]
      BY DEF StoreInv, RecordInv, TypeOK
    <3>3. pc'[a] = "payload" /\ UNCHANGED <<flash, slot, acked, reader>>
      BY <2>1, <3>2 DEF Goto, mediaVars
    <3>4. call'[a] = [call[a] EXCEPT !.head = b, !.headRerank = HeadRerank(b)]
      BY <2>1, <3>2
    <3>5. call[a] \in CallRecord
      BY <3>2
    <3>6. QED
      BY <3>1, <3>3, <3>4, <3>5 DEF CallRecord
  <2>3. /\ WholeUnits(call[a].count) /\ call[a].part = 0
        /\ call[a].before = Live /\ Live' = Live
    BY <2>2 DEF StoreInv, RecordInv, AppendInv, Writing, CallInv, Live
  <2>4. b \in Nat /\ HeadRerank(b) \in Nat /\ FirstId(b) \in Nat /\ Live.n \in Nat
    BY HeadRerankType, LiveType, GeometryAssumption
       DEF FirstId, StoreInv, RecordInv, ManifestRecord
  <2>5. \A c \in PayloadBlock : c < b => flash[<<"payload", c>>] # Blank
    BY <2>1 DEF IsHead, Erased, Cell, PayloadBlock
  <2>6. Live.n <= FirstId(b)
    <3>1. flash[<<"payload", b>>] = Blank
      BY <2>1 DEF IsHead, Erased
    <3>2. QED
      BY <2>4, <3>1 DEF StoreInv, LiveFilled, FirstId
  <2>7. BatchCells(a)' = {}
    BY <2>2, <2>3, <2>4 DEF BatchCells, Begin, Wrote, Regions
  <2>8. BatchWritten(a)'
    BY <2>7 DEF BatchWritten
  <2>9. CallInv(a)' /\ Keeps
    BY <2>2, <2>3, <2>5, <2>6, <2>8 DEF CallInv, Past, Programming, Keeps
  <2>10. QED
    BY <2>2, <2>9, MoveStore
<1>3. QED
  BY <1>1, <1>2 DEF Plan

---------------------------------------------------------------------------
(* The manifest. *)

\* The live slot is one of the two, and not the one the next install writes.
LEMMA LiveSlot ==
  ASSUME TypeOK, SlotsInv
  PROVE  \E s \in Slot : /\ slot[s] = Live
                         /\ NextSlot(Live.sequence) # s
                         /\ NextSlot(Live.sequence) \in Slot
<1>1. \E s \in Slot : slot[s] = Live
  BY DEF Live, Select, Slot
<1>2. Live.valid
  BY DEF SlotsInv
<1>3. QED
  BY <1>1, <1>2 DEF SlotsInv, NextSlot, Slot

\* The appender's target: the manifest it extends is the live one.
LEMMA EraseLive ==
  ASSUME StoreInv, NEW a \in Appenders, EraseSlot(a)
  PROVE  /\ Live' = Live
         /\ SlotsInv'
         /\ call[a].before = Live
<1>1. call[a].before = Live /\ TypeOK /\ SlotsInv
  BY DEF EraseSlot, StoreInv, RecordInv, CallInv
<1>2. PICK s \in Slot : /\ slot[s] = Live
                        /\ NextSlot(Live.sequence) # s
                        /\ NextSlot(Live.sequence) \in Slot
  BY <1>1, LiveSlot
<1>3. /\ slot'[NextSlot(Live.sequence)] = NoManifest
      /\ slot'[s] = slot[s]
      /\ \A t \in Slot : t = s \/ t = NextSlot(Live.sequence)
  BY <1>1, <1>2 DEF EraseSlot, WriteSlot, TargetSlot, TypeOK, Slot
<1>4. Live.valid /\ ~NoManifest.valid
  BY <1>1 DEF SlotsInv, NoManifest
<1>5. Live' = Live
  BY <1>2, <1>3, <1>4 DEF Live, Select, Slot
<1>6. SlotsInv'
  BY <1>1, <1>2, <1>3, <1>4, <1>5 DEF SlotsInv
<1>7. QED
  BY <1>1, <1>5, <1>6

LEMMA EraseStore ==
  ASSUME StoreInv, RecordInv', OneAppender, NEW a \in Appenders, EraseSlot(a)
  PROVE  StoreInv'
<1>1. Live' = Live /\ SlotsInv' /\ flash' = flash
  BY EraseLive DEF EraseSlot, WriteSlot
<1>2. /\ pc[a] = "erase" /\ pc'[a] = "install"
      /\ call' = call /\ acked' = acked /\ reader' = reader
  BY DEF EraseSlot, Goto, StoreInv, RecordInv, TypeOK
<1>3. LiveFilled'
  BY <1>1 DEF StoreInv, LiveFilled
<1>4. AckedInv'
  BY <1>1, <1>2 DEF StoreInv, AckedInv, KeptBy, StoredAt, Holding
<1>5. \A r \in Readers : ReaderInv(r)'
  BY <1>1, <1>2 DEF StoreInv, ReaderInv
<1>6. CallInv(a)'
  <2>1. BatchCells(a)' = BatchCells(a)
    BY <1>2 DEF BatchCells, Begin, Wrote
  <2>2. BatchWritten(a)'
    BY <1>1, <1>2, <2>1 DEF StoreInv, CallInv, Past, BatchWritten, Holding
  <2>3. QED
    BY <1>1, <1>2, <2>2 DEF StoreInv, CallInv, Past, Programming
<1>7. \A b \in Appenders : CallInv(b)'
  BY <1>6 DEF OneAppender
<1>8. QED
  BY <1>1, <1>3, <1>4, <1>5, <1>7 DEF StoreInv

LEMMA InstallLive ==
  ASSUME StoreInv, NEW a \in Appenders, InstallManifest(a)
  PROVE  /\ call[a].before = Live
         /\ Live' = Updated(a)
         /\ Live'.sequence = Live.sequence + 1
         /\ Live'.n = FirstId(call[a].head) + call[a].count
         /\ Live'.from = IF Appended(Live) = 0 THEN FirstId(call[a].head) ELSE Live.from
         /\ SlotsInv'
<1> DEFINE first == FirstId(call[a].head)
           count == call[a].count
           U == Updated(a)
           T == NextSlot(Live.sequence)
<1>1. /\ call[a].before = Live /\ TypeOK /\ SlotsInv
      /\ Live.n <= first
  BY DEF InstallManifest, StoreInv, RecordInv, CallInv
<1>2. first \in Nat /\ count \in Nat /\ Live \in ManifestRecord
  BY <1>1, CallFacts, LiveType
<1>3. PICK s \in Slot : slot[s] = Live /\ T # s /\ T \in Slot
  BY <1>1, LiveSlot
<1>4. /\ Live.valid /\ BuiltN <= Live.from /\ Live.from <= Live.n
      /\ Live.sequence \in Nat /\ Live.from \in Nat /\ Live.n \in Nat
  BY <1>1, <1>2, <1>3 DEF SlotsInv, ManifestRecord
<1>5. /\ U.sequence = Live.sequence + 1
      /\ U.n = first + count
      /\ U.from = IF Appended(Live) = 0 THEN first ELSE Live.from
      /\ U.valid = (BuiltN <= U.from /\ U.from <= U.n)
  BY <1>1 DEF Updated, Manifest
<1> HIDE DEF U, first, count, T
<1>6. BuiltN <= U.from /\ U.from <= U.n /\ U.valid
  <2>1. BuiltN \in Nat
    BY GeometryAssumption
  <2>2. U.from \in {first, Live.from} /\ U.n = first + count
    BY <1>5
  <2>3. BuiltN <= U.from /\ U.from <= U.n
    BY <1>1, <1>2, <1>4, <2>1, <2>2
  <2>4. QED
    BY <1>5, <2>3
<1>7. /\ slot'[T] = U
      /\ slot'[s] = Live
      /\ \A t \in Slot : t = s \/ t = T
  <2>1. slot' = [slot EXCEPT ![T] = U]
    BY <1>1 DEF InstallManifest, WriteSlot, TargetSlot, U, T
  <2>2. slot \in [Slot -> ManifestRecord]
    BY <1>1 DEF TypeOK
  <2>3. QED
    BY <1>3, <2>1, <2>2 DEF Slot
<1>8. Live' = U
  <2>1. U.sequence > Live.sequence /\ ~(Live.sequence > U.sequence)
    BY <1>4, <1>5
  <2>2. CASE T = "A"
    <3>1. slot'["A"] = U /\ slot'["B"] = Live
      BY <1>3, <1>7, <2>2 DEF Slot
    <3>2. QED
      BY <1>4, <1>6, <2>1, <3>1 DEF Live, Select
  <2>3. CASE T = "B"
    <3>1. slot'["B"] = U /\ slot'["A"] = Live
      BY <1>3, <1>7, <2>3 DEF Slot
    <3>2. QED
      BY <1>4, <1>6, <2>1, <3>1 DEF Live, Select
  <2>4. QED
    BY <1>3, <2>2, <2>3 DEF Slot
<1>9. NextSlot(U.sequence) # T
  BY <1>4, <1>5 DEF NextSlot, T
<1>10. SlotsInv'
  <2> SUFFICES ASSUME NEW t \in Slot, slot'[t].valid
               PROVE  /\ BuiltN <= slot'[t].from /\ slot'[t].from <= slot'[t].n
                      /\ slot'[t].sequence <= Live'.sequence
                      /\ Live'.sequence <= slot'[t].sequence + 1
                      /\ NextSlot(slot'[t].sequence) # t
    BY <1>6, <1>8 DEF SlotsInv, NextSlot
  <2>1. CASE t = T
    BY <1>4, <1>5, <1>6, <1>7, <1>8, <1>9, <2>1
  <2>2. CASE t = s
    BY <1>3, <1>4, <1>5, <1>7, <1>8, <2>2 DEF T
  <2>3. QED
    BY <1>7, <2>1, <2>2
<1>11. QED
  BY <1>1, <1>5, <1>8, <1>10 DEF U, first, count

\* An append past its last CRC word has its whole batch in the four regions.
LEMMA BatchStored ==
  ASSUME TypeOK, NEW a \in Appenders, pc[a] \in {"erase", "install", "sync"},
         call[a].headRerank = HeadRerank(call[a].head),
         WholeUnits(call[a].count), BatchWritten(a),
         NEW id \in FirstId(call[a].head) .. FirstId(call[a].head) + call[a].count - 1
  PROVE  StoredAt(id, call[a].op, FirstId(call[a].head))
<1> DEFINE first == FirstId(call[a].head)
           count == call[a].count
<1>1. first \in Nat /\ count \in Nat /\ call[a].head \in Nat /\ call[a].headRerank \in Nat
  BY CallFacts
<1>2. count % PerPayload = 0 /\ count % PerRerank = 0 /\ count # 0
  BY <1>1, UnitsDivide
<1>3. id \in Nat /\ first <= id /\ id < first + count
  BY <1>1
<1>4. /\ call[a].head <= id \div PerPayload
      /\ id \div PerPayload < call[a].head + (count \div PerPayload)
  BY <1>1, <1>2, <1>3, IdInRun, GeometryAssumption DEF FirstId
<1>5. call[a].headRerank * PerRerank = first
  BY <1>1, HeadAligned
<1>6. /\ call[a].headRerank <= id \div PerRerank
      /\ id \div PerRerank < call[a].headRerank + (count \div PerRerank)
  BY <1>1, <1>2, <1>3, <1>5, IdInRun, GeometryAssumption
<1>7. id \div PerPayload \in Nat /\ id \div PerRerank \in Nat
  BY <1>3, DivBounds, GeometryAssumption
<1>8. \A region \in Regions : CellOf(region, id) \in BatchCells(a)
  BY <1>4, <1>6, <1>7 DEF BatchCells, Begin, Wrote, Regions, CellOf
<1>9. QED
  BY <1>8 DEF BatchWritten, StoredAt

LEMMA BatchFills ==
  ASSUME TypeOK, NEW a \in Appenders, pc[a] \in {"erase", "install", "sync"},
         WholeUnits(call[a].count), BatchWritten(a),
         NEW b \in PayloadBlock, call[a].head <= b,
         b * PerPayload < FirstId(call[a].head) + call[a].count
  PROVE  flash[<<"payload", b>>] # Blank
<1> DEFINE first == FirstId(call[a].head)
           count == call[a].count
           c == count \div PerPayload
<1>1. first \in Nat /\ count \in Nat /\ call[a].head \in Nat
  BY CallFacts
<1>2. b \in Nat /\ PerPayload \in Nat \ {0}
  BY GeometryAssumption DEF PayloadBlock
<1>3. c \in Nat /\ count = c * PerPayload
  BY <1>1, <1>2, UnitsDivide DEF WholeUnits
<1> HIDE DEF c
<1>4. first + count = (call[a].head + c) * PerPayload
  <2>1. (call[a].head + c) * PerPayload = call[a].head * PerPayload + c * PerPayload
    BY <1>1, <1>2, <1>3
  <2>2. QED
    BY <1>3, <2>1 DEF FirstId
<1>5. call[a].head + c <= b => (call[a].head + c) * PerPayload <= b * PerPayload
  <2>1. call[a].head + c \in Nat /\ PerPayload \in Nat
    BY <1>1, <1>2, <1>3
  <2>2. QED
    BY <1>2, <2>1, MulMono
<1>6. b < call[a].head + c
  <2>1. b * PerPayload \in Nat
    BY <1>2
  <2>2. QED
    BY <1>1, <1>2, <1>3, <1>4, <1>5, <2>1
<1>7. <<"payload", b>> \in BatchCells(a)
  BY <1>2, <1>6 DEF BatchCells, Begin, Wrote, Regions, c
<1>8. QED
  BY <1>7 DEF BatchWritten, Holding, Data, Blank, Content

\* The new manifest reaches past every head an append will find, and holds what
\* the old one held.
LEMMA InstallStore ==
  ASSUME StoreInv, RecordInv', OneAppender, NEW a \in Appenders, InstallManifest(a)
  PROVE  StoreInv'
<1> DEFINE first == FirstId(call[a].head)
           count == call[a].count
<1>1. /\ Live'.sequence = Live.sequence + 1
      /\ Live'.n = first + count
      /\ Live'.from = IF Appended(Live) = 0 THEN first ELSE Live.from
      /\ SlotsInv'
  BY InstallLive
<1>2. /\ pc[a] = "install" /\ pc'[a] = "sync"
      /\ call' = call /\ acked' = acked /\ reader' = reader /\ flash' = flash
  BY DEF InstallManifest, WriteSlot, Goto, StoreInv, RecordInv, TypeOK
<1>3. /\ Live.n <= first
      /\ \A b \in PayloadBlock : b < call[a].head => flash[<<"payload", b>>] # Blank
      /\ WholeUnits(count) /\ BatchWritten(a)
  BY <1>2 DEF StoreInv, CallInv, Past
<1>4. /\ TypeOK /\ Live \in ManifestRecord
      /\ first \in Nat /\ count \in Nat /\ call[a].head \in Nat
  BY CallFacts, LiveType DEF StoreInv, RecordInv
<1>5. Live.n \in Nat /\ Live.from \in Nat /\ Live.sequence \in Nat /\ Live.from <= Live.n
  <2>1. PICK s \in Slot : slot[s] = Live
    BY <1>4, LiveSlot DEF StoreInv
  <2>2. QED
    BY <1>4, <2>1 DEF ManifestRecord, StoreInv, SlotsInv
<1>6. LiveFilled'
  <2> SUFFICES ASSUME NEW b \in PayloadBlock, b * PerPayload < first + count
               PROVE  flash[<<"payload", b>>] # Blank
    BY <1>1, <1>2 DEF LiveFilled
  <2>1. CASE b < call[a].head
    BY <1>3, <2>1
  <2>2. CASE call[a].head <= b
    BY <1>2, <1>3, <1>4, <2>2, BatchFills
  <2>3. QED
    BY <1>4, <2>1, <2>2 DEF PayloadBlock
<1>7. AckedInv'
  <2> SUFFICES ASSUME NEW k \in acked PROVE KeptBy(Live', k)
    BY <1>2 DEF StoreInv, AckedInv, StoredAt, Holding
  <2>1. k.first \in Nat /\ k.count \in Nat /\ k.count # 0 /\ KeptBy(Live, k)
    BY <1>4 DEF StoreInv, AckedInv, TypeOK
  <2>2. k.first + k.count <= Live'.n
    BY <1>1, <1>3, <1>4, <1>5, <2>1 DEF KeptBy
  <2>3. k.first + k.count <= BuiltN \/ Live'.from <= k.first
    BY <1>1, <1>5, <2>1 DEF KeptBy, Appended
  <2>4. QED
    BY <2>2, <2>3 DEF KeptBy
<1>8. CallInv(a)'
  <2>1. BatchCells(a)' = BatchCells(a)
    BY <1>2 DEF BatchCells, Begin, Wrote
  <2>2. BatchWritten(a)'
    BY <1>2, <1>3, <2>1 DEF BatchWritten, Holding
  <2>3. Live'.from <= first
    BY <1>1, <1>3, <1>4, <1>5
  <2>4. call[a].headRerank = HeadRerank(call[a].head)
    BY <1>2 DEF StoreInv, CallInv, Past
  <2>5. QED
    BY <1>1, <1>2, <1>3, <2>2, <2>3, <2>4 DEF CallInv, Past, Programming
<1>9. \A b \in Appenders : CallInv(b)'
  BY <1>8 DEF OneAppender
<1>10. \A r \in Readers : ReaderInv(r)'
  <2> SUFFICES ASSUME NEW r \in Readers PROVE ReaderInv(r)'
    OBVIOUS
  <2>1. /\ reader[r].since \in Nat
        /\ reader[r].slotA.sequence \in Nat
        /\ reader[r].manifest.sequence \in Nat
    BY <1>4 DEF TypeOK, ReaderRecord, ManifestRecord
  <2>2. QED
    BY <1>1, <1>2, <1>5, <2>1 DEF StoreInv, ReaderInv
<1>11. QED
  BY <1>1, <1>6, <1>7, <1>9, <1>10 DEF StoreInv

\* The report: all four cells of each id of the batch are the batch's.
LEMMA ReportStore ==
  ASSUME StoreInv, RecordInv', OneAppender, NEW a \in Appenders, SyncAndReport(a)
  PROVE  StoreInv'
<1> DEFINE first == FirstId(call[a].head)
           count == call[a].count
           new == [op |-> call[a].op, first |-> first, count |-> count]
<1>1. /\ pc[a] = "sync" /\ pc'[a] = "idle" /\ acked' = acked \cup {new}
      /\ UNCHANGED <<flash, slot, reader>>
  BY DEF SyncAndReport, Return, Goto, StoreInv, RecordInv, TypeOK
<1>2. Keeps /\ Live' = Live
  BY <1>1 DEF Keeps, Live
<1>3. /\ Live.from <= first /\ Live.n = first + count
      /\ call[a].headRerank = HeadRerank(call[a].head)
      /\ WholeUnits(count) /\ BatchWritten(a)
  BY <1>1 DEF StoreInv, CallInv, Past
<1>4. first \in Nat /\ count \in Nat /\ call[a].head \in Nat /\ call[a].headRerank \in Nat
  BY CallFacts DEF StoreInv, RecordInv
<1>5. count % PerPayload = 0 /\ count % PerRerank = 0 /\ count # 0
  BY <1>3, <1>4, UnitsDivide
<1>6. ASSUME NEW id \in first .. first + count - 1
      PROVE  StoredAt(id, call[a].op, first)
  BY <1>1, <1>3, <1>6, BatchStored DEF StoreInv, RecordInv
<1>7. SlotsInv' /\ LiveFilled' /\ \A r \in Readers : ReaderInv(r)'
  BY <1>1, <1>2, QuietMedia
<1>8. AckedInv'
  <2> SUFFICES ASSUME NEW k \in acked'
               PROVE  /\ k.count # 0 /\ KeptBy(Live, k)
                      /\ \A id \in k.first .. k.first + k.count - 1 :
                           StoredAt(id, k.op, k.first)
    BY <1>1, <1>2 DEF AckedInv, KeptBy, StoredAt, Holding
  <2>1. CASE k \in acked
    BY <2>1 DEF StoreInv, AckedInv
  <2>2. CASE k = new
    <3>1. KeptBy(Live, new)
      BY <1>3, <1>4 DEF KeptBy
    <3>2. QED
      BY <1>5, <1>6, <2>2, <3>1
  <2>3. QED
    BY <1>1, <2>1, <2>2
<1>9. \A b \in Appenders : CallInv(b)'
  BY <1>1, IdleCall DEF OneAppender
<1>10. QED
  BY <1>7, <1>8, <1>9 DEF StoreInv

---------------------------------------------------------------------------
(* Readers. *)

\* A step of one reader.
LEMMA ReaderStore ==
  ASSUME StoreInv, RecordInv', NEW r \in Readers,
         UNCHANGED <<mediaVars, callVars, acked>>,
         \A q \in Readers \ {r} : reader'[q] = reader[q],
         ReaderInv(r)'
  PROVE  StoreInv'
<1>1. UNCHANGED <<flash, slot, pc, call, acked>>
  BY DEF mediaVars, callVars
<1>2. Keeps /\ Live' = Live
  BY <1>1 DEF Keeps, Live
<1>3. SlotsInv' /\ LiveFilled' /\ AckedInv' /\ \A q \in Readers : ReaderInv(q)'
  BY <1>1, <1>2, QuietMedia
<1>4. ASSUME NEW a \in Appenders PROVE CallInv(a)'
  <2>1. BatchWritten(a) => BatchWritten(a)'
    BY <1>1 DEF BatchWritten, BatchCells, Begin, Wrote, Holding
  <2>2. QED
    BY <1>1, <1>2, <2>1 DEF StoreInv, CallInv
<1>5. QED
  BY <1>3, <1>4 DEF StoreInv

LEMMA StartMountStore ==
  ASSUME StoreInv, RecordInv', NEW r \in Readers, StartMount(r)
  PROVE  StoreInv'
<1>1. /\ TypeOK /\ SlotsInv
      /\ UNCHANGED <<slot, mediaVars, callVars, acked>>
      /\ reader'[r] = [Unmounted EXCEPT !.state = "mounting", !.since = Live.sequence,
                                        !.slotA = slot["A"]]
      /\ \A q \in Readers \ {r} : reader'[q] = reader[q]
  BY DEF StartMount, StoreInv, RecordInv, TypeOK, mediaVars
<1>2. /\ reader'[r].state = "mounting"
      /\ reader'[r].since = Live.sequence
      /\ reader'[r].slotA = slot["A"]
  BY <1>1 DEF Unmounted
<1>3. Live' = Live /\ Live.sequence \in Nat
  BY <1>1, LiveType DEF Live, ManifestRecord
<1>4. slot["A"].valid => /\ slot["A"].sequence <= Live.sequence
                         /\ Live.sequence <= slot["A"].sequence + 1
  BY <1>1 DEF SlotsInv, Slot
<1>5. NextSlot(Live.sequence) = "B" => slot["A"].valid
  <2>1. PICK s \in Slot : slot[s] = Live /\ NextSlot(Live.sequence) # s
    BY <1>1, LiveSlot
  <2>2. QED
    BY <1>1, <2>1 DEF SlotsInv, Slot
<1>6. ReaderInv(r)'
  BY <1>2, <1>3, <1>4, <1>5 DEF ReaderInv
<1>7. QED
  BY <1>1, <1>6, ReaderStore

\* Nothing found: slot A held nothing then, so the live manifest was in slot B,
\* and is in slot A now.
LEMMA FinishReaderMountStore ==
  ASSUME StoreInv, RecordInv', NEW r \in Readers, FinishReaderMount(r)
  PROVE  StoreInv'
<1> DEFINE a == reader[r].slotA
           b == slot["B"]
           m == Select(a, b)
           since == reader[r].since
<1>1. /\ TypeOK /\ SlotsInv /\ ReaderInv(r)
      /\ reader[r].state = "mounting"
      /\ UNCHANGED <<slot, mediaVars, callVars, acked>>
      /\ \A q \in Readers \ {r} : reader'[q] = reader[q]
  BY DEF FinishReaderMount, StoreInv, RecordInv, TypeOK, mediaVars
<1>2. Live' = Live
  BY <1>1 DEF Live
<1>3. /\ Live.sequence \in Nat /\ since \in Nat /\ since <= Live.sequence
      /\ a.sequence \in Nat /\ b.sequence \in Nat
  BY <1>1, LiveType DEF TypeOK, ReaderRecord, ManifestRecord, ReaderInv, Slot
<1>4. reader[r] \in ReaderRecord
  BY <1>1 DEF TypeOK
<1>5. reader'[r] = IF m.valid THEN [reader[r] EXCEPT !.state = "mounted", !.manifest = m]
                   ELSE [reader[r] EXCEPT !.state = "failed"]
  BY <1>1 DEF FinishReaderMount, TypeOK
<1>6. /\ a.valid => a.sequence <= Live.sequence /\ since <= a.sequence + 1
      /\ b.valid => b.sequence <= Live.sequence /\ Live.sequence <= b.sequence + 1
  BY <1>1 DEF ReaderInv, SlotsInv, Slot
<1>7. CASE m.valid
  <2>1. /\ reader'[r].state = "mounted" /\ reader'[r].manifest = m
        /\ reader'[r].since = since
    BY <1>4, <1>5, <1>7 DEF ReaderRecord
  <2>2. m.sequence + 1 >= since /\ m.sequence <= Live.sequence
    <3>1. CASE m = a
      BY <1>3, <1>6, <1>7, <3>1
    <3>2. CASE m = b
      BY <1>3, <1>6, <1>7, <3>2
    <3>3. QED
      BY <3>1, <3>2 DEF Select
  <2>3. ReaderInv(r)'
    BY <1>2, <2>1, <2>2 DEF ReaderInv
  <2>4. QED
    BY <1>1, <2>3, ReaderStore
<1>8. CASE ~m.valid
  <2>1. reader'[r].state = "failed" /\ reader'[r].since = since
    BY <1>4, <1>5, <1>8 DEF ReaderRecord
  <2>2. ~a.valid /\ ~b.valid
    BY <1>4, <1>8 DEF Select
  <2>3. NextSlot(since) # "B"
    BY <1>1, <2>2 DEF ReaderInv
  <2>4. NextSlot(Live.sequence) = "B"
    <3>1. PICK s \in Slot : /\ slot[s] = Live
                            /\ NextSlot(Live.sequence) # s
                            /\ NextSlot(Live.sequence) \in Slot
      BY <1>1, LiveSlot
    <3>2. QED
      BY <1>1, <2>2, <3>1 DEF SlotsInv, Slot
  <2>5. Live.sequence > since
    <3>1. Live.sequence # since
      BY <2>3, <2>4
    <3>2. QED
      BY <1>3, <3>1
  <2>6. ReaderInv(r)'
    BY <1>2, <2>1, <2>5 DEF ReaderInv
  <2>7. QED
    BY <1>1, <2>6, ReaderStore
<1>9. QED
  BY <1>7, <1>8

LEMMA UnmountStore ==
  ASSUME StoreInv, RecordInv', NEW r \in Readers, Unmount(r)
  PROVE  StoreInv'
<1>1. /\ UNCHANGED <<mediaVars, callVars, acked>>
      /\ reader'[r] = Unmounted
      /\ \A q \in Readers \ {r} : reader'[q] = reader[q]
  BY DEF Unmount, StoreInv, RecordInv, TypeOK
<1>2. ReaderInv(r)'
  BY <1>1 DEF ReaderInv, Unmounted
<1>3. QED
  BY <1>1, <1>2, ReaderStore

---------------------------------------------------------------------------
(* The invariant. *)

LEMMA StoreInit == Init => StoreInv
<1> SUFFICES ASSUME Init PROVE StoreInv
  OBVIOUS
<1>1. RecordInv
  BY RecordInit
<1>2. BuiltN \in Nat \ {0}
  BY GeometryAssumption
<1>3. /\ slot["A"].valid
      /\ slot["A"].sequence = 1 /\ slot["A"].n = BuiltN /\ slot["A"].from = BuiltN
      /\ ~slot["B"].valid
  <2>1. slot["A"] = BuiltManifest /\ slot["B"] = NoManifest
    BY DEF Init, Slot
  <2>2. /\ BuiltManifest.sequence = 1
        /\ BuiltManifest.n = BuiltN
        /\ BuiltManifest.from = BuiltN
    BY DEF BuiltManifest, Manifest
  <2>3. BuiltManifest.valid
    <3>1. BuiltN <= BuiltN
      BY <1>2
    <3>2. BuiltManifest.valid = (BuiltN <= BuiltN /\ BuiltN <= BuiltN)
      BY Zenon DEF BuiltManifest, Manifest
    <3>3. QED
      BY <3>1, <3>2
  <2>4. NoManifest.valid = FALSE
    BY DEF NoManifest
  <2>5. QED
    BY <2>1, <2>2, <2>3, <2>4
<1>4. Live = slot["A"]
  BY <1>3 DEF Live, Select
<1>5. SlotsInv
  BY <1>2, <1>3, <1>4 DEF SlotsInv, Slot, NextSlot
<1>6. LiveFilled
  <2> SUFFICES ASSUME NEW b \in PayloadBlock, b * PerPayload < BuiltN
               PROVE  flash[<<"payload", b>>] # Blank
    BY <1>3, <1>4 DEF LiveFilled
  <2>1. b < Blocks(BuiltN, PerPayload)
    BY BlocksFilled, GeometryAssumption DEF PayloadBlock
  <2>2. BuiltCell(<<"payload", b>>) /\ <<"payload", b>> \in Cell
    BY <2>1 DEF BuiltCell, Cell
  <2>3. QED
    BY <2>2 DEF Init, Data, Blank, Content
<1>7. ASSUME NEW id \in 0 .. BuiltN - 1 PROVE StoredAt(id, 0, 0)
  <2> DEFINE q == id \div PerPayload
             r == id \div PerRerank
  <2>1. id \in Nat /\ id < BuiltN
    BY <1>2
  <2>2. /\ q \in Nat /\ q * PerPayload <= id
        /\ r \in Nat /\ r * PerRerank <= id
    BY <2>1, DivBounds, GeometryAssumption
  <2> HIDE DEF q, r
  <2>3. PerPayload \in Nat \ {0} /\ PerRerank \in Nat \ {0}
        /\ PayloadBlocks \in Nat /\ RerankBlocks \in Nat
    BY GeometryAssumption
  <2>4. q * PerPayload \in Nat /\ r * PerRerank \in Nat
    BY <2>2, <2>3
  <2>5. q * PerPayload < BuiltN /\ r * PerRerank < BuiltN
    BY <1>2, <2>1, <2>2, <2>4
  <2>6. q < Blocks(BuiltN, PerPayload) /\ r < Blocks(BuiltN, PerRerank)
    BY <1>2, <2>2, <2>3, <2>5, BlocksFilled
  <2>7. q < PayloadBlocks
    <3>1. PayloadBlocks <= q => PayloadBlocks * PerPayload <= q * PerPayload
      BY <2>2, <2>3, MulMono
    <3>2. BuiltN <= PayloadBlocks * PerPayload /\ PayloadBlocks * PerPayload \in Nat
      BY <2>3, GeometryAssumption
    <3>3. QED
      BY <1>2, <2>2, <2>3, <2>4, <2>5, <3>1, <3>2
  <2>8. r < RerankBlocks
    <3>1. RerankBlocks <= r => RerankBlocks * PerRerank <= r * PerRerank
      BY <2>2, <2>3, MulMono
    <3>2. BuiltN <= RerankBlocks * PerRerank /\ RerankBlocks * PerRerank \in Nat
      BY <2>3, GeometryAssumption
    <3>3. QED
      BY <1>2, <2>2, <2>3, <2>4, <2>5, <3>1, <3>2
  <2>9. \A region \in Regions : CellOf(region, id) \in Cell /\ BuiltCell(CellOf(region, id))
    BY <2>2, <2>3, <2>6, <2>7, <2>8
       DEF Regions, CellOf, Cell, BuiltCell, PayloadBlock, RerankBlock, q, r
  <2>10. QED
    BY <2>9 DEF StoredAt, Holding, Init
<1>8. AckedInv
  <2> DEFINE k == [op |-> 0, first |-> 0, count |-> BuiltN]
  <2>1. acked = {k}
    BY DEF Init
  <2>2. KeptBy(Live, k) /\ k.count # 0
    BY <1>2, <1>3, <1>4 DEF KeptBy
  <2>3. \A id \in k.first .. k.first + k.count - 1 : StoredAt(id, k.op, k.first)
    BY <1>2, <1>7
  <2>4. QED
    BY <2>1, <2>2, <2>3 DEF AckedInv
<1>9. \A a \in Appenders : CallInv(a)
  BY DEF Init, CallInv, Past, Programming
<1>10. \A r \in Readers : ReaderInv(r)
  BY DEF Init, ReaderInv, Unmounted
<1>11. QED
  BY <1>1, <1>5, <1>6, <1>8, <1>9, <1>10 DEF StoreInv

LEMMA StoreStep ==
  ASSUME OneAppender, MaxPowerLoss = 0
  PROVE  StoreInv /\ [Next]_vars => StoreInv'
<1> SUFFICES ASSUME StoreInv, [Next]_vars PROVE StoreInv'
  OBVIOUS
<1>1. RecordInv'
  BY RecordStep DEF StoreInv
<1>2. ASSUME NEW a \in Appenders, NEW count \in BatchSizes, StartAppend(a, count)
      PROVE  StoreInv'
  BY <1>1, <1>2, StartStore
<1>3. ASSUME NEW a \in Appenders, FinishMount(a) PROVE StoreInv'
  BY <1>1, <1>3, FinishMountStore
<1>4. ASSUME NEW a \in Appenders, TakeLock(a) PROVE StoreInv'
  BY <1>1, <1>4, TakeLockStore
<1>5. ASSUME NEW a \in Appenders, Plan(a) PROVE StoreInv'
  BY <1>1, <1>5, PlanStore
<1>6. ASSUME NEW a \in Appenders, ProgramPayload(a) PROVE StoreInv'
  BY <1>1, <1>6, PayloadStore
<1>7. ASSUME NEW a \in Appenders, ProgramPayloadCrc(a) PROVE StoreInv'
  BY <1>1, <1>7, PayloadCrcStore
<1>8. ASSUME NEW a \in Appenders, ProgramRerank(a) PROVE StoreInv'
  BY <1>1, <1>8, RerankStore
<1>9. ASSUME NEW a \in Appenders, ProgramRerankCrc(a) PROVE StoreInv'
  BY <1>1, <1>9, RerankCrcStore
<1>10. ASSUME NEW a \in Appenders, EraseSlot(a) PROVE StoreInv'
  BY <1>1, <1>10, EraseStore
<1>11. ASSUME NEW a \in Appenders, InstallManifest(a) PROVE StoreInv'
  BY <1>1, <1>11, InstallStore
<1>12. ASSUME NEW a \in Appenders, SyncAndReport(a) PROVE StoreInv'
  BY <1>1, <1>12, ReportStore
<1>13. ASSUME NEW a \in Appenders, Kill(a) PROVE StoreInv'
  BY <1>1, <1>13, ReturnStore DEF Kill, mediaVars
<1>14. ASSUME NEW r \in Readers, StartMount(r) PROVE StoreInv'
  BY <1>1, <1>14, StartMountStore
<1>15. ASSUME NEW r \in Readers, FinishReaderMount(r) PROVE StoreInv'
  BY <1>1, <1>15, FinishReaderMountStore
<1>16. ASSUME NEW r \in Readers, Unmount(r) PROVE StoreInv'
  BY <1>1, <1>16, UnmountStore
<1>17. ~PowerLoss
  BY DEF PowerLoss, StoreInv, RecordInv, TypeOK
<1>18. CASE UNCHANGED vars
  <2>1. UNCHANGED <<flash, slot, pc, call, acked, reader>>
    BY <1>18 DEF vars, mediaVars, callVars
  <2>2. Keeps /\ Live' = Live
    BY <2>1 DEF Keeps, Live
  <2>3. SlotsInv' /\ LiveFilled' /\ AckedInv' /\ \A r \in Readers : ReaderInv(r)'
    BY <2>1, <2>2, QuietMedia
  <2>4. \A a \in Appenders : CallInv(a)'
    BY <2>1, <2>2 DEF StoreInv, CallInv, BatchWritten, BatchCells, Begin, Wrote, Holding
  <2>5. QED
    BY <1>1, <2>3, <2>4 DEF StoreInv
<1>19. QED
  BY <1>2, <1>3, <1>4, <1>5, <1>6, <1>7, <1>8, <1>9, <1>10, <1>11, <1>12, <1>13,
     <1>14, <1>15, <1>16, <1>17, <1>18 DEF Next, Step

---------------------------------------------------------------------------
(* What follows from it. *)

\* An id all of whose cells are those of one append reads as that append's vector.
LEMMA StoredReads ==
  ASSUME NEW id, NEW op, NEW base, StoredAt(id, op, base)
  PROVE  /\ Readable(id)
         /\ VectorAt("payload", id) = <<op, id - base>>
         /\ VectorAt("rerank", id) = <<op, id - base>>
<1>1. \A region \in Regions : /\ CellOf(region, id) \in Cell
                              /\ flash[CellOf(region, id)] = Data(op, base)
  BY DEF StoredAt, Holding
<1>2. Readable(id)
  BY <1>1 DEF Readable, InRegions, IntactPayload, IntactRerank, Intact, Regions,
              Data, Content
<1>3. QED
  BY <1>1, <1>2 DEF VectorAt, Regions, Data, Content

LEMMA StoreSafe ==
  ASSUME StoreInv
  PROVE  AckedDurable /\ LiveManifestExists /\ MountRecent
<1>1. LiveManifestExists
  BY DEF StoreInv, SlotsInv, LiveManifestExists
<1>2. MountRecent
  BY DEF StoreInv, ReaderInv, MountRecent
<1>3. AckedDurable
  <2> SUFFICES ASSUME NEW k \in acked, NEW id \in k.first .. k.first + k.count - 1
               PROVE  /\ Holds(Live, id)
                      /\ Readable(id)
                      /\ VectorAt("payload", id) = <<k.op, id - k.first>>
                      /\ VectorAt("rerank", id) = <<k.op, id - k.first>>
    BY DEF AckedDurable
  <2>1. k.first \in Nat /\ k.count \in Nat /\ id \in Nat
    BY DEF StoreInv, RecordInv, TypeOK
  <2>2. KeptBy(Live, k) /\ StoredAt(id, k.op, k.first) /\ Live.valid
    BY DEF StoreInv, AckedInv, SlotsInv
  <2>3. Live.n \in Nat /\ Live.from \in Nat /\ BuiltN \in Nat
    BY LiveType, GeometryAssumption DEF StoreInv, RecordInv, ManifestRecord
  <2>4. Holds(Live, id)
    BY <2>1, <2>2, <2>3 DEF Holds, KeptBy
  <2>5. QED
    BY <2>2, <2>4, StoredReads
<1>4. QED
  BY <1>1, <1>2, <1>3

\* The media of a step: the blocks keep what they hold, and the live manifest stays
\* or is extended.
Extends ==
  /\ Keeps
  /\ Live'.valid
  /\ Live'.sequence >= Live.sequence
  /\ \A id \in Nat : Holds(Live, id) => Holds(Live', id)

LEMMA SameExtends ==
  ASSUME StoreInv, Keeps, slot' = slot
  PROVE  Extends
<1>1. Live' = Live
  BY DEF Live
<1>2. Live.valid /\ Live.sequence \in Nat
  BY LiveType DEF StoreInv, RecordInv, SlotsInv, ManifestRecord
<1>3. QED
  BY <1>1, <1>2 DEF Extends, Holds

LEMMA InstallExtends ==
  ASSUME StoreInv, NEW a \in Appenders, InstallManifest(a)
  PROVE  Extends
<1>1. /\ Live'.sequence = Live.sequence + 1
      /\ Live'.n = FirstId(call[a].head) + call[a].count
      /\ Live'.from = IF Appended(Live) = 0 THEN FirstId(call[a].head) ELSE Live.from
      /\ SlotsInv'
  BY InstallLive
<1>2. TypeOK /\ Live \in ManifestRecord /\ Live.n <= FirstId(call[a].head)
  BY LiveType DEF StoreInv, RecordInv, CallInv, InstallManifest
<1>3. FirstId(call[a].head) \in Nat /\ call[a].count \in Nat
  BY <1>2, CallFacts
<1>4. Live.n \in Nat /\ Live.from \in Nat /\ Live.sequence \in Nat
  BY <1>2 DEF ManifestRecord
<1>5. Live'.valid
  BY <1>1 DEF SlotsInv
<1>6. ASSUME NEW id \in Nat, Holds(Live, id) PROVE Holds(Live', id)
  <2>1. CASE id \in 0 .. BuiltN - 1
    BY <1>5, <2>1 DEF Holds
  <2>2. CASE id \in Live.from .. Live.n - 1
    <3>1. Appended(Live) # 0
      BY <1>4, <2>2 DEF Appended
    <3>2. id \in Live'.from .. Live'.n - 1
      BY <1>1, <1>2, <1>3, <1>4, <2>2, <3>1
    <3>3. QED
      BY <1>5, <3>2 DEF Holds
  <2>3. QED
    BY <1>6, <2>1, <2>2 DEF Holds
<1>7. Keeps
  BY DEF InstallManifest, WriteSlot, Keeps
<1>8. QED
  BY <1>1, <1>4, <1>5, <1>6, <1>7 DEF Extends

\* Every step extends the media; only a report adds to what is acknowledged, and it
\* changes neither blocks nor slots.
LEMMA StepExtends ==
  ASSUME StoreInv, [Next]_vars, MaxPowerLoss = 0
  PROVE  /\ Extends
         /\ acked' = acked \/ (acked \subseteq acked' /\ flash' = flash /\ Live' = Live)
<1> DEFINE Quiet == Keeps /\ slot' = slot /\ acked' = acked
<1>1. Quiet => Extends /\ acked' = acked
  BY SameExtends
<1>2. TypeOK
  BY DEF StoreInv, RecordInv
<1>3. ASSUME flash' = flash, slot' = slot, acked' = acked PROVE Quiet
  BY <1>3 DEF Keeps
<1>4. ASSUME NEW a \in Appenders, NEW why, Refuse(a, why) PROVE Quiet
  BY <1>3, <1>4 DEF Refuse, mediaVars
<1>5. ASSUME NEW a \in Appenders, NEW count, StartAppend(a, count) PROVE Quiet
  BY <1>3, <1>5 DEF StartAppend, mediaVars
<1>6. ASSUME NEW a \in Appenders, FinishMount(a) PROVE Quiet
  BY <1>3, <1>4, <1>6 DEF FinishMount, mediaVars
<1>7. ASSUME NEW a \in Appenders, TakeLock(a) PROVE Quiet
  BY <1>3, <1>4, <1>7 DEF TakeLock, mediaVars
<1>8. ASSUME NEW a \in Appenders, Plan(a) PROVE Quiet
  BY <1>3, <1>4, <1>8 DEF Plan, mediaVars
<1>9. ASSUME NEW c, NEW content, Erased(c), Program(c, content), acked' = acked PROVE Quiet
  BY <1>2, <1>9, ProgramKeeps DEF Program
<1>10. ASSUME NEW a \in Appenders, ProgramPayload(a) PROVE Quiet
  BY <1>4, <1>9, <1>10 DEF ProgramPayload, ProgramBlock
<1>11. ASSUME NEW a \in Appenders, ProgramPayloadCrc(a) PROVE Quiet
  BY <1>4, <1>9, <1>11 DEF ProgramPayloadCrc, ProgramBlockCrc
<1>12. ASSUME NEW a \in Appenders, ProgramRerank(a) PROVE Quiet
  BY <1>4, <1>9, <1>12 DEF ProgramRerank, ProgramBlock
<1>13. ASSUME NEW a \in Appenders, ProgramRerankCrc(a) PROVE Quiet
  BY <1>4, <1>9, <1>13 DEF ProgramRerankCrc, ProgramBlockCrc
<1>14. ASSUME NEW a \in Appenders, EraseSlot(a) PROVE Extends /\ acked' = acked
  <2>1. Live' = Live /\ flash' = flash /\ acked' = acked
    BY <1>14, EraseLive DEF EraseSlot, WriteSlot
  <2>2. Live.valid /\ Live.sequence \in Nat
    BY <1>2, LiveType DEF StoreInv, SlotsInv, ManifestRecord
  <2>3. QED
    BY <2>1, <2>2 DEF Extends, Keeps, Holds
<1>15. ASSUME NEW a \in Appenders, InstallManifest(a) PROVE Extends /\ acked' = acked
  BY <1>15, InstallExtends DEF InstallManifest
<1>16. ASSUME NEW a \in Appenders, SyncAndReport(a)
       PROVE  Extends /\ acked \subseteq acked' /\ flash' = flash /\ Live' = Live
  <2>1. flash' = flash /\ slot' = slot /\ acked \subseteq acked'
    BY <1>16 DEF SyncAndReport
  <2>2. QED
    BY <2>1, SameExtends DEF Keeps, Live
<1>17. ASSUME NEW a \in Appenders, Kill(a) PROVE Quiet
  BY <1>3, <1>17 DEF Kill, mediaVars
<1>18. ASSUME NEW r \in Readers, StartMount(r) \/ FinishReaderMount(r) \/ Unmount(r)
       PROVE  Quiet
  BY <1>3, <1>18 DEF StartMount, FinishReaderMount, Unmount, mediaVars
<1>19. ~PowerLoss
  BY <1>2 DEF PowerLoss, TypeOK
<1>20. CASE UNCHANGED vars
  <2>1. Quiet
    BY <1>3, <1>20 DEF vars, mediaVars
  <2>2. QED
    BY <1>1, <2>1
<1> HIDE DEF Quiet
<1>21. QED
  BY <1>1, <1>5, <1>6, <1>7, <1>8, <1>10, <1>11, <1>12, <1>13, <1>14, <1>15, <1>16, <1>17,
     <1>18, <1>19, <1>20 DEF Next, Step

\* A vector a search can return is returned after any step too.
LEMMA VisibleStays == ASSUME Extends PROVE Visible \subseteq Visible'
<1> SUFFICES ASSUME NEW id \in Ids, Holds(Live, id), Readable(id)
             PROVE  <<id, VectorAt("rerank", id)>> \in Visible'
  BY DEF Visible
<1>1. id \in Nat
  BY IdsAreNat
<1>2. Holds(Live', id)
  BY <1>1 DEF Extends
<1>3. \A c \in Cell : flash[c].kind = "data" => flash'[c] = flash[c]
  BY DEF Extends, Keeps, Blank, Content
<1>4. Readable(id)' /\ VectorAt("rerank", id)' = VectorAt("rerank", id)
  <2>1. /\ CellOf("payload", id) \in Cell /\ CellOf("payloadCrc", id) \in Cell
        /\ CellOf("rerank", id) \in Cell /\ CellOf("rerankCrc", id) \in Cell
    BY DEF Readable, InRegions, CellOf, Cell
  <2>2. QED
    BY <1>3, <2>1 DEF Readable, InRegions, IntactPayload, IntactRerank, Intact, VectorAt
<1>5. QED
  BY <1>2, <1>4 DEF Visible

LEMMA VisibleFunctional == Store!Functional(Visible)
BY DEF Store!Functional, Visible

LEMMA DurableVisible == TypeOK /\ AckedDurable => Reported \subseteq Visible
<1> SUFFICES ASSUME TypeOK, AckedDurable,
                    NEW k \in acked, NEW id \in k.first .. k.first + k.count - 1
             PROVE  <<id, <<k.op, id - k.first>>>> \in Visible
  BY DEF Reported
<1>1. /\ Holds(Live, id) /\ Readable(id)
      /\ VectorAt("rerank", id) = <<k.op, id - k.first>>
  BY DEF AckedDurable
<1>2. id \in Ids
  <2> DEFINE q == id \div PerPayload
  <2>1. id \in Nat
    BY DEF TypeOK
  <2>2. q \in Nat /\ id < (q + 1) * PerPayload
    BY <2>1, DivBounds, GeometryAssumption
  <2>3. q < PayloadBlocks
    <3>1. <<"payload", q>> \in Cell
      BY <1>1 DEF Readable, InRegions, CellOf
    <3>2. q \in PayloadBlock
      BY <3>1 DEF Cell
    <3>3. QED
      BY <3>2, GeometryAssumption DEF PayloadBlock
  <2> HIDE DEF q
  <2>4. PayloadBlocks \in Nat /\ PerPayload \in Nat
    BY GeometryAssumption
  <2>5. (q + 1) * PerPayload <= PayloadBlocks * PerPayload
    BY <2>2, <2>3, <2>4, MulMono
  <2>6. (q + 1) * PerPayload \in Nat /\ PayloadBlocks * PerPayload \in Nat
    BY <2>2, <2>4
  <2>7. id < PayloadBlocks * PerPayload
    BY <2>1, <2>2, <2>5, <2>6
  <2>8. QED
    BY <2>1, <2>6, <2>7 DEF Ids
<1>3. QED
  BY <1>1, <1>2 DEF Visible

LEMMA ReportedVisible == StoreInv => Reported \subseteq Visible
BY StoreSafe, DurableVisible DEF StoreInv, RecordInv

LEMMA StoreStarts == Init => Store!StoreInit
<1> SUFFICES ASSUME Init PROVE Store!StoreInit
  OBVIOUS
<1>1. StoreInv
  BY StoreInit
<1>2. Reported \subseteq Visible
  BY <1>1, ReportedVisible
<1>3. Visible \subseteq Reported
  <2> SUFFICES ASSUME NEW id \in Ids, Holds(Live, id)
               PROVE  <<id, VectorAt("rerank", id)>> \in Reported
    BY DEF Visible
  <2> DEFINE k == [op |-> 0, first |-> 0, count |-> BuiltN]
  <2>1. BuiltN \in Nat /\ id \in Nat
    BY IdsAreNat, GeometryAssumption
  <2>2. Live.from = BuiltN /\ Live.n = BuiltN
    <3>1. slot["A"].from = BuiltN /\ slot["A"].n = BuiltN /\ ~slot["B"].valid
      BY DEF Init, BuiltManifest, Manifest, NoManifest, Slot
    <3>2. Live = slot["A"]
      BY <1>1, <3>1 DEF StoreInv, SlotsInv, Live, Select
    <3>3. QED
      BY <3>1, <3>2
  <2>3. id \in 0 .. BuiltN - 1
    BY <2>1, <2>2 DEF Holds
  <2>4. k \in acked /\ id \in k.first .. k.first + k.count - 1
    BY <2>1, <2>3 DEF Init
  <2>5. VectorAt("rerank", id) = <<k.op, id - k.first>>
    BY <1>1, <2>4, StoreSafe DEF AckedDurable
  <2>6. QED
    BY <2>4, <2>5 DEF Reported
<1>4. QED
  BY <1>2, <1>3, VisibleFunctional DEF Store!StoreInit

LEMMA StoreSteps ==
  ASSUME StoreInv, StoreInv', [Next]_vars, MaxPowerLoss = 0
  PROVE  [Store!StoreNext]_(Store!storeVars)
<1>1. Extends
  BY StepExtends
<1>2. CASE acked' = acked
  <2>1. Reported' = Reported
    BY <1>2 DEF Reported
  <2>2. Visible \subseteq Visible'
    BY <1>1, VisibleStays
  <2>3. Store!Functional(Visible)'
    BY VisibleFunctional, PTL
  <2>4. QED
    BY <2>1, <2>2, <2>3 DEF Store!StoreNext, Store!Publish, Store!Functional
<1>3. CASE acked \subseteq acked' /\ flash' = flash /\ Live' = Live
  <2>1. Reported \subseteq Reported'
    BY <1>3 DEF Reported
  <2>2. Visible' = Visible
    BY <1>3 DEF Visible, Readable, InRegions, IntactPayload, IntactRerank, Intact, VectorAt
  <2>3. Reported' \subseteq Visible'
    <3>1. (StoreInv => Reported \subseteq Visible)'
      BY ReportedVisible, PTL
    <3>2. QED
      BY <3>1
  <2>4. QED
    BY <2>1, <2>2, <2>3 DEF Store!StoreNext, Store!Report
<1>4. QED
  BY <1>2, <1>3, StepExtends

---------------------------------------------------------------------------
(* The theorems. *)

LEMMA StoreInvariant ==
  ASSUME OneAppender, MaxPowerLoss = 0
  PROVE  Spec => []StoreInv
BY StoreInit, StoreStep, PTL DEF Spec

\* What one appender reported as stored stays held, intact and its own, whatever
\* is killed.
THEOREM AckedStaysDurable ==
  ASSUME OneAppender, MaxPowerLoss = 0
  PROVE  Spec => []AckedDurable
BY StoreInvariant, StoreSafe, PTL

\* The volume always mounts: the slot that is erased is never the live one.
THEOREM AlwaysMounts ==
  ASSUME OneAppender, MaxPowerLoss = 0
  PROVE  Spec => []LiveManifestExists
BY StoreInvariant, StoreSafe, PTL

\* A mount that reads its two slots while manifests are installed is recent, or
\* fails because one was.
THEOREM MountsAreRecent ==
  ASSUME OneAppender, MaxPowerLoss = 0
  PROVE  Spec => []MountRecent
BY StoreInvariant, StoreSafe, PTL

\* An install never undoes an install.
THEOREM ManifestNeverRegresses ==
  ASSUME OneAppender, MaxPowerLoss = 0
  PROVE  Spec => LiveNeverRegresses
<1>1. StoreInv /\ [Next]_vars => [Live'.valid /\ Live'.sequence >= Live.sequence]_slot
  BY StepExtends DEF Extends
<1>2. QED
  BY <1>1, StoreInvariant, PTL DEF Spec, LiveNeverRegresses

\* The appended volume implements the insert-only store.
THEOREM VolumeImplementsStore ==
  ASSUME OneAppender, MaxPowerLoss = 0
  PROVE  Spec => ImplementsStore
<1>1. StoreInv /\ StoreInv' /\ [Next]_vars => [Store!StoreNext]_(Store!storeVars)
  BY StoreSteps
<1>2. QED
  BY <1>1, StoreStarts, StoreInvariant, PTL DEF Spec, ImplementsStore, Store!StoreSpec
=============================================================================
