---------------------------- MODULE PowerProofs ----------------------------
(***************************************************************************)
(* What one appender promises when the machine may lose its power, no      *)
(* process being killed otherwise: the volume mounts after any number of   *)
(* losses, and one loss takes nothing that was acknowledged.               *)
(*                                                                         *)
(* A second loss can (README, section 5): an append that was refused half  *)
(* way leaves blocks that nothing made durable, and the next one builds on *)
(* them.  Before the first loss no append is refused (RaceProofs), so what *)
(* a loss finds unsynced is of the batch being written, and of that alone. *)
(***************************************************************************)
EXTENDS RaceProofs

---------------------------------------------------------------------------
(* The slots. *)

\* A slot verifies, and nothing the device may hold in a slot is a manifest
\* whose successor is written there.
SlotsSound ==
  /\ Live.valid
  /\ \A s \in Slot :
       /\ slot[s] \in slotDisk[s]
       /\ \A m \in slotDisk[s] :
            m.valid =>
              /\ BuiltN <= m.from /\ m.from <= m.n
              /\ NextSlot(m.sequence) # s

\* While a slot is replaced the other holds, on the device too, the manifest
\* the append extends, and nothing newer is in the slot but its successor.
Replacing(a) ==
  /\ call[a].before.valid
  /\ \A s \in Slot \ {TargetSlot(a)} :
       slot[s] = call[a].before /\ slotDisk[s] = {call[a].before}
  /\ \A m \in slotDisk[TargetSlot(a)] :
       \/ pc[a] = "sync" /\ m = Updated(a)
       \/ m.valid => m.sequence <= call[a].before.sequence
  /\ pc[a] = "sync" => slot[TargetSlot(a)] = Updated(a)

CallExtends(a) ==
  /\ pc[a] = "mounting" => call[a].slotA = slot["A"]
  /\ pc[a] \in {"mounted", "locked", "erase", "install"} \cup Programming =>
       call[a].before = Live
  /\ pc[a] \in {"install", "sync"} => Replacing(a)

\* When no slot is being replaced the device holds what processes see.
Settled ==
  (\A a \in Appenders : pc[a] \notin {"install", "sync"}) =>
    \A s \in Slot : slotDisk[s] = {slot[s]}

SlotInv ==
  /\ TypeOK
  /\ SlotsSound
  /\ Settled
  /\ \A a \in Appenders : CallExtends(a)

LEMMA LiveSound ==
  ASSUME TypeOK, SlotsSound
  PROVE  /\ Live \in ManifestRecord /\ Live.sequence \in Nat
         /\ BuiltN <= Live.from /\ Live.from <= Live.n
         /\ \E s \in Slot : /\ slot[s] = Live
                            /\ s # NextSlot(Live.sequence)
                            /\ \A t \in Slot : t = s \/ t = NextSlot(Live.sequence)
         /\ NextSlot(Live.sequence) \in Slot
         /\ \A s \in Slot : slot[s].valid => slot[s].sequence <= Live.sequence
<1>1. \A s \in Slot : slot[s] \in ManifestRecord /\ slot[s].sequence \in Nat
  BY DEF TypeOK, ManifestRecord
<1>2. PICK s \in Slot : slot[s] = Live
  BY DEF Live, Select, Slot
<1>3. /\ Live.valid
      /\ BuiltN <= Live.from /\ Live.from <= Live.n /\ NextSlot(Live.sequence) # s
  BY <1>2 DEF SlotsSound
<1>4. \A t \in Slot : slot[t].valid => slot[t].sequence <= Live.sequence
  BY <1>1, <1>3 DEF Live, Select, Slot
<1>5. QED
  BY <1>1, <1>2, <1>3, <1>4 DEF NextSlot, Slot

\* A step of the appender that leaves the slots alone.
LEMMA MoveSlots ==
  ASSUME SlotInv, TypeOK', OneAppender, NEW a \in Appenders,
         slot' = slot, slotDisk' = slotDisk,
         pc[a] \notin {"install", "sync"}, pc'[a] \notin {"install", "sync"},
         CallExtends(a)'
  PROVE  SlotInv'
<1>1. Live' = Live
  BY DEF Live
<1>2. SlotsSound'
  BY <1>1 DEF SlotInv, SlotsSound
<1>3. Settled'
  BY DEF SlotInv, Settled, OneAppender
<1>4. \A b \in Appenders : CallExtends(b)'
  BY DEF OneAppender
<1>5. QED
  BY <1>2, <1>3, <1>4 DEF SlotInv

\* A step of nobody's append.
LEMMA OtherSlots ==
  ASSUME SlotInv, TypeOK', UNCHANGED <<slot, slotDisk, pc, call>>
  PROVE  SlotInv'
<1>1. Live' = Live
  BY DEF Live
<1>2. \A a \in Appenders : CallExtends(a)'
  BY <1>1 DEF SlotInv, CallExtends, Replacing, TargetSlot, Updated
<1>3. QED
  BY <1>1, <1>2 DEF SlotInv, SlotsSound, Settled

LEMMA RefuseSlots ==
  ASSUME SlotInv, TypeOK', OneAppender, NEW a \in Appenders, NEW why, Refuse(a, why),
         pc[a] \notin {"install", "sync"}
  PROVE  SlotInv'
<1>1. pc'[a] = "idle" /\ slot' = slot /\ slotDisk' = slotDisk
  BY DEF Refuse, Return, Goto, mediaVars, SlotInv, TypeOK
<1>2. CallExtends(a)'
  BY <1>1 DEF CallExtends, Programming
<1>3. QED
  BY <1>1, <1>2, MoveSlots

LEMMA StartSlots ==
  ASSUME SlotInv, TypeOK', OneAppender, NEW a \in Appenders, NEW count,
         StartAppend(a, count)
  PROVE  SlotInv'
<1>1. /\ pc[a] = "idle" /\ pc'[a] = "mounting"
      /\ slot' = slot /\ slotDisk' = slotDisk
      /\ call'[a].slotA = slot["A"]
  BY DEF StartAppend, Goto, mediaVars, SlotInv, TypeOK, CallRecord
<1>2. CallExtends(a)'
  BY <1>1 DEF CallExtends, Programming
<1>3. QED
  BY <1>1, <1>2, MoveSlots

LEMMA FinishMountSlots ==
  ASSUME SlotInv, TypeOK', OneAppender, NEW a \in Appenders, FinishMount(a)
  PROVE  SlotInv'
<1>1. pc[a] = "mounting"
  BY DEF FinishMount
<1>2. CASE \E why : Refuse(a, why)
  BY <1>1, <1>2, RefuseSlots
<1>3. CASE /\ Goto(a, "mounted")
           /\ call' = [call EXCEPT ![a].before = MountedManifest(a)]
           /\ UNCHANGED <<mediaVars, outcome, lock, reader, boundVars, acked>>
  <2>1. MountedManifest(a) = Live
    BY <1>1 DEF MountedManifest, Live, SlotInv, CallExtends
  <2>2. /\ pc'[a] = "mounted" /\ slot' = slot /\ slotDisk' = slotDisk
        /\ call'[a].before = Live
    BY <1>3, <2>1 DEF Goto, mediaVars, SlotInv, TypeOK, CallRecord
  <2>3. CallExtends(a)'
    BY <2>2 DEF CallExtends, Programming, Live
  <2>4. QED
    BY <1>1, <2>2, <2>3, MoveSlots
<1>4. QED
  BY <1>2, <1>3 DEF FinishMount

LEMMA TakeLockSlots ==
  ASSUME SlotInv, TypeOK', OneAppender, NEW a \in Appenders, TakeLock(a)
  PROVE  SlotInv'
<1>1. pc[a] = "mounted"
  BY DEF TakeLock
<1>2. CASE \E why : Refuse(a, why)
  BY <1>1, <1>2, RefuseSlots
<1>3. CASE /\ Goto(a, "locked")
           /\ UNCHANGED <<mediaVars, call, outcome, reader, boundVars, acked>>
  <2>1. pc'[a] = "locked" /\ slot' = slot /\ slotDisk' = slotDisk /\ call' = call
    BY <1>3 DEF Goto, mediaVars, SlotInv, TypeOK
  <2>2. CallExtends(a)'
    BY <1>1, <2>1 DEF SlotInv, CallExtends, Programming, Live
  <2>3. QED
    BY <1>1, <2>1, <2>2, MoveSlots
<1>4. QED
  BY <1>2, <1>3 DEF TakeLock

\* The steps from the lock to the last CRC word leave the manifest in hand alone.
LEMMA WriteSlots ==
  ASSUME SlotInv, TypeOK', OneAppender, NEW a \in Appenders,
         pc[a] \in {"locked"} \cup Programming,
         pc'[a] \in {"erase"} \cup Programming,
         slot' = slot, slotDisk' = slotDisk, call'[a].before = call[a].before
  PROVE  SlotInv'
<1>1. CallExtends(a)'
  BY DEF SlotInv, CallExtends, Programming, Live
<1>2. QED
  BY <1>1, MoveSlots DEF Programming

LEMMA PlanSlots ==
  ASSUME SlotInv, TypeOK', OneAppender, NEW a \in Appenders, Plan(a)
  PROVE  SlotInv'
<1>1. pc[a] = "locked"
  BY DEF Plan
<1>2. CASE \E why : Refuse(a, why)
  BY <1>1, <1>2, RefuseSlots
<1>3. ASSUME NEW b \in PayloadBlock,
             /\ Goto(a, "payload")
             /\ call' = [call EXCEPT ![a].head = b, ![a].headRerank = HeadRerank(b)]
             /\ UNCHANGED <<mediaVars, outcome, lock, reader, boundVars, acked>>
      PROVE  SlotInv'
  <2>1. /\ pc'[a] = "payload" /\ slot' = slot /\ slotDisk' = slotDisk
        /\ call'[a].before = call[a].before
    BY <1>3 DEF Goto, mediaVars, SlotInv, TypeOK, CallRecord
  <2>2. QED
    BY <1>1, <2>1, WriteSlots DEF Programming
<1>4. QED
  BY <1>2, <1>3 DEF Plan

LEMMA ProgramSlots ==
  ASSUME SlotInv, TypeOK', OneAppender, NEW a \in Appenders,
         \/ ProgramPayload(a) \/ ProgramPayloadCrc(a)
         \/ ProgramRerank(a) \/ ProgramRerankCrc(a)
  PROVE  SlotInv'
<1>1. pc[a] \in Programming
  BY DEF Programming, ProgramPayload, ProgramPayloadCrc, ProgramRerank, ProgramRerankCrc
<1>2. CASE \E why : Refuse(a, why)
  BY <1>1, <1>2, RefuseSlots DEF Programming
<1>3. CASE \E c, content : /\ Program(c, content)
                           /\ pc'[a] \in {"erase"} \cup Programming
                           /\ call'[a].before = call[a].before
  BY <1>1, <1>3, WriteSlots DEF Program
<1>4. pc \in [Appenders -> PcLabel] /\ call \in [Appenders -> CallRecord]
  BY DEF SlotInv, TypeOK
<1>5. ASSUME NEW region, NEW block, NEW base, NEW next \in {"erase"} \cup Programming,
             ProgramBlock(a, region, block, base, next)
      PROVE  SlotInv'
  <2>1. CASE Refuse(a, "refused")
    BY <1>2, <2>1
  <2>2. CASE /\ Program(<<region, block>>, Data(call[a].op, base))
             /\ Goto(a, next)
             /\ UNCHANGED <<call, outcome, lock, reader, boundVars, acked>>
    BY <1>3, <1>4, <2>2 DEF Goto
  <2>3. QED
    BY <1>5, <2>1, <2>2 DEF ProgramBlock
<1>6. ASSUME NEW crc, NEW block, NEW base, NEW done,
             NEW more \in {"erase"} \cup Programming,
             NEW next \in {"erase"} \cup Programming,
             ProgramBlockCrc(a, crc, block, base, done, more, next)
      PROVE  SlotInv'
  <2>1. CASE Refuse(a, "refused")
    BY <1>2, <2>1
  <2>2. CASE /\ Program(<<crc, block>>, Data(call[a].op, base))
             /\ Goto(a, IF done THEN next ELSE more)
             /\ call' = [call EXCEPT ![a].part = IF done THEN 0 ELSE @ + 1]
    <3>1. pc'[a] \in {"erase"} \cup Programming
      BY <1>4, <2>2 DEF Goto
    <3>2. call'[a].before = call[a].before
      BY <1>4, <2>2 DEF CallRecord
    <3>3. QED
      BY <1>3, <2>2, <3>1, <3>2
  <2>3. QED
    BY <1>6, <2>1, <2>2 DEF ProgramBlockCrc
<1>7. QED
  BY <1>5, <1>6
     DEF ProgramPayload, ProgramPayloadCrc, ProgramRerank, ProgramRerankCrc, Programming

LEMMA EraseSlots ==
  ASSUME SlotInv, TypeOK', OneAppender, NEW a \in Appenders, EraseSlot(a)
  PROVE  SlotInv' /\ Live' = Live
<1> DEFINE T == NextSlot(Live.sequence)
<1>1. /\ pc[a] = "erase" /\ pc'[a] = "install" /\ call' = call
      /\ call[a].before = Live /\ TypeOK /\ SlotsSound
  BY DEF EraseSlot, Goto, SlotInv, CallExtends, TypeOK
<1>2. /\ Live \in ManifestRecord /\ Live.valid /\ T \in Slot
      /\ \A s \in Slot : slot[s].valid => slot[s].sequence <= Live.sequence
  BY <1>1, LiveSound DEF SlotsSound
<1>3. PICK s \in Slot : slot[s] = Live /\ s # T /\ \A t \in Slot : t = s \/ t = T
  BY <1>1, LiveSound
<1>4. \A t \in Slot : slotDisk[t] = {slot[t]}
  BY <1>1 DEF SlotInv, Settled, OneAppender
<1>5. /\ slot'[T] = NoManifest /\ slot'[s] = Live
      /\ slotDisk'[T] = {slot[T], NoManifest} /\ slotDisk'[s] = {Live}
  BY <1>1, <1>2, <1>3, <1>4 DEF EraseSlot, WriteSlot, TargetSlot, TypeOK
<1>6. Live' = Live
  BY <1>2, <1>3, <1>5 DEF Live, Select, Slot, NoManifest
<1>7. SlotsSound'
  <2>1. \A m \in slotDisk'[T] : m.valid => m \in slotDisk[T]
    BY <1>2, <1>4, <1>5 DEF NoManifest
  <2>2. QED
    BY <1>1, <1>2, <1>3, <1>4, <1>5, <1>6, <2>1 DEF SlotsSound
<1>8. CallExtends(a)'
  <2>1. TargetSlot(a)' = T
    BY <1>1 DEF TargetSlot
  <2>2. \A m \in slotDisk'[T] : m.valid => m.sequence <= Live.sequence
    BY <1>2, <1>5 DEF NoManifest
  <2>3. Replacing(a)'
    BY <1>1, <1>2, <1>3, <1>5, <2>1, <2>2 DEF Replacing
  <2>4. QED
    BY <1>1, <1>6, <2>3 DEF CallExtends, Programming
<1>9. Settled'
  BY <1>1 DEF Settled
<1>10. \A b \in Appenders : CallExtends(b)'
  BY <1>8 DEF OneAppender
<1>11. QED
  BY <1>6, <1>7, <1>9, <1>10 DEF SlotInv

\* What the new manifest says, verifying or not.
LEMMA UpdatedSound ==
  ASSUME TypeOK, NEW a \in Appenders
  PROVE  LET u == Updated(a)
             first == FirstId(call[a].head)
         IN  /\ u.sequence = call[a].before.sequence + 1
             /\ u.n = first + call[a].count
             /\ u.from = IF Appended(call[a].before) = 0 THEN first ELSE call[a].before.from
             /\ u.valid = (BuiltN <= u.from /\ u.from <= u.n)
             /\ NextSlot(u.sequence) # TargetSlot(a)
<1>1. call[a].before.sequence \in Nat
  BY CallFacts DEF ManifestRecord
<1>2. Updated(a).sequence = call[a].before.sequence + 1
  BY DEF Updated, Manifest
<1>3. NextSlot(Updated(a).sequence) # TargetSlot(a)
  BY <1>1, <1>2 DEF NextSlot, TargetSlot
<1>4. QED
  BY <1>2, <1>3 DEF Updated, Manifest

LEMMA InstallSlots ==
  ASSUME SlotInv, TypeOK', OneAppender, NEW a \in Appenders, InstallManifest(a)
  PROVE  SlotInv'
<1> DEFINE T == TargetSlot(a)
           before == call[a].before
<1>1. /\ pc[a] = "install" /\ pc'[a] = "sync" /\ call' = call
      /\ TypeOK /\ SlotsSound /\ Replacing(a)
  BY DEF InstallManifest, Goto, SlotInv, CallExtends, TypeOK
<1>2. T \in Slot
  BY DEF TargetSlot, NextSlot, Slot
<1>3. PICK s \in Slot : s # T /\ \A t \in Slot : t = s \/ t = T
  BY <1>2 DEF Slot
<1>4. slot[s] = before /\ slotDisk[s] = {before} /\ before.valid
  BY <1>1, <1>3 DEF Replacing
<1>5. /\ slot'[T] = Updated(a) /\ slot'[s] = before
      /\ slotDisk'[T] = slotDisk[T] \cup {NoManifest, Updated(a)}
      /\ slotDisk'[s] = {before}
  BY <1>1, <1>2, <1>3, <1>4 DEF InstallManifest, WriteSlot, TypeOK
<1>6. Live'.valid
  BY <1>2, <1>3, <1>4, <1>5 DEF Live, Select, Slot
<1>7. SlotsSound'
  <2>1. ASSUME NEW m \in slotDisk'[T], m.valid
        PROVE  BuiltN <= m.from /\ m.from <= m.n /\ NextSlot(m.sequence) # T
    <3>1. m = Updated(a) \/ m \in slotDisk[T]
      BY <1>5, <2>1 DEF NoManifest
    <3>2. QED
      BY <1>1, <1>2, <2>1, <3>1, UpdatedSound DEF SlotsSound
  <2>2. before \in slotDisk[s]
    BY <1>4
  <2>3. ASSUME NEW t \in Slot
        PROVE  /\ slot'[t] \in slotDisk'[t]
               /\ \A m \in slotDisk'[t] :
                    m.valid => BuiltN <= m.from /\ m.from <= m.n /\ NextSlot(m.sequence) # t
    <3>1. CASE t = T
      BY <1>5, <2>1, <3>1
    <3>2. CASE t = s
      BY <1>1, <1>5, <2>2, <3>2 DEF SlotsSound
    <3>3. QED
      BY <1>3, <3>1, <3>2
  <2>4. QED
    BY <1>6, <2>3 DEF SlotsSound
<1>8. CallExtends(a)'
  <2>1. TargetSlot(a)' = T /\ Updated(a)' = Updated(a)
    BY <1>1 DEF TargetSlot, Updated
  <2>2. \A m \in slotDisk'[T] :
          m = Updated(a) \/ (m.valid => m.sequence <= before.sequence)
    BY <1>1, <1>5 DEF Replacing, NoManifest
  <2>3. Replacing(a)'
    BY <1>1, <1>3, <1>4, <1>5, <2>1, <2>2 DEF Replacing
  <2>4. QED
    BY <1>1, <2>3 DEF CallExtends, Programming
<1>9. Settled'
  BY <1>1 DEF Settled
<1>10. \A b \in Appenders : CallExtends(b)'
  BY <1>8 DEF OneAppender
<1>11. QED
  BY <1>7, <1>9, <1>10 DEF SlotInv

LEMMA ReportSlots ==
  ASSUME SlotInv, TypeOK', OneAppender, NEW a \in Appenders, SyncAndReport(a)
  PROVE  SlotInv'
<1>1. /\ slot' = slot /\ pc'[a] = "idle"
      /\ \A s \in Slot : slotDisk'[s] = {slot[s]}
  BY DEF SyncAndReport, Return, Goto, SlotInv, TypeOK
<1>2. Live' = Live
  BY <1>1 DEF Live
<1>3. SlotsSound'
  BY <1>1, <1>2 DEF SlotInv, SlotsSound
<1>4. Settled'
  BY <1>1 DEF Settled
<1>5. \A b \in Appenders : CallExtends(b)'
  BY <1>1 DEF CallExtends, Programming, OneAppender
<1>6. QED
  BY <1>3, <1>4, <1>5 DEF SlotInv

\* Whatever the device kept of the slot being replaced, the other one is there.
LEMMA LossSlots ==
  ASSUME SlotInv, TypeOK', OneAppender, PowerLoss
  PROVE  SlotInv'
<1>1. PICK x \in slotDisk["A"], y \in slotDisk["B"] :
        slot' = [s \in Slot |-> IF s = "A" THEN x ELSE y]
  BY DEF PowerLoss
<1>2. /\ \A s \in Slot : slot'[s] \in slotDisk[s] /\ slotDisk'[s] = {slot'[s]}
      /\ \A a \in Appenders : pc'[a] = "idle"
  BY <1>1 DEF PowerLoss, Slot
<1>3. \E s \in Slot : slot'[s].valid
  <2>1. CASE \A a \in Appenders : pc[a] \notin {"install", "sync"}
    <3>1. \A s \in Slot : slot'[s] = slot[s]
      BY <1>2, <2>1 DEF SlotInv, Settled
    <3>2. \E s \in Slot : slot[s].valid
      BY LiveSound DEF SlotInv, SlotsSound
    <3>3. QED
      BY <3>1, <3>2
  <2>2. ASSUME NEW a \in Appenders, pc[a] \in {"install", "sync"}
        PROVE  \E s \in Slot : slot'[s].valid
    <3>1. Replacing(a) /\ \E s \in Slot : s # TargetSlot(a)
      BY <2>2 DEF SlotInv, CallExtends, Slot
    <3>2. QED
      BY <1>2, <3>1 DEF Replacing
  <2>3. QED
    BY <2>1, <2>2
<1>4. Live'.valid
  BY <1>3 DEF Live, Select, Slot
<1>5. SlotsSound'
  BY <1>2, <1>4 DEF SlotInv, SlotsSound
<1>6. Settled' /\ \A a \in Appenders : CallExtends(a)'
  BY <1>2 DEF Settled, CallExtends, Programming
<1>7. QED
  BY <1>5, <1>6 DEF SlotInv

LEMMA SlotInit == Init => SlotInv
<1> SUFFICES ASSUME Init PROVE SlotInv
  OBVIOUS
<1>1. /\ slot["A"] = BuiltManifest /\ slot["B"] = NoManifest
      /\ \A s \in Slot : slotDisk[s] = {slot[s]}
      /\ \A a \in Appenders : pc[a] = "idle"
  BY DEF Init, Slot
<1>2. BuiltN \in Nat /\ BuiltN <= BuiltN
  BY GeometryAssumption
<1>3. /\ BuiltManifest.sequence = 1 /\ BuiltManifest.n = BuiltN
      /\ BuiltManifest.from = BuiltN
      /\ BuiltManifest.valid = (BuiltN <= BuiltN /\ BuiltN <= BuiltN)
  BY Zenon DEF BuiltManifest, Manifest
<1>4. BuiltManifest.valid /\ ~NoManifest.valid
  BY <1>2, <1>3 DEF NoManifest
<1>5. Live = BuiltManifest
  BY <1>1, <1>4 DEF Live, Select
<1>6. SlotsSound
  BY <1>1, <1>2, <1>3, <1>4, <1>5 DEF SlotsSound, NextSlot, Slot
<1>7. Settled /\ \A a \in Appenders : CallExtends(a)
  BY <1>1 DEF Settled, CallExtends, Programming
<1>8. QED
  BY <1>6, <1>7, TypeInit DEF SlotInv

LEMMA SlotStep ==
  ASSUME OneAppender, MaxKills = 0
  PROVE  SlotInv /\ [Next]_vars => SlotInv'
<1> SUFFICES ASSUME SlotInv, [Next]_vars PROVE SlotInv'
  OBVIOUS
<1>1. TypeOK'
  BY TypeStep DEF SlotInv
<1>2. ASSUME NEW a \in Appenders, NEW count, StartAppend(a, count) PROVE SlotInv'
  BY <1>1, <1>2, StartSlots
<1>3. ASSUME NEW a \in Appenders, FinishMount(a) PROVE SlotInv'
  BY <1>1, <1>3, FinishMountSlots
<1>4. ASSUME NEW a \in Appenders, TakeLock(a) PROVE SlotInv'
  BY <1>1, <1>4, TakeLockSlots
<1>5. ASSUME NEW a \in Appenders, Plan(a) PROVE SlotInv'
  BY <1>1, <1>5, PlanSlots
<1>6. ASSUME NEW a \in Appenders,
             \/ ProgramPayload(a) \/ ProgramPayloadCrc(a)
             \/ ProgramRerank(a) \/ ProgramRerankCrc(a)
      PROVE  SlotInv'
  BY <1>1, <1>6, ProgramSlots
<1>7. ASSUME NEW a \in Appenders, EraseSlot(a) PROVE SlotInv'
  BY <1>1, <1>7, EraseSlots
<1>8. ASSUME NEW a \in Appenders, InstallManifest(a) PROVE SlotInv'
  BY <1>1, <1>8, InstallSlots
<1>9. ASSUME NEW a \in Appenders, SyncAndReport(a) PROVE SlotInv'
  BY <1>1, <1>9, ReportSlots
<1>10. \A a \in Appenders : ~Kill(a)
  BY DEF Kill, SlotInv, TypeOK
<1>11. ASSUME NEW r \in Readers, StartMount(r) \/ FinishReaderMount(r) \/ Unmount(r)
       PROVE  SlotInv'
  BY <1>1, <1>11, OtherSlots
     DEF StartMount, FinishReaderMount, Unmount, mediaVars, callVars
<1>12. ASSUME PowerLoss PROVE SlotInv'
  BY <1>1, <1>12, LossSlots
<1>13. CASE UNCHANGED vars
  BY <1>1, <1>13, OtherSlots DEF vars, mediaVars, callVars
<1>14. QED
  BY <1>2, <1>3, <1>4, <1>5, <1>6, <1>7, <1>8, <1>9, <1>10, <1>11, <1>12, <1>13
     DEF Next, Step

---------------------------------------------------------------------------
(* What an append leaves in the blocks. *)

\* No head lies among the first n ids.
FilledTo(n) ==
  \A b \in PayloadBlock : b * PerPayload < n => flash[<<"payload", b>>] # Blank

\* An append writes past all that was acknowledged and past where the appended
\* run begins, though after a power loss not past all that the live manifest
\* names.
CallPast(a) ==
  /\ pc[a] \in {"mounting", "mounted", "locked"} => call[a].part = 0
  /\ pc[a] \in {"mounted"} \cup Writing => WholeUnits(call[a].count)
  /\ pc[a] \in Past =>
       /\ call[a].headRerank = HeadRerank(call[a].head)
       /\ BatchWritten(a)
       /\ FilledTo(FirstId(call[a].head))
       /\ call[a].before.from <= FirstId(call[a].head)
       /\ \A k \in acked : /\ k.first + k.count <= FirstId(call[a].head)
                           /\ KeptBy(call[a].before, k)

AckedStored ==
  \A k \in acked :
    /\ k.count # 0
    /\ KeptBy(Live, k)
    /\ FilledTo(k.first + k.count)
    /\ \A id \in k.first .. k.first + k.count - 1 : StoredAt(id, k.op, k.first)

KeepInv ==
  /\ SlotInv
  /\ FilledTo(Live.from)
  /\ AckedStored
  /\ \A a \in Appenders : CallPast(a)

LEMMA FilledStays ==
  ASSUME Keeps, NEW n, FilledTo(n)
  PROVE  \A b \in PayloadBlock : b * PerPayload < n => flash'[<<"payload", b>>] # Blank
<1>1. \A b \in PayloadBlock : <<"payload", b>> \in Cell
  BY DEF Cell
<1>2. QED
  BY <1>1 DEF FilledTo, Keeps

LEMMA StoredStays ==
  ASSUME Keeps, NEW id, NEW op, NEW base, StoredAt(id, op, base)
  PROVE  StoredAt(id, op, base)'
BY HoldingStays DEF StoredAt, Holding

\* A step that adds nothing to what was acknowledged and keeps the live manifest.
LEMMA MoveKeep ==
  ASSUME KeepInv, SlotInv', Keeps, Live' = Live, acked' = acked,
         \A a \in Appenders : CallPast(a)'
  PROVE  KeepInv'
<1>1. FilledTo(Live.from)'
  BY FilledStays DEF KeepInv, FilledTo
<1>2. AckedStored'
  <2> SUFFICES ASSUME NEW k \in acked
               PROVE  /\ k.count # 0
                      /\ KeptBy(Live', k)
                      /\ FilledTo(k.first + k.count)'
                      /\ \A id \in k.first .. k.first + k.count - 1 :
                           StoredAt(id, k.op, k.first)'
    BY DEF AckedStored, KeptBy, FilledTo
  <2>1. /\ k.count # 0
        /\ KeptBy(Live, k)
        /\ FilledTo(k.first + k.count)
        /\ \A id \in k.first .. k.first + k.count - 1 : StoredAt(id, k.op, k.first)
    BY DEF KeepInv, AckedStored
  <2>2. FilledTo(k.first + k.count)'
    BY <2>1, FilledStays DEF FilledTo
  <2>3. QED
    BY <2>1, <2>2, StoredStays
<1>3. QED
  BY <1>1, <1>2 DEF KeepInv

\* A call that ends, or is not past its plan.
LEMMA EarlyKeep ==
  ASSUME KeepInv, SlotInv', OneAppender, NEW a \in Appenders,
         flash' = flash, slot' = slot, acked' = acked,
         pc'[a] \in {"idle", "mounting", "mounted", "locked"},
         pc'[a] # "idle" => call'[a].part = 0,
         pc'[a] \in {"mounted", "locked"} => WholeUnits(call'[a].count)
  PROVE  KeepInv'
<1>1. CallPast(a)'
  BY DEF CallPast, Past, Programming, Writing, WholeUnits
<1>2. \A b \in Appenders : CallPast(b)'
  BY <1>1 DEF OneAppender
<1>3. Keeps /\ Live' = Live
  BY DEF Keeps, Live
<1>4. QED
  BY <1>2, <1>3, MoveKeep

LEMMA RefuseKeep ==
  ASSUME KeepInv, SlotInv', OneAppender, NEW a \in Appenders, NEW why, Refuse(a, why)
  PROVE  KeepInv'
<1>1. /\ pc'[a] = "idle" /\ flash' = flash /\ slot' = slot /\ acked' = acked
  BY DEF Refuse, Return, Goto, mediaVars, KeepInv, SlotInv, TypeOK
<1>2. QED
  BY <1>1, EarlyKeep

LEMMA OtherKeep ==
  ASSUME KeepInv, SlotInv', UNCHANGED <<flash, slot, acked, pc, call>>
  PROVE  KeepInv'
<1>1. Keeps /\ Live' = Live
  BY DEF Keeps, Live
<1>2. ASSUME NEW a \in Appenders PROVE CallPast(a)'
  <2>1. BatchWritten(a) => BatchWritten(a)'
    BY DEF BatchWritten, BatchCells, Begin, Wrote, Holding, FirstId
  <2>2. QED
    BY <2>1 DEF KeepInv, CallPast, FilledTo, FirstId, HeadRerank, WholeUnits, KeptBy
<1>3. QED
  BY <1>1, <1>2, MoveKeep

LEMMA StartKeep ==
  ASSUME KeepInv, SlotInv', OneAppender, NEW a \in Appenders, NEW count,
         StartAppend(a, count)
  PROVE  KeepInv'
<1>1. /\ pc'[a] = "mounting" /\ flash' = flash /\ slot' = slot /\ acked' = acked
      /\ call'[a].part = 0
  BY DEF StartAppend, Goto, mediaVars, KeepInv, SlotInv, TypeOK, CallRecord, NoCall
<1>2. QED
  BY <1>1, EarlyKeep

LEMMA FinishMountKeep ==
  ASSUME KeepInv, SlotInv', OneAppender, NEW a \in Appenders, FinishMount(a)
  PROVE  KeepInv'
<1>1. CASE \E why : Refuse(a, why)
  BY <1>1, RefuseKeep
<1>2. CASE /\ WholeUnits(call[a].count)
           /\ Goto(a, "mounted")
           /\ call' = [call EXCEPT ![a].before = MountedManifest(a)]
           /\ UNCHANGED <<mediaVars, outcome, lock, reader, boundVars, acked>>
  <2>1. call[a].part = 0
    BY DEF FinishMount, KeepInv, CallPast
  <2>2. /\ pc'[a] = "mounted" /\ flash' = flash /\ slot' = slot
        /\ call'[a].part = 0 /\ call'[a].count = call[a].count
    BY <1>2, <2>1 DEF Goto, mediaVars, KeepInv, SlotInv, TypeOK, CallRecord
  <2>3. QED
    BY <1>2, <2>2, EarlyKeep
<1>3. QED
  BY <1>1, <1>2 DEF FinishMount

LEMMA TakeLockKeep ==
  ASSUME KeepInv, SlotInv', OneAppender, NEW a \in Appenders, TakeLock(a)
  PROVE  KeepInv'
<1>1. CASE \E why : Refuse(a, why)
  BY <1>1, RefuseKeep
<1>2. CASE /\ Goto(a, "locked")
           /\ UNCHANGED <<mediaVars, call, outcome, reader, boundVars, acked>>
  <2>1. call[a].part = 0 /\ WholeUnits(call[a].count)
    BY DEF TakeLock, KeepInv, CallPast
  <2>2. pc'[a] = "locked" /\ flash' = flash /\ slot' = slot /\ call' = call
    BY <1>2 DEF Goto, mediaVars, KeepInv, SlotInv, TypeOK
  <2>3. QED
    BY <1>2, <2>1, <2>2, EarlyKeep
<1>3. QED
  BY <1>1, <1>2 DEF TakeLock

\* The head is an erased block, so it lies past all that is filled.
LEMMA HeadPast ==
  ASSUME NEW b \in PayloadBlock, IsHead(b), NEW n \in Nat, FilledTo(n)
  PROVE  n <= FirstId(b)
<1>1. b \in Nat /\ b * PerPayload \in Nat
  BY GeometryAssumption DEF PayloadBlock
<1>2. flash[<<"payload", b>>] = Blank
  BY DEF IsHead, Erased
<1>3. QED
  BY <1>1, <1>2 DEF FilledTo, FirstId

LEMMA HeadFilled ==
  ASSUME NEW b \in PayloadBlock, IsHead(b)
  PROVE  FilledTo(FirstId(b))
<1> SUFFICES ASSUME NEW c \in PayloadBlock, c * PerPayload < b * PerPayload
             PROVE  flash[<<"payload", c>>] # Blank
  BY DEF FilledTo, FirstId
<1>1. b \in Nat /\ c \in Nat /\ b * PerPayload \in Nat /\ c * PerPayload \in Nat
  BY GeometryAssumption DEF PayloadBlock
<1>2. c < b
  <2>1. b <= c => b * PerPayload <= c * PerPayload
    BY <1>1, MulMono, GeometryAssumption
  <2>2. QED
    BY <1>1, <2>1
<1>3. c \in 0 .. b - 1 /\ <<"payload", c>> \in Cell
  BY <1>1, <1>2 DEF Cell
<1>4. QED
  BY <1>3 DEF IsHead, Erased

LEMMA PlanKeep ==
  ASSUME KeepInv, SlotInv', OneAppender, NEW a \in Appenders, Plan(a)
  PROVE  KeepInv'
<1>1. CASE \E why : Refuse(a, why)
  BY <1>1, RefuseKeep
<1>2. ASSUME NEW b \in PayloadBlock, IsHead(b),
             /\ Goto(a, "payload")
             /\ call' = [call EXCEPT ![a].head = b, ![a].headRerank = HeadRerank(b)]
             /\ UNCHANGED <<mediaVars, outcome, lock, reader, boundVars, acked>>
      PROVE  KeepInv'
  <2>1. pc[a] = "locked" /\ TypeOK
    BY DEF Plan, KeepInv, SlotInv
  <2>2. call[a].part = 0 /\ WholeUnits(call[a].count) /\ call[a].before = Live
    BY <2>1 DEF KeepInv, CallPast, SlotInv, CallExtends, Writing
  <2>3. /\ pc'[a] = "payload" /\ flash' = flash /\ slot' = slot /\ acked' = acked
        /\ call'[a].head = b /\ call'[a].headRerank = HeadRerank(b)
        /\ call'[a].part = 0 /\ call'[a].count = call[a].count
        /\ call'[a].before = Live
    BY <1>2, <2>1, <2>2 DEF Goto, mediaVars, TypeOK, CallRecord
  <2>4. Live.from \in Nat
    BY LiveSound DEF KeepInv, SlotInv, ManifestRecord
  <2>5. FilledTo(FirstId(b)) /\ Live.from <= FirstId(b)
    BY <1>2, <2>4, HeadPast, HeadFilled DEF KeepInv
  <2>6. ASSUME NEW k \in acked PROVE k.first + k.count <= FirstId(b) /\ KeptBy(Live, k)
    <3>1. k.first + k.count \in Nat
      BY <2>1 DEF TypeOK
    <3>2. QED
      BY <1>2, <3>1, HeadPast DEF KeepInv, AckedStored
  <2>7. b \in Nat /\ HeadRerank(b) \in Nat
    BY HeadRerankType
  <2>8. BatchCells(a)' = {}
    BY <2>3, <2>7 DEF BatchCells, Begin, Wrote, Regions
  <2>9. BatchWritten(a)'
    BY <2>8 DEF BatchWritten
  <2>10. FilledTo(FirstId(call[a].head))'
    BY <2>3, <2>5 DEF FilledTo, FirstId
  <2>11. CallPast(a)'
    BY <2>2, <2>3, <2>5, <2>6, <2>9, <2>10
       DEF CallPast, Past, Programming, WholeUnits, HeadRerank, FirstId, KeptBy
  <2>12. \A c \in Appenders : CallPast(c)'
    BY <2>11 DEF OneAppender
  <2>13. Keeps /\ Live' = Live
    BY <2>3 DEF Keeps, Live
  <2>14. QED
    BY <2>3, <2>12, <2>13, MoveKeep
<1>3. QED
  BY <1>1, <1>2 DEF Plan

\* One more block, or its CRC word, of the batch is there.
Grown(a, c) ==
  /\ pc[a] \in Programming
  /\ pc'[a] \in {"erase"} \cup Programming
  /\ slot' = slot /\ acked' = acked
  /\ call'[a].op = call[a].op /\ call'[a].count = call[a].count
  /\ call'[a].head = call[a].head /\ call'[a].headRerank = call[a].headRerank
  /\ call'[a].before = call[a].before
  /\ Keeps
  /\ flash'[c] = Data(call[a].op, FirstId(call[a].head))
  /\ unsynced' = unsynced \cup {c}
  /\ BatchCells(a)' = BatchCells(a) \cup {c}

LEMMA BlockGrows ==
  ASSUME TypeOK, NEW a \in Appenders, pc[a] \in Programming,
         NEW region \in {"payload", "rerank"}, NEW block, NEW base, NEW next \in Programming,
         base = FirstId(call[a].head),
         ProgramBlock(a, region, block, base, next),
         pc'[a] = next /\ call' = call =>
           BatchCells(a)' = BatchCells(a) \cup {<<region, block>>}
  PROVE  Refuse(a, "refused") \/ \E c \in Cell : Grown(a, c)
<1> SUFFICES ASSUME /\ Erased(<<region, block>>)
                    /\ Program(<<region, block>>, Data(call[a].op, base))
                    /\ Goto(a, next)
                    /\ UNCHANGED <<call, outcome, lock, reader, boundVars, acked>>
             PROVE  \E c \in Cell : Grown(a, c)
  BY DEF ProgramBlock
<1>1. Keeps
  BY ProgramKeeps
<1>2. /\ pc'[a] = next /\ call' = call
      /\ <<region, block>> \in Cell
      /\ flash'[<<region, block>>] = Data(call[a].op, base)
  BY DEF TypeOK, Goto, Erased, Program
<1>3. Grown(a, <<region, block>>)
  BY <1>1, <1>2 DEF Grown, Program
<1>4. QED
  BY <1>2, <1>3

LEMMA CrcGrows ==
  ASSUME TypeOK, NEW a \in Appenders, pc[a] \in Programming,
         NEW crc \in {"payloadCrc", "rerankCrc"}, NEW block, NEW base,
         NEW done \in BOOLEAN,
         NEW more \in Programming, NEW next \in {"erase"} \cup Programming,
         base = FirstId(call[a].head),
         ProgramBlockCrc(a, crc, block, base, done, more, next),
         /\ pc'[a] = IF done THEN next ELSE more
         /\ call'[a].part = IF done THEN 0 ELSE call[a].part + 1
         /\ call'[a].count = call[a].count
         /\ call'[a].head = call[a].head /\ call'[a].headRerank = call[a].headRerank
         => BatchCells(a)' = BatchCells(a) \cup {<<crc, block>>}
  PROVE  Refuse(a, "refused") \/ \E c \in Cell : Grown(a, c)
<1> SUFFICES ASSUME /\ Erased(<<crc, block>>)
                    /\ Program(<<crc, block>>, Data(call[a].op, base))
                    /\ Goto(a, IF done THEN next ELSE more)
                    /\ call' = [call EXCEPT ![a].part = IF done THEN 0 ELSE @ + 1]
                    /\ UNCHANGED <<outcome, lock, reader, boundVars, acked>>
             PROVE  \E c \in Cell : Grown(a, c)
  BY DEF ProgramBlockCrc
<1>1. Keeps
  BY ProgramKeeps
<1>2. /\ pc'[a] = IF done THEN next ELSE more
      /\ <<crc, block>> \in Cell
      /\ flash'[<<crc, block>>] = Data(call[a].op, base)
  BY DEF TypeOK, Goto, Erased, Program
<1>3. /\ call'[a].part = IF done THEN 0 ELSE call[a].part + 1
      /\ call'[a].op = call[a].op /\ call'[a].count = call[a].count
      /\ call'[a].head = call[a].head /\ call'[a].headRerank = call[a].headRerank
      /\ call'[a].before = call[a].before
  BY DEF TypeOK, CallRecord
<1>4. Grown(a, <<crc, block>>)
  BY <1>1, <1>2, <1>3 DEF Grown, Program
<1>5. QED
  BY <1>2, <1>4

LEMMA ProgramGrows ==
  ASSUME KeepInv, NEW a \in Appenders,
         \/ ProgramPayload(a) \/ ProgramPayloadCrc(a)
         \/ ProgramRerank(a) \/ ProgramRerankCrc(a)
  PROVE  Refuse(a, "refused") \/ \E c \in Cell : Grown(a, c)
<1> DEFINE head == call[a].head
           headRerank == call[a].headRerank
           part == call[a].part
           codes == call[a].count \div PerPayload
           records == call[a].count \div PerRerank
<1>1. /\ TypeOK /\ head \in Nat /\ headRerank \in Nat /\ part \in Nat
      /\ codes \in Nat /\ records \in Nat
  <2>1. TypeOK
    BY DEF KeepInv, SlotInv
  <2>2. head \in Nat /\ headRerank \in Nat /\ part \in Nat /\ call[a].count \in Nat
    BY <2>1, CallFacts
  <2>3. QED
    BY <2>1, <2>2, GeometryAssumption
<1>2. pc[a] \in Programming
  BY DEF Programming, ProgramPayload, ProgramPayloadCrc, ProgramRerank, ProgramRerankCrc
<1>3. headRerank * PerRerank = FirstId(head)
  BY <1>1, <1>2, HeadAligned DEF KeepInv, CallPast, Past
<1> HIDE DEF codes, records
<1>4. CASE ProgramPayload(a)
  <2>1. ASSUME pc'[a] = "payloadCrc", call' = call
        PROVE  BatchCells(a)' = BatchCells(a) \cup {<<"payload", head + part>>}
    BY <1>1, <1>4, <2>1 DEF ProgramPayload, BatchCells, Begin, Wrote, Regions
  <2>2. QED
    BY <1>1, <1>2, <1>4, <2>1, BlockGrows DEF ProgramPayload, Programming
<1>5. CASE ProgramRerank(a)
  <2>1. ASSUME pc'[a] = "rerankCrc", call' = call
        PROVE  BatchCells(a)' = BatchCells(a) \cup {<<"rerank", headRerank + part>>}
    BY <1>1, <1>5, <2>1 DEF ProgramRerank, BatchCells, Begin, Wrote, Regions
  <2>2. QED
    BY <1>1, <1>2, <1>3, <1>5, <2>1, BlockGrows DEF ProgramRerank, Programming
<1>6. CASE ProgramPayloadCrc(a)
  <2> DEFINE done == part + 1 = codes
  <2>1. ASSUME /\ pc'[a] = IF done THEN "rerank" ELSE "payload"
               /\ call'[a].part = IF done THEN 0 ELSE part + 1
               /\ call'[a].count = call[a].count
               /\ call'[a].head = head /\ call'[a].headRerank = headRerank
        PROVE  BatchCells(a)' = BatchCells(a) \cup {<<"payloadCrc", head + part>>}
    <3>1. CASE done
      BY <1>1, <1>6, <2>1, <3>1
         DEF ProgramPayloadCrc, BatchCells, Begin, Wrote, Regions, codes
    <3>2. CASE ~done
      BY <1>1, <1>6, <2>1, <3>2 DEF ProgramPayloadCrc, BatchCells, Begin, Wrote, Regions
    <3>3. QED
      BY <3>1, <3>2
  <2>2. QED
    BY <1>1, <1>2, <1>6, <2>1, CrcGrows DEF ProgramPayloadCrc, Programming, codes
<1>7. CASE ProgramRerankCrc(a)
  <2> DEFINE done == part + 1 = records
  <2>1. ASSUME /\ pc'[a] = IF done THEN "erase" ELSE "rerank"
               /\ call'[a].part = IF done THEN 0 ELSE part + 1
               /\ call'[a].count = call[a].count
               /\ call'[a].head = head /\ call'[a].headRerank = headRerank
        PROVE  BatchCells(a)' = BatchCells(a) \cup {<<"rerankCrc", headRerank + part>>}
    <3>1. CASE done
      BY <1>1, <1>7, <2>1, <3>1
         DEF ProgramRerankCrc, BatchCells, Begin, Wrote, Regions, records
    <3>2. CASE ~done
      BY <1>1, <1>7, <2>1, <3>2 DEF ProgramRerankCrc, BatchCells, Begin, Wrote, Regions
    <3>3. QED
      BY <3>1, <3>2
  <2>2. QED
    BY <1>1, <1>2, <1>3, <1>7, <2>1, CrcGrows DEF ProgramRerankCrc, Programming, records
<1>8. QED
  BY <1>4, <1>5, <1>6, <1>7

LEMMA ProgramKeep ==
  ASSUME KeepInv, SlotInv', OneAppender, NEW a \in Appenders,
         \/ ProgramPayload(a) \/ ProgramPayloadCrc(a)
         \/ ProgramRerank(a) \/ ProgramRerankCrc(a)
  PROVE  KeepInv'
<1>1. CASE Refuse(a, "refused")
  BY <1>1, RefuseKeep
<1>2. ASSUME NEW c \in Cell, Grown(a, c) PROVE KeepInv'
  <2>1. CallPast(a) /\ Keeps /\ acked' = acked /\ Live' = Live
        /\ pc[a] \in Programming
    BY <1>2 DEF Grown, KeepInv, Live
  <2>2. BatchWritten(a)'
    BY <1>2, <2>1, BatchGrows DEF Grown, CallPast, Past
  <2>3. FilledTo(FirstId(call[a].head))'
    BY <1>2, <2>1, FilledStays DEF Grown, CallPast, Past, FilledTo, FirstId
  <2>4. CallPast(a)'
    BY <1>2, <2>1, <2>2, <2>3
       DEF Grown, CallPast, Past, Programming, Writing, FirstId, HeadRerank, WholeUnits, KeptBy
  <2>5. \A b \in Appenders : CallPast(b)'
    BY <2>4 DEF OneAppender
  <2>6. QED
    BY <2>1, <2>5, MoveKeep
<1>3. QED
  BY <1>1, <1>2, ProgramGrows

\* A step of the append that leaves its call, its blocks and the acknowledged alone.
LEMMA SameCallPast ==
  ASSUME KeepInv, NEW a \in Appenders, pc[a] \in {"erase", "install"},
         pc'[a] \in {"install", "sync"}, call' = call, flash' = flash, acked' = acked
  PROVE  CallPast(a)'
<1>1. CallPast(a)
  BY DEF KeepInv
<1>2. BatchCells(a)' = BatchCells(a)
  BY DEF BatchCells, Begin, Wrote
<1>3. BatchWritten(a)'
  BY <1>1, <1>2 DEF CallPast, Past, BatchWritten, Holding, FirstId
<1>4. QED
  BY <1>1, <1>3
     DEF CallPast, Past, Programming, Writing, FirstId, HeadRerank, WholeUnits, KeptBy, FilledTo

LEMMA EraseKeep ==
  ASSUME KeepInv, SlotInv', OneAppender, NEW a \in Appenders, EraseSlot(a)
  PROVE  KeepInv'
<1>1. /\ pc[a] = "erase" /\ pc'[a] = "install" /\ call' = call
      /\ flash' = flash /\ acked' = acked
  BY DEF EraseSlot, Goto, WriteSlot, KeepInv, SlotInv, TypeOK
<1>2. Live' = Live /\ Keeps
  BY <1>1, EraseSlots DEF KeepInv, SlotInv, Keeps
<1>3. \A b \in Appenders : CallPast(b)'
  BY <1>1, SameCallPast DEF OneAppender
<1>4. QED
  BY <1>1, <1>2, <1>3, MoveKeep

\* What was acknowledged is in the updated manifest as it was in the one before,
\* which verifies though it may end before the one it replaces.
LEMMA UpdatedKeeps ==
  ASSUME KeepInv, NEW a \in Appenders, pc[a] \in Past, call[a].before.valid,
         BuiltN <= call[a].before.from
  PROVE  LET u == Updated(a)
             first == FirstId(call[a].head)
         IN  /\ u.valid
             /\ u.from <= first /\ u.n = first + call[a].count
             /\ u.sequence > call[a].before.sequence
             /\ \A k \in acked : KeptBy(u, k)
<1> DEFINE u == Updated(a)
           before == call[a].before
           first == FirstId(call[a].head)
<1>1. TypeOK /\ CallPast(a)
  BY DEF KeepInv, SlotInv
<1>2. /\ first \in Nat /\ call[a].count \in Nat
      /\ before.sequence \in Nat /\ before.n \in Nat /\ before.from \in Nat
      /\ BuiltN \in Nat
  BY <1>1, CallFacts, GeometryAssumption DEF ManifestRecord
<1>3. before.from <= first
  BY <1>1 DEF CallPast
<1>4. /\ u.sequence = before.sequence + 1 /\ u.n = first + call[a].count
      /\ u.from = IF Appended(before) = 0 THEN first ELSE before.from
      /\ u.valid = (BuiltN <= u.from /\ u.from <= u.n)
  BY <1>1, UpdatedSound
<1> HIDE DEF u, before, first
<1>5. ASSUME NEW k \in acked PROVE KeptBy(u, k)
  <2>1. /\ k.first + k.count <= first /\ KeptBy(before, k)
        /\ k.first \in Nat /\ k.count \in Nat /\ k.count # 0
    BY <1>1 DEF CallPast, KeepInv, AckedStored, TypeOK, before, first
  <2>2. k.first + k.count <= u.n
    BY <1>2, <1>4, <2>1
  <2>3. CASE k.first + k.count <= BuiltN
    BY <2>2, <2>3 DEF KeptBy
  <2>4. CASE before.from <= k.first
    <3>1. before.n # before.from
      BY <1>2, <2>1, <2>4 DEF KeptBy
    <3>2. u.from = before.from
      BY <1>2, <1>4, <3>1 DEF Appended
    <3>3. QED
      BY <2>2, <2>4, <3>2 DEF KeptBy
  <2>5. QED
    BY <2>1, <2>3, <2>4 DEF KeptBy
<1>6. u.from <= first /\ BuiltN <= u.from /\ u.from <= u.n
  <2>1. u.from = first \/ u.from = before.from
    BY <1>4
  <2>2. BuiltN <= before.from
    BY DEF before
  <2>3. QED
    BY <1>2, <1>3, <1>4, <2>1, <2>2
<1>7. u.valid
  BY <1>4, <1>6, Zenon
<1>8. u.sequence > before.sequence
  BY <1>2, <1>4
<1>9. QED
  BY <1>4, <1>5, <1>6, <1>7, <1>8, Zenon DEF u, before, first

\* Once programmed, the new manifest is the live one.
LEMMA UpdatedLive ==
  ASSUME TypeOK, SlotsSound, NEW a \in Appenders, Replacing(a), pc[a] = "sync",
         Updated(a).valid
  PROVE  Live = Updated(a)
<1> DEFINE T == TargetSlot(a)
<1>1. call[a].before.sequence \in Nat
  BY CallFacts DEF ManifestRecord
<1>2. Updated(a).sequence = call[a].before.sequence + 1
  BY UpdatedSound
<1>3. /\ slot[T] = Updated(a) /\ T \in Slot
      /\ \A s \in Slot \ {T} : slot[s] = call[a].before /\ slot[s].valid
  BY DEF Replacing, TargetSlot, NextSlot, Slot
<1>4. QED
  BY <1>1, <1>2, <1>3 DEF Live, Select, Slot

\* The manifest in hand is one that verifies.
LEMMA BeforeSound ==
  ASSUME SlotInv, NEW a \in Appenders, pc[a] \in {"install", "sync"}
  PROVE  /\ call[a].before.valid
         /\ BuiltN <= call[a].before.from /\ call[a].before.from <= call[a].before.n
<1>1. Replacing(a)
  BY DEF SlotInv, CallExtends
<1>2. PICK s \in Slot : s # TargetSlot(a)
  BY DEF Slot
<1>3. call[a].before \in slotDisk[s] /\ call[a].before.valid
  BY <1>1, <1>2 DEF Replacing
<1>4. QED
  BY <1>3 DEF SlotInv, SlotsSound

LEMMA InstallKeep ==
  ASSUME KeepInv, SlotInv', OneAppender, NEW a \in Appenders, InstallManifest(a)
  PROVE  KeepInv' /\ Live' = Updated(a)
<1>1. /\ pc[a] = "install" /\ pc'[a] = "sync" /\ call' = call
      /\ flash' = flash /\ acked' = acked
  BY DEF InstallManifest, Goto, WriteSlot, KeepInv, SlotInv, TypeOK
<1>2. Updated(a)' = Updated(a)
  BY <1>1 DEF Updated
<1>3. /\ Updated(a).valid
      /\ Updated(a).from <= FirstId(call[a].head)
      /\ \A k \in acked : KeptBy(Updated(a), k)
  BY <1>1, BeforeSound, UpdatedKeeps DEF KeepInv, Past
<1>4. Live' = Updated(a)
  <2>1. (TypeOK /\ SlotsSound /\ Replacing(a) /\ pc[a] = "sync" /\ Updated(a).valid)'
    BY <1>1, <1>2, <1>3 DEF SlotInv, CallExtends
  <2>2. (TypeOK /\ SlotsSound /\ Replacing(a) /\ pc[a] = "sync" /\ Updated(a).valid
           => Live = Updated(a))'
    BY UpdatedLive, PTL
  <2>3. QED
    BY <1>2, <2>1, <2>2
<1>5. FilledTo(Live.from)'
  <2>1. FilledTo(FirstId(call[a].head))
    BY <1>1 DEF KeepInv, CallPast, Past
  <2>2. /\ Updated(a).from \in Nat /\ FirstId(call[a].head) \in Nat
        /\ \A b \in PayloadBlock : b * PerPayload \in Nat
    BY UpdatedType, CallFacts, GeometryAssumption
       DEF KeepInv, SlotInv, ManifestRecord, PayloadBlock
  <2>3. QED
    BY <1>1, <1>3, <1>4, <2>1, <2>2 DEF FilledTo
<1>6. AckedStored'
  BY <1>1, <1>3, <1>4 DEF KeepInv, AckedStored, KeptBy, FilledTo, StoredAt, Holding
<1>7. \A b \in Appenders : CallPast(b)'
  BY <1>1, SameCallPast DEF OneAppender
<1>8. QED
  BY <1>4, <1>5, <1>6, <1>7 DEF KeepInv

LEMMA FilledLess ==
  ASSUME NEW m \in Nat, FilledTo(m), NEW n \in Nat, n <= m
  PROVE  FilledTo(n)
<1>1. \A b \in PayloadBlock : b * PerPayload \in Nat
  BY GeometryAssumption DEF PayloadBlock
<1>2. QED
  BY <1>1 DEF FilledTo

LEMMA ReportKeep ==
  ASSUME KeepInv, SlotInv', OneAppender, NEW a \in Appenders, SyncAndReport(a)
  PROVE  KeepInv' /\ Live' = Live
<1> DEFINE first == FirstId(call[a].head)
           count == call[a].count
           new == [op |-> call[a].op, first |-> first, count |-> count]
<1>1. TypeOK /\ CallPast(a) /\ AckedStored /\ FilledTo(Live.from)
  BY DEF KeepInv, SlotInv
<1>2. /\ pc[a] = "sync" /\ pc'[a] = "idle" /\ acked' = acked \cup {new}
      /\ UNCHANGED <<flash, slot>>
  BY <1>1 DEF SyncAndReport, Return, Goto, TypeOK
<1>3. Live' = Live
  BY <1>2 DEF Live
<1>4. /\ WholeUnits(count) /\ BatchWritten(a) /\ FilledTo(first)
      /\ call[a].headRerank = HeadRerank(call[a].head)
  BY <1>1, <1>2 DEF CallPast, Past, Writing
<1>5. first \in Nat /\ count \in Nat /\ call[a].head \in Nat
  BY <1>1, CallFacts
<1>6. count # 0
  BY <1>4, <1>5, UnitsDivide
<1>7. Live.from <= first /\ Live.n = first + count
  <2>1. call[a].before.valid /\ BuiltN <= call[a].before.from /\ pc[a] \in Past
    BY <1>2, BeforeSound DEF KeepInv, Past
  <2>2. /\ Updated(a).valid
        /\ Updated(a).from <= first /\ Updated(a).n = first + count
    BY <2>1, UpdatedKeeps
  <2>3. Replacing(a) /\ SlotsSound
    BY <1>2 DEF KeepInv, SlotInv, CallExtends
  <2>4. Live = Updated(a)
    BY <1>1, <1>2, <2>2, <2>3, UpdatedLive
  <2>5. QED
    BY <2>2, <2>4
<1> HIDE DEF first, count
<1>8. FilledTo(first + count)
  <2> SUFFICES ASSUME NEW b \in PayloadBlock, b * PerPayload < first + count
               PROVE  flash[<<"payload", b>>] # Blank
    BY DEF FilledTo
  <2>1. b \in Nat /\ b * PerPayload \in Nat /\ PerPayload \in Nat
    BY GeometryAssumption DEF PayloadBlock
  <2>2. CASE call[a].head <= b
    BY <1>1, <1>2, <1>4, <2>2, BatchFills DEF first, count
  <2>3. CASE b * PerPayload < first
    BY <1>4, <2>3 DEF FilledTo
  <2>4. b * PerPayload < first \/ call[a].head <= b
    <3>1. b + 1 <= call[a].head => (b + 1) * PerPayload <= call[a].head * PerPayload
      BY <1>5, <2>1, MulMono
    <3>2. (b + 1) * PerPayload = b * PerPayload + PerPayload
      BY <2>1
    <3>3. first = call[a].head * PerPayload
      BY DEF first, FirstId
    <3>4. QED
      BY <1>5, <2>1, <3>1, <3>2, <3>3, GeometryAssumption
  <2>5. QED
    BY <2>2, <2>3, <2>4
<1>9. ASSUME NEW id \in first .. first + count - 1
      PROVE  StoredAt(id, call[a].op, first)
  BY <1>1, <1>2, <1>4, <1>9, BatchStored DEF first, count
<1>10. AckedStored'
  <2> SUFFICES ASSUME NEW k \in acked'
               PROVE  /\ k.count # 0 /\ KeptBy(Live, k) /\ FilledTo(k.first + k.count)
                      /\ \A id \in k.first .. k.first + k.count - 1 :
                           StoredAt(id, k.op, k.first)
    BY <1>2, <1>3 DEF AckedStored, KeptBy, FilledTo, StoredAt, Holding
  <2>1. CASE k \in acked
    BY <1>1, <2>1 DEF AckedStored
  <2>2. CASE k = new
    <3>1. KeptBy(Live, new)
      BY <1>5, <1>7 DEF KeptBy
    <3>2. k.op = call[a].op /\ k.first = first /\ k.count = count
      BY <2>2
    <3>3. QED
      BY <1>6, <1>8, <1>9, <2>2, <3>1, <3>2
  <2>3. QED
    BY <1>2, <2>1, <2>2
<1>11. FilledTo(Live.from)'
  BY <1>1, <1>2, <1>3 DEF FilledTo
<1>12. \A b \in Appenders : CallPast(b)'
  BY <1>2 DEF OneAppender, CallPast, Past, Programming, Writing
<1>13. QED
  BY <1>3, <1>10, <1>11, <1>12 DEF KeepInv

LEMMA KeepInit == Init => KeepInv
<1> SUFFICES ASSUME Init PROVE KeepInv
  OBVIOUS
<1>1. SlotInv /\ TypeOK /\ SlotsSound
  BY SlotInit DEF SlotInv
<1>2. LiveFilled /\ AckedInv
  BY StoreInit DEF StoreInv
<1>3. /\ Live.from \in Nat /\ Live.n \in Nat /\ Live.from <= Live.n
  BY <1>1, LiveSound DEF ManifestRecord
<1>4. FilledTo(Live.n)
  BY <1>2 DEF LiveFilled, FilledTo
<1>5. FilledTo(Live.from)
  BY <1>3, <1>4, FilledLess
<1>6. AckedStored
  <2> SUFFICES ASSUME NEW k \in acked PROVE FilledTo(k.first + k.count)
    BY <1>2 DEF AckedStored, AckedInv
  <2>1. k.first + k.count \in Nat
    BY <1>1 DEF TypeOK
  <2>2. k.first + k.count <= Live.n
    BY <1>2 DEF AckedInv, KeptBy
  <2>3. QED
    BY <1>3, <1>4, <2>1, <2>2, FilledLess
<1>7. \A a \in Appenders : CallPast(a)
  BY DEF Init, CallPast, Past, Programming, Writing
<1>8. QED
  BY <1>1, <1>5, <1>6, <1>7 DEF KeepInv

\* While the power stays, what was acknowledged is kept, refused appends or not.
LEMMA PoweredKeep ==
  ASSUME OneAppender, MaxKills = 0, KeepInv, [Next]_vars, ~PowerLoss
  PROVE  KeepInv'
<1>1. SlotInv'
  BY SlotStep DEF KeepInv
<1>2. ASSUME NEW a \in Appenders, NEW count, StartAppend(a, count) PROVE KeepInv'
  BY <1>1, <1>2, StartKeep
<1>3. ASSUME NEW a \in Appenders, FinishMount(a) PROVE KeepInv'
  BY <1>1, <1>3, FinishMountKeep
<1>4. ASSUME NEW a \in Appenders, TakeLock(a) PROVE KeepInv'
  BY <1>1, <1>4, TakeLockKeep
<1>5. ASSUME NEW a \in Appenders, Plan(a) PROVE KeepInv'
  BY <1>1, <1>5, PlanKeep
<1>6. ASSUME NEW a \in Appenders,
             \/ ProgramPayload(a) \/ ProgramPayloadCrc(a)
             \/ ProgramRerank(a) \/ ProgramRerankCrc(a)
      PROVE  KeepInv'
  BY <1>1, <1>6, ProgramKeep
<1>7. ASSUME NEW a \in Appenders, EraseSlot(a) PROVE KeepInv'
  BY <1>1, <1>7, EraseKeep
<1>8. ASSUME NEW a \in Appenders, InstallManifest(a) PROVE KeepInv'
  BY <1>1, <1>8, InstallKeep
<1>9. ASSUME NEW a \in Appenders, SyncAndReport(a) PROVE KeepInv'
  BY <1>1, <1>9, ReportKeep
<1>10. \A a \in Appenders : ~Kill(a)
  BY DEF Kill, KeepInv, SlotInv, TypeOK
<1>11. ASSUME NEW r \in Readers, StartMount(r) \/ FinishReaderMount(r) \/ Unmount(r)
       PROVE  KeepInv'
  BY <1>1, <1>11, OtherKeep
     DEF StartMount, FinishReaderMount, Unmount, mediaVars, callVars
<1>12. CASE UNCHANGED vars
  BY <1>1, <1>12, OtherKeep DEF vars, mediaVars, callVars
<1>13. QED
  BY <1>2, <1>3, <1>4, <1>5, <1>6, <1>7, <1>8, <1>9, <1>10, <1>11, <1>12 DEF Next, Step

---------------------------------------------------------------------------
(* The first power loss. *)

\* Nothing is at stake but the batch being written, which lies past all that the
\* manifest it extends names.
AtStake(a) ==
  /\ pc[a] \notin Past => unsynced = {}
  /\ pc[a] \in Past =>
       /\ unsynced \subseteq BatchCells(a)
       /\ call[a].before.n <= FirstId(call[a].head)

OneLossInv ==
  /\ KeepInv
  /\ losses = 0 =>
       /\ RaceInv
       /\ \A a \in Appenders : AtStake(a)
       /\ Appenders = {} => unsynced = {}

LEMMA AtStakeInit == Init => \A a \in Appenders : AtStake(a)
BY DEF Init, AtStake, Past, Programming

\* A step that is not past its plan, before or after, leaves nothing unsynced.
LEMMA EarlyStake ==
  ASSUME NEW a \in Appenders, AtStake(a), pc[a] \notin Past, pc'[a] \notin Past,
         unsynced' = unsynced
  PROVE  AtStake(a)'
BY DEF AtStake, Past, Programming

LEMMA SameStake ==
  ASSUME NEW a \in Appenders, AtStake(a), unsynced' = unsynced, call' = call,
         \/ pc'[a] = pc[a]
         \/ pc[a] \in {"erase", "install"} /\ pc'[a] \in {"install", "sync"}
  PROVE  AtStake(a)'
<1>1. BatchCells(a)' = BatchCells(a)
  BY DEF BatchCells, Begin, Wrote
<1>2. QED
  BY <1>1 DEF AtStake, Past, Programming, FirstId

\* No append is refused past its plan while nothing was lost.
LEMMA RefuseStake ==
  ASSUME TypeOK, NEW a \in Appenders, AtStake(a), NEW why, Refuse(a, why), RaceInv',
         pc[a] \notin Past \/ why = "refused"
  PROVE  AtStake(a)'
<1>1. pc'[a] = "idle" /\ unsynced' = unsynced /\ outcome'[a] = why
  BY DEF Refuse, Return, Goto, mediaVars, TypeOK
<1>2. why # "refused"
  BY <1>1 DEF RaceInv, NeverRefused
<1>3. QED
  BY <1>1, <1>2, EarlyStake DEF Past, Programming

\* The head is the frontier, and every manifest ends at or before it.
LEMMA PlanStake ==
  ASSUME KeepInv, NEW a \in Appenders, AtStake(a), RaceInv, RaceInv', Plan(a)
  PROVE  AtStake(a)'
<1>1. pc[a] = "locked" /\ TypeOK
  BY DEF Plan, KeepInv, SlotInv
<1>2. CASE \E why : Refuse(a, why)
  BY <1>1, <1>2, RefuseStake DEF Past, Programming
<1>3. ASSUME NEW b \in PayloadBlock,
             /\ Goto(a, "payload")
             /\ call' = [call EXCEPT ![a].head = b, ![a].headRerank = HeadRerank(b)]
             /\ UNCHANGED <<mediaVars, outcome, lock, reader, boundVars, acked>>
      PROVE  AtStake(a)'
  <2>1. /\ pc'[a] = "payload" /\ unsynced' = unsynced /\ call'[a].head = b
        /\ call' \in [Appenders -> CallRecord]
    BY <1>1, <1>3, TypeStep DEF Goto, mediaVars, TypeOK, CallRecord, RaceInv, RecordInv
  <2>2. unsynced = {}
    BY <1>1 DEF AtStake, Past, Programming
  <2>3. PICK F \in Nat : RaceAt(F)'
    BY DEF RaceInv
  <2>4. b = F /\ Known(call'[a].before, F) /\ call'[a].before.valid
    BY <2>1, <2>3 DEF RaceAt, BatchAt, CallKnown, Known, Programming, Writing
  <2>5. BuiltCodes <= F
    BY <2>3 DEF RaceAt, FrontierInv
  <2>6. /\ BuiltN <= FirstId(BuiltCodes) /\ FirstId(BuiltCodes) <= FirstId(F)
        /\ FirstId(F) \in Nat /\ FirstId(BuiltCodes) \in Nat /\ BuiltN \in Nat
    BY <2>5, Gap, HeadMono, HeadBlocks, GeometryAssumption
  <2>7. call'[a].before.n <= FirstId(F)
    BY <2>4, <2>6 DEF Known
  <2>8. QED
    BY <2>1, <2>2, <2>4, <2>7 DEF AtStake, FirstId
<1>4. QED
  BY <1>2, <1>3 DEF Plan

LEMMA ProgramStake ==
  ASSUME KeepInv, NEW a \in Appenders, AtStake(a), RaceInv',
         \/ ProgramPayload(a) \/ ProgramPayloadCrc(a)
         \/ ProgramRerank(a) \/ ProgramRerankCrc(a)
  PROVE  AtStake(a)'
<1>1. CASE Refuse(a, "refused")
  BY <1>1, RefuseStake DEF KeepInv, SlotInv
<1>2. ASSUME NEW c \in Cell, Grown(a, c) PROVE AtStake(a)'
  BY <1>2 DEF Grown, AtStake, Past, Programming, FirstId
<1>3. QED
  BY <1>1, <1>2, ProgramGrows

LEMMA StakeStep ==
  ASSUME OneAppender, MaxKills = 0, KeepInv, RaceInv, RaceInv',
         NEW a \in Appenders, AtStake(a), [Next]_vars, ~PowerLoss
  PROVE  AtStake(a)'
<1>1. TypeOK
  BY DEF KeepInv, SlotInv
<1>2. ASSUME NEW count, StartAppend(a, count) PROVE AtStake(a)'
  BY <1>1, <1>2, EarlyStake DEF StartAppend, Goto, mediaVars, TypeOK, Past, Programming
<1>3. CASE FinishMount(a)
  <2>1. CASE \E why : Refuse(a, why)
    BY <1>1, <1>3, <2>1, RefuseStake DEF FinishMount, Past, Programming
  <2>2. CASE Goto(a, "mounted") /\ UNCHANGED mediaVars
    BY <1>1, <1>3, <2>2, EarlyStake
       DEF FinishMount, Goto, mediaVars, TypeOK, Past, Programming
  <2>3. QED
    BY <1>3, <2>1, <2>2 DEF FinishMount
<1>4. CASE TakeLock(a)
  <2>1. CASE \E why : Refuse(a, why)
    BY <1>1, <1>4, <2>1, RefuseStake DEF TakeLock, Past, Programming
  <2>2. CASE Goto(a, "locked") /\ UNCHANGED mediaVars
    BY <1>1, <1>4, <2>2, EarlyStake
       DEF TakeLock, Goto, mediaVars, TypeOK, Past, Programming
  <2>3. QED
    BY <1>4, <2>1, <2>2 DEF TakeLock
<1>5. CASE Plan(a)
  BY <1>5, PlanStake
<1>6. CASE \/ ProgramPayload(a) \/ ProgramPayloadCrc(a)
           \/ ProgramRerank(a) \/ ProgramRerankCrc(a)
  BY <1>6, ProgramStake
<1>7. CASE EraseSlot(a) \/ InstallManifest(a)
  BY <1>1, <1>7, SameStake DEF EraseSlot, InstallManifest, WriteSlot, Goto, TypeOK
<1>8. CASE SyncAndReport(a)
  BY <1>1, <1>8 DEF SyncAndReport, Return, Goto, TypeOK, AtStake, Past, Programming
<1>9. \A b \in Appenders : b = a /\ ~Kill(b)
  BY <1>1 DEF OneAppender, Kill, TypeOK
<1>10. ASSUME NEW r \in Readers, StartMount(r) \/ FinishReaderMount(r) \/ Unmount(r)
       PROVE  AtStake(a)'
  BY <1>10, SameStake DEF StartMount, FinishReaderMount, Unmount, mediaVars, callVars
<1>11. CASE UNCHANGED vars
  BY <1>11, SameStake DEF vars, mediaVars, callVars
<1>12. QED
  BY <1>2, <1>3, <1>4, <1>5, <1>6, <1>7, <1>8, <1>9, <1>10, <1>11 DEF Next, Step

\* What the device may hold of the slot being replaced is older than the manifest
\* in the other, unless it is its successor, whole.
LEMMA LossLive ==
  ASSUME SlotInv, OneAppender, PowerLoss, NEW a \in Appenders, pc[a] \in Past
  PROVE  \/ pc[a] # "sync" /\ Live' = Live /\ Live' = call[a].before
         \/ pc[a] = "sync" /\ Live' = call[a].before
         \/ pc[a] = "sync" /\ Live' = Updated(a) /\ Updated(a).valid
<1> DEFINE T == TargetSlot(a)
           before == call[a].before
<1>1. \A s \in Slot : slot'[s] \in slotDisk[s]
  <2>1. PICK x \in slotDisk["A"], y \in slotDisk["B"] :
          slot' = [s \in Slot |-> IF s = "A" THEN x ELSE y]
    BY DEF PowerLoss
  <2>2. QED
    BY <2>1 DEF Slot
<1>2. TypeOK /\ SlotsSound /\ CallExtends(a)
  BY DEF SlotInv
<1>3. CASE pc[a] \notin {"install", "sync"}
  <2>1. \A s \in Slot : slot'[s] = slot[s]
    BY <1>1, <1>3 DEF SlotInv, Settled, OneAppender
  <2>2. Live' = Live
    BY <2>1 DEF Live, Slot
  <2>3. call[a].before = Live
    BY <1>2, <1>3 DEF CallExtends, Past
  <2>4. QED
    BY <1>3, <2>2, <2>3
<1>4. CASE pc[a] \in {"install", "sync"}
  <2>1. Replacing(a)
    BY <1>2, <1>4 DEF CallExtends
  <2>2. PICK s \in Slot : s # T /\ \A t \in Slot : t = s \/ t = T
    BY DEF TargetSlot, NextSlot, Slot
  <2>3. T \in Slot
    BY DEF TargetSlot, NextSlot, Slot
  <2>4. slot'[s] = before /\ before.valid
    BY <1>1, <2>1, <2>2 DEF Replacing
  <2>5. before.sequence \in Nat /\ T = NextSlot(before.sequence)
    BY <1>2, CallFacts DEF ManifestRecord, TargetSlot
  <2>6. CASE pc[a] = "sync" /\ slot'[T] = Updated(a) /\ Updated(a).valid
    <3>1. Updated(a).sequence = before.sequence + 1
      BY <1>2, UpdatedSound
    <3>2. Live' = Updated(a)
      BY <2>2, <2>3, <2>4, <2>5, <2>6, <3>1 DEF Live, Select, Slot
    <3>3. QED
      BY <2>6, <3>2
  <2>7. CASE ~(pc[a] = "sync" /\ slot'[T] = Updated(a) /\ Updated(a).valid)
    <3>1. slot'[T].valid =>
            /\ slot'[T].sequence \in Nat
            /\ slot'[T].sequence <= before.sequence
            /\ slot'[T].sequence # before.sequence
      <4>1. slot'[T] \in slotDisk[T] /\ slot'[T] \in ManifestRecord
        BY <1>1, <1>2, <2>3 DEF TypeOK
      <4>2. slot'[T].valid => slot'[T].sequence <= before.sequence
        BY <2>1, <2>7, <4>1 DEF Replacing
      <4>3. slot'[T].valid => NextSlot(slot'[T].sequence) # T
        BY <1>2, <2>3, <4>1 DEF SlotsSound
      <4>4. QED
        BY <2>5, <4>1, <4>2, <4>3 DEF ManifestRecord
    <3>2. Live' = before
      BY <2>2, <2>3, <2>4, <2>5, <3>1 DEF Live, Select, Slot
    <3>3. pc[a] = "install" => before = Live
      BY <1>2 DEF CallExtends
    <3>4. QED
      BY <1>4, <3>2, <3>3
  <2>8. QED
    BY <2>6, <2>7
<1>5. QED
  BY <1>3, <1>4

\* The cells of an id behind the head are not of the batch.
LEMMA BehindBatch ==
  ASSUME TypeOK, NEW a \in Appenders, NEW id \in Nat, id < FirstId(call[a].head),
         call[a].headRerank = HeadRerank(call[a].head),
         NEW region \in Regions
  PROVE  CellOf(region, id) \notin BatchCells(a)
<1> DEFINE head == call[a].head
           headRerank == call[a].headRerank
           q == id \div PerPayload
           r == id \div PerRerank
<1>1. head \in Nat /\ headRerank \in Nat /\ FirstId(head) \in Nat
  BY CallFacts
<1>2. /\ q \in Nat /\ q * PerPayload <= id /\ q * PerPayload \in Nat
      /\ r \in Nat /\ r * PerRerank <= id /\ r * PerRerank \in Nat
  BY DivBounds, GeometryAssumption
<1>3. headRerank * PerRerank = FirstId(head) /\ FirstId(head) = head * PerPayload
  BY <1>1, HeadAligned DEF FirstId
<1> HIDE DEF q, r, head, headRerank
<1>4. PerPayload \in Nat /\ PerRerank \in Nat
  BY GeometryAssumption
<1>5. q < head
  <2>1. head <= q => head * PerPayload <= q * PerPayload
    BY <1>1, <1>2, <1>4, MulMono
  <2>2. id < FirstId(head)
    BY DEF head
  <2>3. QED
    BY <1>1, <1>2, <1>3, <2>1, <2>2
<1>6. r < headRerank
  <2>1. headRerank <= r => headRerank * PerRerank <= r * PerRerank
    BY <1>1, <1>2, <1>4, MulMono
  <2>2. id < FirstId(head)
    BY DEF head
  <2>3. QED
    BY <1>1, <1>2, <1>3, <2>1, <2>2
<1>7. CASE region \in {"payload", "payloadCrc"}
  <2>1. CellOf(region, id) = <<region, q>>
    BY <1>7 DEF CellOf, q
  <2>2. Begin(a, region) = head
    BY <1>7 DEF Begin, head
  <2>3. QED
    BY <1>1, <1>2, <1>5, <2>1, <2>2 DEF BatchCells
<1>8. CASE region \in {"rerank", "rerankCrc"}
  <2>1. CellOf(region, id) = <<region, r>>
    BY <1>8 DEF CellOf, r
  <2>2. Begin(a, region) = headRerank
    BY <1>8 DEF Begin, headRerank
  <2>3. QED
    BY <1>1, <1>2, <1>6, <2>1, <2>2 DEF BatchCells
<1>9. QED
  BY <1>7, <1>8 DEF Regions

\* A loss takes nothing behind the head.
LEMMA LossBehind ==
  ASSUME PowerLoss, TypeOK, NEW a \in Appenders, unsynced \subseteq BatchCells(a)
  PROVE  \A c \in Cell \ BatchCells(a) : flash'[c] = flash[c]
<1>1. PICK lost \in SUBSET unsynced :
        \E torn \in SUBSET lost :
          flash' = [c \in Cell |-> IF c \in torn THEN Torn
                                   ELSE IF c \in lost THEN Blank
                                   ELSE flash[c]]
  BY DEF PowerLoss
<1>2. QED
  BY <1>1

LEMMA LossKeep ==
  ASSUME KeepInv, SlotInv', OneAppender, PowerLoss,
         NEW a \in Appenders, AtStake(a), pc[a] \in Past
  PROVE  KeepInv' /\ \A id \in Nat : Holds(Live', id) => Holds(Live, id)
<1> DEFINE before == call[a].before
           first == FirstId(call[a].head)
<1>1. /\ TypeOK /\ CallPast(a) /\ AckedStored
      /\ acked' = acked /\ \A b \in Appenders : pc'[b] = "idle"
  BY DEF KeepInv, SlotInv, PowerLoss
<1>2. /\ call[a].headRerank = HeadRerank(call[a].head)
      /\ FilledTo(first) /\ before.from <= first
      /\ \A k \in acked : k.first + k.count <= first /\ KeptBy(before, k)
      /\ unsynced \subseteq BatchCells(a) /\ before.n <= first
  BY <1>1 DEF CallPast, AtStake
<1>3. /\ first \in Nat /\ call[a].head \in Nat /\ call[a].count \in Nat
      /\ before.from \in Nat /\ before.n \in Nat
  BY <1>1, CallFacts DEF ManifestRecord
<1>4. \/ pc[a] # "sync" /\ Live' = Live /\ Live' = before
      \/ pc[a] = "sync" /\ Live' = before
      \/ pc[a] = "sync" /\ Live' = Updated(a) /\ Updated(a).valid
  BY LossLive DEF KeepInv
<1>5. pc[a] = "sync" =>
        /\ Live = Updated(a) /\ Updated(a).valid
        /\ Updated(a).from <= first /\ Updated(a).n = first + call[a].count
        /\ \A k \in acked : KeptBy(Updated(a), k)
  <2> SUFFICES ASSUME pc[a] = "sync"
               PROVE  /\ Live = Updated(a) /\ Updated(a).valid
                      /\ Updated(a).from <= first /\ Updated(a).n = first + call[a].count
                      /\ \A k \in acked : KeptBy(Updated(a), k)
    OBVIOUS
  <2>1. before.valid /\ BuiltN <= before.from
    BY BeforeSound DEF KeepInv
  <2>2. /\ Updated(a).valid
        /\ Updated(a).from <= first /\ Updated(a).n = first + call[a].count
        /\ \A k \in acked : KeptBy(Updated(a), k)
    BY <2>1, UpdatedKeeps
  <2>3. Replacing(a) /\ SlotsSound
    BY DEF KeepInv, SlotInv, CallExtends
  <2>4. QED
    BY <1>1, <2>2, <2>3, UpdatedLive
<1>6. ASSUME NEW id \in Nat, Holds(Live', id) PROVE Holds(Live, id)
  <2>1. CASE Live' = Live
    BY <1>6, <2>1
  <2>2. CASE pc[a] = "sync" /\ Live' = before
    <3>1. /\ Updated(a).valid /\ Live = Updated(a)
          /\ Updated(a).n = first + call[a].count
          /\ Updated(a).from = IF Appended(before) = 0 THEN first ELSE before.from
      BY <1>1, <1>5, <2>2, UpdatedSound
    <3>2. CASE id \in 0 .. BuiltN - 1
      BY <3>1, <3>2 DEF Holds
    <3>3. CASE id \in before.from .. before.n - 1
      <4>1. Appended(before) # 0
        BY <1>3, <3>3 DEF Appended
      <4>2. id \in Updated(a).from .. Updated(a).n - 1
        BY <1>2, <1>3, <3>1, <3>3, <4>1
      <4>3. QED
        BY <3>1, <4>2 DEF Holds
    <3>4. QED
      BY <1>6, <2>2, <3>2, <3>3 DEF Holds
  <2>3. QED
    BY <1>4, <1>5, <2>1, <2>2
<1>7. Live'.from <= first /\ Live'.from \in Nat /\ \A k \in acked : KeptBy(Live', k)
  BY <1>1, <1>2, <1>3, <1>4, <1>5, UpdatedType DEF ManifestRecord
<1> HIDE DEF first, before
<1>8. ASSUME NEW b \in PayloadBlock, b * PerPayload < first
      PROVE  flash'[<<"payload", b>>] # Blank
  <2>1. b \in Nat /\ <<"payload", b>> \in Cell
    BY GeometryAssumption DEF PayloadBlock, Cell
  <2>2. b < call[a].head
    <3>1. call[a].head <= b => call[a].head * PerPayload <= b * PerPayload
      BY <1>3, <2>1, MulMono, GeometryAssumption
    <3>2. b * PerPayload \in Nat /\ first = call[a].head * PerPayload
      BY <2>1, GeometryAssumption DEF first, FirstId
    <3>3. QED
      BY <1>3, <1>8, <2>1, <3>1, <3>2
  <2>3. <<"payload", b>> \notin BatchCells(a)
    BY <1>3, <2>1, <2>2 DEF BatchCells, Begin
  <2>4. flash'[<<"payload", b>>] = flash[<<"payload", b>>]
    BY <1>1, <1>2, <2>1, <2>3, LossBehind
  <2>5. QED
    BY <1>2, <1>8, <2>4 DEF FilledTo
<1>9. \A n \in Nat : n <= first => FilledTo(n)'
  <2>1. \A b \in PayloadBlock : b * PerPayload \in Nat
    BY GeometryAssumption DEF PayloadBlock
  <2>2. QED
    BY <1>3, <1>8, <2>1 DEF FilledTo
<1>10. FilledTo(Live.from)'
  BY <1>7, <1>9 DEF FilledTo
<1>11. ASSUME NEW k \in acked
       PROVE  /\ k.count # 0 /\ KeptBy(Live', k) /\ FilledTo(k.first + k.count)'
              /\ \A id \in k.first .. k.first + k.count - 1 :
                   StoredAt(id, k.op, k.first)'
  <2>1. k.first \in Nat /\ k.count \in Nat /\ k.first + k.count <= first
    BY <1>1, <1>2 DEF TypeOK
  <2>2. k.count # 0 /\ KeptBy(Live', k) /\ FilledTo(k.first + k.count)'
    BY <1>1, <1>7, <1>9, <2>1 DEF AckedStored
  <2>3. ASSUME NEW id \in k.first .. k.first + k.count - 1
        PROVE  StoredAt(id, k.op, k.first)'
    <3>1. StoredAt(id, k.op, k.first) /\ id \in Nat /\ id < first
      BY <1>1, <1>3, <2>1 DEF AckedStored
    <3>2. \A region \in Regions : CellOf(region, id) \notin BatchCells(a)
      BY <1>1, <1>2, <3>1, BehindBatch DEF first
    <3>3. QED
      BY <1>1, <1>2, <3>1, <3>2, LossBehind DEF StoredAt, Holding
  <2>4. QED
    BY <2>2, <2>3
<1>12. AckedStored'
  BY <1>1, <1>11 DEF AckedStored, KeptBy, FilledTo, StoredAt, Holding
<1>13. \A b \in Appenders : CallPast(b)'
  BY <1>1 DEF CallPast, Past, Programming, Writing
<1>14. QED
  BY <1>6, <1>10, <1>12, <1>13 DEF KeepInv

LEMMA LossUnread ==
  ASSUME PowerLoss, NEW id, Readable(id)'
  PROVE  Readable(id) /\ VectorAt("rerank", id)' = VectorAt("rerank", id)
<1>1. \A c \in Cell : flash'[c].kind = "data" => flash'[c] = flash[c]
  BY DEF PowerLoss, Torn, Blank, Content
<1>2. /\ CellOf("payload", id) \in Cell /\ CellOf("payloadCrc", id) \in Cell
      /\ CellOf("rerank", id) \in Cell /\ CellOf("rerankCrc", id) \in Cell
  BY DEF Readable, InRegions, CellOf, Cell
<1>3. QED
  BY <1>1, <1>2 DEF Readable, InRegions, IntactPayload, IntactRerank, Intact, VectorAt

LEMMA LossesStay ==
  ASSUME [Next]_vars, ~PowerLoss
  PROVE  losses' = losses
<1>1. ASSUME NEW a \in Appenders, NEW why, Refuse(a, why) PROVE losses' = losses
  BY <1>1 DEF Refuse, boundVars
<1>2. ASSUME NEW a \in Appenders, Step(a) PROVE losses' = losses
  <2>1. CASE FinishMount(a) \/ TakeLock(a) \/ Plan(a)
    BY <1>1, <2>1 DEF FinishMount, TakeLock, Plan, boundVars
  <2>2. CASE \/ ProgramPayload(a) \/ ProgramPayloadCrc(a)
             \/ ProgramRerank(a) \/ ProgramRerankCrc(a)
    BY <1>1, <2>2 DEF ProgramPayload, ProgramPayloadCrc, ProgramRerank, ProgramRerankCrc,
       ProgramBlock, ProgramBlockCrc, boundVars
  <2>3. CASE EraseSlot(a) \/ InstallManifest(a) \/ SyncAndReport(a)
    BY <2>3 DEF EraseSlot, InstallManifest, SyncAndReport, boundVars
  <2>4. QED
    BY <1>2, <2>1, <2>2, <2>3 DEF Step
<1>3. QED
  BY <1>2 DEF Next, StartAppend, Kill, StartMount, FinishReaderMount, Unmount,
     vars, boundVars

\* Of what is acknowledged, and of what the live manifest holds, the loss takes
\* only ids it held.
LEMMA FirstLoss ==
  ASSUME OneAppender, MaxKills = 0, MaxPowerLoss <= 1, OneLossInv, PowerLoss
  PROVE  OneLossInv' /\ \A id \in Nat : Holds(Live', id) => Holds(Live, id)
<1>1. SlotInv' /\ TypeOK
  BY SlotStep DEF OneLossInv, KeepInv, SlotInv, Next
<1>2. losses = 0 /\ losses' = 1
  BY <1>1, BoundAssumption DEF PowerLoss, TypeOK
<1>3. /\ KeepInv /\ \A a \in Appenders : AtStake(a)
      /\ Appenders = {} => unsynced = {}
  BY <1>2 DEF OneLossInv
<1>4. CASE \A a \in Appenders : pc[a] \notin Past
  <2>1. unsynced = {}
    BY <1>3, <1>4 DEF AtStake
  <2>2. flash' = flash
    BY <1>1, <2>1 DEF PowerLoss, TypeOK
  <2>3. slot'["A"] = slot["A"] /\ slot'["B"] = slot["B"]
    BY <1>3, <1>4 DEF PowerLoss, KeepInv, SlotInv, Settled, Past, Slot
  <2>4. Keeps /\ Live' = Live
    BY <2>2, <2>3 DEF Keeps, Live
  <2>5. \A a \in Appenders : CallPast(a)'
    BY DEF PowerLoss, CallPast, Past, Programming, Writing
  <2>6. acked' = acked
    BY DEF PowerLoss
  <2>7. KeepInv'
    BY <1>1, <1>3, <2>4, <2>5, <2>6, MoveKeep
  <2>8. QED
    BY <1>2, <2>4, <2>7 DEF OneLossInv
<1>5. ASSUME NEW a \in Appenders, pc[a] \in Past
      PROVE  OneLossInv' /\ \A id \in Nat : Holds(Live', id) => Holds(Live, id)
  BY <1>1, <1>2, <1>3, <1>5, LossKeep DEF OneLossInv
<1>6. QED
  BY <1>4, <1>5

LEMMA OneLossInit == Init => OneLossInv
<1>1. Init => unsynced = {}
  BY DEF Init
<1>2. QED
  BY <1>1, KeepInit, RaceInit, AtStakeInit DEF OneLossInv

LEMMA PoweredOneLoss ==
  ASSUME RecordsFillUnits, OneAppender, MaxKills = 0, OneLossInv, [Next]_vars, ~PowerLoss
  PROVE  OneLossInv'
<1>1. KeepInv'
  BY PoweredKeep DEF OneLossInv
<1>2. ASSUME losses = 0
      PROVE  /\ RaceInv'
             /\ \A a \in Appenders : AtStake(a)'
             /\ Appenders = {} => unsynced' = {}
  <2>1. /\ RaceInv /\ KeepInv /\ \A a \in Appenders : AtStake(a)
        /\ Appenders = {} => unsynced = {}
    BY <1>2 DEF OneLossInv
  <2>2. RaceInv'
    <3>1. \A a \in Appenders : ~Kill(a)
      BY <2>1 DEF Kill, RaceInv, RecordInv, TypeOK
    <3>2. QED
      BY <2>1, <3>1, PoweredRace
  <2>3. ASSUME Appenders = {} PROVE unsynced' = {}
    BY <2>1, <2>3
       DEF Next, StartMount, FinishReaderMount, Unmount, vars, mediaVars
  <2>4. QED
    BY <2>1, <2>2, <2>3, StakeStep
<1>3. losses' = losses
  BY LossesStay
<1>4. QED
  BY <1>1, <1>2, <1>3 DEF OneLossInv

LEMMA OneLossStep ==
  ASSUME RecordsFillUnits, OneAppender, MaxKills = 0, MaxPowerLoss <= 1
  PROVE  OneLossInv /\ [Next]_vars => OneLossInv'
BY FirstLoss, PoweredOneLoss

LEMMA OneLossInvariant ==
  ASSUME RecordsFillUnits, OneAppender, MaxKills = 0, MaxPowerLoss <= 1
  PROVE  Spec => []OneLossInv
BY OneLossInit, OneLossStep, PTL DEF Spec

---------------------------------------------------------------------------
(* What follows. *)

LEMMA KeepDurable == KeepInv => AckedDurable
<1> SUFFICES ASSUME KeepInv, NEW k \in acked, NEW id \in k.first .. k.first + k.count - 1
             PROVE  /\ Holds(Live, id)
                    /\ Readable(id)
                    /\ VectorAt("payload", id) = <<k.op, id - k.first>>
                    /\ VectorAt("rerank", id) = <<k.op, id - k.first>>
  BY DEF AckedDurable
<1>1. TypeOK /\ SlotsSound /\ AckedStored
  BY DEF KeepInv, SlotInv
<1>2. k.first \in Nat /\ k.count \in Nat /\ id \in Nat
  BY <1>1 DEF TypeOK
<1>3. KeptBy(Live, k) /\ StoredAt(id, k.op, k.first) /\ Live.valid
  BY <1>1 DEF AckedStored, SlotsSound
<1>4. Live.n \in Nat /\ Live.from \in Nat /\ BuiltN \in Nat
  BY <1>1, LiveType, GeometryAssumption DEF ManifestRecord
<1>5. Holds(Live, id)
  BY <1>2, <1>3, <1>4 DEF Holds, KeptBy
<1>6. Readable(id) /\ VectorAt("payload", id) = <<k.op, id - k.first>>
      /\ VectorAt("rerank", id) = <<k.op, id - k.first>>
  BY <1>3, StoredReads
<1>7. QED
  BY <1>5, <1>6

LEMMA InstallVisible ==
  ASSUME KeepInv, SlotInv', OneAppender, NEW a \in Appenders, InstallManifest(a)
  PROVE  \/ \A id \in Nat : Holds(Live, id) => Holds(Live', id)
         \/ \A id \in Nat : Holds(Live', id) => Holds(Live, id)
<1> DEFINE first == FirstId(call[a].head)
<1>1. Live' = Updated(a)
  BY InstallKeep
<1>2. TypeOK /\ call[a].before = Live /\ Live.valid
  BY DEF KeepInv, SlotInv, CallExtends, SlotsSound, InstallManifest
<1>3. /\ Updated(a).n = first + call[a].count
      /\ Updated(a).from = IF Appended(Live) = 0 THEN first ELSE Live.from
  BY <1>2, UpdatedSound
<1>4. Updated(a).valid
  <2>1. pc[a] = "install"
    BY DEF InstallManifest
  <2>2. BuiltN <= call[a].before.from /\ call[a].before.valid /\ pc[a] \in Past
    BY <2>1, BeforeSound DEF KeepInv, Past
  <2>3. QED
    BY <2>2, UpdatedKeeps
<1>5. /\ first \in Nat /\ call[a].count \in Nat
      /\ Live.n \in Nat /\ Live.from \in Nat /\ Live.from <= Live.n /\ Live.from <= first
  BY <1>2, CallFacts, LiveSound
     DEF KeepInv, SlotInv, ManifestRecord, CallPast, Past, InstallManifest
<1> HIDE DEF first
<1>6. CASE Appended(Live) = 0 \/ Live.n <= Updated(a).n
  <2> SUFFICES ASSUME NEW id \in Nat, Holds(Live, id) PROVE Holds(Live', id)
    OBVIOUS
  <2>1. CASE id \in 0 .. BuiltN - 1
    BY <1>1, <1>4, <2>1 DEF Holds
  <2>2. CASE id \in Live.from .. Live.n - 1
    <3>1. Appended(Live) # 0
      BY <1>5, <2>2 DEF Appended
    <3>2. id \in Updated(a).from .. Updated(a).n - 1
      BY <1>3, <1>5, <1>6, <2>2, <3>1
    <3>3. QED
      BY <1>1, <1>4, <3>2 DEF Holds
  <2>3. QED
    BY <2>1, <2>2 DEF Holds
<1>7. CASE Appended(Live) # 0 /\ Updated(a).n < Live.n
  <2> SUFFICES ASSUME NEW id \in Nat, Holds(Live', id) PROVE Holds(Live, id)
    OBVIOUS
  <2>1. CASE id \in 0 .. BuiltN - 1
    BY <1>2, <2>1 DEF Holds
  <2>2. CASE id \in Updated(a).from .. Updated(a).n - 1
    <3>1. id \in Live.from .. Live.n - 1
      BY <1>3, <1>5, <1>7, <2>2
    <3>2. QED
      BY <1>2, <3>1 DEF Holds
  <2>3. QED
    BY <1>1, <2>1, <2>2 DEF Holds
<1>8. QED
  BY <1>3, <1>5, <1>6, <1>7

\* While the power stays the live manifest is as it was, or an install extends it or,
\* after a loss, ends before it.
LEMMA PoweredLive ==
  ASSUME OneAppender, MaxKills = 0, KeepInv, [Next]_vars, ~PowerLoss
  PROVE  \/ /\ acked' = acked
            /\ \A id \in Nat : Holds(Live, id) => Holds(Live', id)
         \/ /\ acked' = acked /\ flash' = flash
            /\ \A id \in Nat : Holds(Live', id) => Holds(Live, id)
         \/ acked \subseteq acked' /\ flash' = flash /\ Live' = Live
<1>1. SlotInv' /\ TypeOK' /\ TypeOK
  BY SlotStep DEF KeepInv, SlotInv
<1> DEFINE Unmoved == acked' = acked /\ slot' = slot
<1>2. Unmoved => acked' = acked /\ \A id \in Nat : Holds(Live, id) => Holds(Live', id)
  BY DEF Live
<1>3. ASSUME NEW a \in Appenders, NEW why, Refuse(a, why) PROVE Unmoved
  BY <1>3 DEF Refuse, mediaVars
<1>4. ASSUME NEW a \in Appenders, NEW count, StartAppend(a, count) PROVE Unmoved
  BY <1>4 DEF StartAppend, mediaVars
<1>5. ASSUME NEW a \in Appenders, FinishMount(a) \/ TakeLock(a) \/ Plan(a) PROVE Unmoved
  BY <1>3, <1>5 DEF FinishMount, TakeLock, Plan, mediaVars
<1>6. ASSUME NEW a \in Appenders,
             \/ ProgramPayload(a) \/ ProgramPayloadCrc(a)
             \/ ProgramRerank(a) \/ ProgramRerankCrc(a)
      PROVE  Unmoved
  BY <1>3, <1>6 DEF ProgramPayload, ProgramPayloadCrc, ProgramRerank, ProgramRerankCrc,
     ProgramBlock, ProgramBlockCrc, Program
<1>7. ASSUME NEW a \in Appenders, EraseSlot(a)
      PROVE  acked' = acked /\ Live' = Live
  BY <1>1, <1>7, EraseSlots DEF EraseSlot, KeepInv
<1>8. ASSUME NEW a \in Appenders, InstallManifest(a)
      PROVE  /\ acked' = acked /\ flash' = flash
             /\ \/ \A id \in Nat : Holds(Live, id) => Holds(Live', id)
                \/ \A id \in Nat : Holds(Live', id) => Holds(Live, id)
  BY <1>1, <1>8, InstallVisible DEF InstallManifest, WriteSlot
<1>9. ASSUME NEW a \in Appenders, SyncAndReport(a)
      PROVE  acked \subseteq acked' /\ flash' = flash /\ Live' = Live
  BY <1>9 DEF SyncAndReport, Live
<1>10. \A a \in Appenders : ~Kill(a)
  BY <1>1 DEF Kill, TypeOK
<1>11. ASSUME NEW r \in Readers, StartMount(r) \/ FinishReaderMount(r) \/ Unmount(r)
       PROVE  Unmoved
  BY <1>11 DEF StartMount, FinishReaderMount, Unmount, mediaVars
<1>12. UNCHANGED vars => Unmoved
  BY DEF vars, mediaVars
<1> HIDE DEF Unmoved
<1>13. ASSUME NEW a \in Appenders, Step(a)
       PROVE  \/ Unmoved
              \/ acked' = acked /\ Live' = Live
              \/ /\ acked' = acked /\ flash' = flash
                 /\ \/ \A id \in Nat : Holds(Live, id) => Holds(Live', id)
                    \/ \A id \in Nat : Holds(Live', id) => Holds(Live, id)
              \/ acked \subseteq acked' /\ flash' = flash /\ Live' = Live
  BY <1>5, <1>6, <1>7, <1>8, <1>9, <1>13 DEF Step
<1>14. QED
  BY <1>2, <1>4, <1>10, <1>11, <1>12, <1>13 DEF Next

LEMMA OneLossSteps ==
  ASSUME OneAppender, MaxKills = 0, MaxPowerLoss <= 1,
         OneLossInv, OneLossInv', [Next]_vars
  PROVE  [Store!StoreNext]_(Store!storeVars)
<1>1. Store!Functional(Visible)' /\ AckedDurable'
  BY VisibleFunctional, KeepDurable, PTL DEF OneLossInv
<1>2. Reported' \subseteq Visible'
  <2>1. (TypeOK /\ AckedDurable)'
    BY <1>1 DEF OneLossInv, KeepInv, SlotInv
  <2>2. (TypeOK /\ AckedDurable => Reported \subseteq Visible)'
    BY DurableVisible, PTL
  <2>3. QED
    BY <2>1, <2>2
<1>3. ASSUME acked' = acked, \A id \in Nat : Holds(Live', id) => Holds(Live, id),
             \A id : Readable(id)' =>
               Readable(id) /\ VectorAt("rerank", id)' = VectorAt("rerank", id)
      PROVE  Store!Lose
  <2>1. Reported' = Reported
    BY <1>3 DEF Reported
  <2>2. Visible' \subseteq Visible
    BY <1>3, IdsAreNat DEF Visible
  <2>3. QED
    BY <1>2, <2>1, <2>2 DEF Store!Lose
<1>4. CASE PowerLoss
  BY <1>3, <1>4, FirstLoss, LossUnread DEF PowerLoss, Store!StoreNext
<1>5. CASE ~PowerLoss
  <2>1. Keeps
    BY <1>5, StepKeeps DEF OneLossInv, KeepInv, SlotInv
  <2>2. CASE /\ acked' = acked
             /\ \A id \in Nat : Holds(Live, id) => Holds(Live', id)
    <3>1. Visible \subseteq Visible'
      BY <2>1, <2>2, KeptReads, IdsAreNat DEF Visible, SameVector
    <3>2. Reported' = Reported
      BY <2>2 DEF Reported
    <3>3. QED
      BY <1>1, <3>1, <3>2 DEF Store!StoreNext, Store!Publish, Store!Functional
  <2>3. CASE /\ acked' = acked /\ flash' = flash
             /\ \A id \in Nat : Holds(Live', id) => Holds(Live, id)
    <3>1. \A id : Readable(id)' =>
            Readable(id) /\ VectorAt("rerank", id)' = VectorAt("rerank", id)
      BY <2>3 DEF Readable, InRegions, IntactPayload, IntactRerank, Intact, VectorAt
    <3>2. QED
      BY <1>3, <2>3, <3>1 DEF Store!StoreNext
  <2>4. CASE acked \subseteq acked' /\ flash' = flash /\ Live' = Live
    <3>1. Reported \subseteq Reported'
      BY <2>4 DEF Reported
    <3>2. Visible' = Visible
      BY <2>4 DEF Visible, Readable, InRegions, IntactPayload, IntactRerank, Intact, VectorAt
    <3>3. QED
      BY <1>2, <3>1, <3>2 DEF Store!StoreNext, Store!Report
  <2>5. QED
    BY <1>5, <2>2, <2>3, <2>4, PoweredLive DEF OneLossInv
<1>6. QED
  BY <1>4, <1>5

---------------------------------------------------------------------------
(* The theorems. *)

\* However often the power goes, and whatever each loss keeps of the slot being
\* replaced, the volume mounts: the slot an append erases is never the one the
\* manifest it extends is in, on the device as in the cache.
THEOREM PowerLossMounts ==
  ASSUME OneAppender, MaxKills = 0
  PROVE  Spec => []LiveManifestExists
<1>1. SlotInv => LiveManifestExists
  BY DEF SlotInv, SlotsSound, LiveManifestExists
<1>2. QED
  BY <1>1, SlotInit, SlotStep, PTL DEF Spec

\* One power loss, whenever it comes and whatever it keeps of what was not synced,
\* takes no id whose append reported success.
THEOREM OneLossKeepsAcked ==
  ASSUME RecordsFillUnits, OneAppender, MaxKills = 0, MaxPowerLoss <= 1
  PROVE  Spec => []AckedDurable
<1>1. OneLossInv => AckedDurable
  BY KeepDurable DEF OneLossInv
<1>2. QED
  BY <1>1, OneLossInvariant, PTL

\* The volume implements the insert-only store across a power loss: what it takes
\* is of an append nobody was told about.
THEOREM OneLossImplementsStore ==
  ASSUME RecordsFillUnits, OneAppender, MaxKills = 0, MaxPowerLoss <= 1
  PROVE  Spec => ImplementsStore
<1>1. OneLossInv /\ OneLossInv' /\ [Next]_vars => [Store!StoreNext]_(Store!storeVars)
  BY OneLossSteps
<1>2. QED
  BY <1>1, StoreStarts, OneLossInvariant, PTL DEF Spec, ImplementsStore, Store!StoreSpec
=============================================================================
