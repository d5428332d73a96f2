-------------------------------- MODULE Query --------------------------------
(***************************************************************************)
(* One two-stage query (sector-core/src/query.rs): the payload region is   *)
(* scanned run by run into a bounded heap of R candidates, the candidates  *)
(* are drained best first, each is read back from the rerank region and    *)
(* dropped if a block of it fails its CRC, and the best K of the others    *)
(* are the answer.                                                         *)
(*                                                                         *)
(* What a code scores is unknown: the score of a code cell is chosen when  *)
(* it is first scored, and with it what an undamaged copy would have       *)
(* scored.  The exact score of a record is chosen when it is rescored.     *)
(* Buffers are sequences; an index is one more than the code's.            *)
(***************************************************************************)
EXTENDS Integers, Sequences, SequencesExt

CONSTANTS
  Volumes,       \* manifests of mounted volumes: [built, appended, n]
  PerBlock,      \* codes in a payload block
  Chunk,         \* PAYLOAD_BLOCKS_PER_READ
  R,             \* candidate depth
  K,             \* results asked for
  Score,         \* scores a code can have
  Exact,         \* scores a record can have
  MaxIntruders   \* bound: codes damaged without notice

ASSUME GeometryAssumption == PerBlock \in Nat \ {0} /\ Chunk \in Nat \ {0}
ASSUME DepthAssumption == R \in Nat \ {0} /\ K \in Nat \ {0}
ASSUME ScoreAssumption == Score \subseteq Int /\ Exact \subseteq Int /\ MaxIntruders \in Nat
\* The built codes, the gap, and the appended ones, which start on a block; a
\* volume with nothing appended has no gap.
ASSUME VolumesAssumption ==
  \A v \in Volumes :
    /\ v.built \in Nat /\ v.appended \in Nat /\ v.n \in Nat
    /\ v.built <= v.appended /\ v.appended <= v.n
    /\ IF v.n = v.appended THEN v.built = v.appended
       ELSE v.appended % PerBlock = 0

VARIABLES
  volume,      \* the manifest the query runs under
  pc,          \* the phase the query is in
  nextBlock,   \* PayloadReader: the block to serve next
  held,        \* PayloadReader: the blocks in the buffer, half open
  buf,         \* PayloadReader: which block each part of the buffer holds
  run,         \* what is left of the run being scored
  heap,        \* the heap's array, up to its length
  slots,       \* the drained candidates
  survivors,   \* those rescored
  out,         \* the answer
  stats,       \* QueryStats
  scored,      \* history: what each code cell read so far scores
  clean        \* history, kept until the heap is drained: undamaged scores

reader == <<nextBlock, held, buf>>
history == <<scored, clean>>
vars == <<volume, pc, reader, run, heap, slots, survivors, out, stats, history>>

Candidate(score, id) == [score |-> score, id |-> id]

NoStats == [scanned |-> 0, offered |-> 0, evicted |-> 0, candidates |-> 0,
            dropped |-> 0, returned |-> 0]

Init ==
  /\ volume \in Volumes
  /\ pc = "scan"
  /\ nextBlock = 0 /\ held = <<0, 0>> /\ buf = <<>>
  /\ run = <<>>
  /\ heap = <<>>
  /\ slots = <<>> /\ survivors = <<>> /\ out = <<>>
  /\ stats = NoStats
  /\ scored = <<>> /\ clean = <<>>

---------------------------------------------------------------------------
(***************************************************************************)
(* The heap: an array whose first element is the worst held.               *)
(***************************************************************************)

\* Fault: a tie is not broken.
WorseScore(a, b) == a.score < b.score

WorseThan(a, b) == a.score < b.score \/ (a.score = b.score /\ a.id > b.id)

\* The element at i moves up past every parent it is worse than.
SiftUp(h, i) ==
  LET place[j \in 1 .. Len(h)] ==
        IF j > 1 /\ WorseThan(h[i], h[j \div 2])
        THEN [place[j \div 2] EXCEPT ![j] = h[j \div 2]]
        ELSE [h EXCEPT ![j] = h[i]]
  IN place[i]

\* Fault: only the left child is looked at.
WorstLeft(h, i, x) ==
  IF 2 * i <= Len(h) /\ WorseThan(h[2 * i], x) THEN 2 * i ELSE i

\* Where x, at i, goes: to its worst child if that is worse than x.
WorstAt(h, i, x) ==
  LET left == IF 2 * i <= Len(h) /\ WorseThan(h[2 * i], x) THEN 2 * i ELSE i
      worst == IF left = i THEN x ELSE h[left]
  IN IF 2 * i + 1 <= Len(h) /\ WorseThan(h[2 * i + 1], worst)
     THEN 2 * i + 1 ELSE left

\* The element at the root moves down past its worse children.
SiftDown(h) ==
  LET place[j \in 1 .. Len(h)] ==
        LET worst == WorstAt(h, j, h[1])
        IN IF worst = j THEN [h EXCEPT ![j] = h[1]]
           ELSE [place[worst] EXCEPT ![j] = h[worst]]
  IN place[1]

WouldAccept(c) == Len(heap) >= R => WorseThan(heap[1], c)

\* Fault: the new root is left where it is.
PushUnsifted(c) ==
  IF Len(heap) < R
  THEN [heap |-> SiftUp(Append(heap, c), Len(heap) + 1), evicted |-> 0]
  ELSE [heap |-> [heap EXCEPT ![1] = c], evicted |-> 1]

\* Fault: an eviction is not reported.
PushSilent(c) ==
  IF Len(heap) < R
  THEN [heap |-> SiftUp(Append(heap, c), Len(heap) + 1), evicted |-> 0]
  ELSE [heap |-> SiftDown([heap EXCEPT ![1] = c]), evicted |-> 0]

\* Offer c, which the heap would accept; the worst gives way if it is full.
Push(c) ==
  IF Len(heap) < R
  THEN [heap |-> SiftUp(Append(heap, c), Len(heap) + 1), evicted |-> 0]
  ELSE [heap |-> SiftDown([heap EXCEPT ![1] = c]), evicted |-> 1]

PopWorst(h) ==
  IF Len(h) = 1 THEN <<>>
  ELSE SiftDown([Front(h) EXCEPT ![1] = Last(h)])

\* Popped worst first and filled from the back.
DrainSorted(h) ==
  LET popped[i \in 0 .. Len(h)] ==
        IF i = 0 THEN [heap |-> h, out |-> <<>>]
        ELSE [heap |-> PopWorst(popped[i - 1].heap),
              out |-> <<Head(popped[i - 1].heap)>> \o popped[i - 1].out]
  IN popped[Len(h)].out

---------------------------------------------------------------------------
(***************************************************************************)
(* Stage one: the payload reader and the scan.                             *)
(***************************************************************************)
Blocks == (volume.n + PerBlock - 1) \div PerBlock
FirstId(block) == block * PerBlock
Gap == volume.built < volume.appended

Lesser(a, b) == IF a < b THEN a ELSE b

\* Fault: the padding after the built codes is served.
TakeAll(block) == Lesser(PerBlock, volume.n - FirstId(block))

\* The codes of a block that are vectors: no padding before the gap.
Take(block) ==
  LET first == FirstId(block)
      take == Lesser(PerBlock, volume.n - first)
  IN IF Gap /\ first < volume.built /\ first + take > volume.built
     THEN volume.built - first ELSE take

InGap(block) ==
  /\ Gap
  /\ FirstId(block) >= volume.built
  /\ FirstId(block) + PerBlock <= volume.appended

\* next_run goes on until a block has a run to serve.
Served(block) ==
  /\ nextBlock <= block /\ block < Blocks
  /\ \A b \in nextBlock .. block - 1 : InGap(b)
  /\ ~InGap(block)

\* The buffer is refilled when it does not hold the block.
Refill(block) ==
  IF held[1] <= block /\ block < held[2] THEN UNCHANGED <<held, buf>>
  ELSE LET want == Lesser(Chunk, Blocks - block) IN
         /\ held' = <<block, block + want>>
         /\ buf' = [i \in 1 .. want |-> block + i - 1]

\* Each id of the run and the cell of the buffer its code is taken from.
NextRun ==
  /\ pc = "scan" /\ run = <<>>
  /\ \E block \in 0 .. Blocks - 1 :
       /\ Served(block)
       /\ Refill(block)
       /\ nextBlock' = block + 1
       /\ run' = [i \in 1 .. Take(block) |->
                    [id |-> FirstId(block) + i - 1,
                     cell |-> <<buf'[block - held'[1] + 1], i - 1>>]]
  /\ UNCHANGED <<volume, pc, heap, slots, survivors, out, stats, history>>

\* What a cell scores, and what its undamaged copy would have.
Scores(cell) ==
  IF cell \in DOMAIN scored THEN {<<scored[cell], clean[cell]>>}
  ELSE {pair \in Score \X Score :
          \/ pair[1] = pair[2]
          \/ Cardinality({x \in DOMAIN scored : scored[x] # clean[x]})
               < MaxIntruders}

With(f, cell, score) ==
  [x \in DOMAIN f \cup {cell} |-> IF x = cell THEN score ELSE f[x]]

\* The next record of the run is scored, and offered if the heap would take it.
Offer ==
  /\ pc = "scan" /\ run # <<>>
  /\ \E pair \in Scores(Head(run).cell) :
       LET c == Candidate(pair[1], Head(run).id)
           seen == [stats EXCEPT !.scanned = @ + 1]
       IN
         /\ scored' = With(scored, Head(run).cell, pair[1])
         /\ clean' = With(clean, Head(run).cell, pair[2])
         /\ \/ /\ WouldAccept(c)
               /\ heap' = Push(c).heap
               /\ stats' = [seen EXCEPT !.offered = @ + 1,
                                        !.evicted = @ + Push(c).evicted]
            \/ /\ ~WouldAccept(c)
               /\ stats' = seen
               /\ UNCHANGED heap
  /\ run' = Tail(run)
  /\ UNCHANGED <<volume, pc, reader, slots, survivors, out>>

\* A read of either region fails, and with it the query.
ReadFails ==
  /\ \/ pc = "scan" /\ run = <<>> /\ \E b \in 0 .. Blocks - 1 :
          Served(b) /\ ~(held[1] <= b /\ b < held[2])
     \/ pc = "rerank" /\ stats.candidates < Len(slots)
  /\ pc' = "failed"
  /\ UNCHANGED <<volume, reader, run, heap, slots, survivors, out, stats, history>>

Drain ==
  /\ pc = "scan" /\ run = <<>>
  /\ ~\E block \in 0 .. Blocks - 1 : Served(block)
  /\ pc' = "rerank"
  /\ slots' = DrainSorted(heap)
  /\ heap' = <<>>
  /\ clean' = <<>>
  /\ UNCHANGED <<volume, reader, run, survivors, out, stats, scored>>

---------------------------------------------------------------------------
(***************************************************************************)
(* Stage two.                                                              *)
(***************************************************************************)

\* The next candidate's record verifies and is rescored, or is dropped.
Rescore ==
  /\ pc = "rerank" /\ stats.candidates < Len(slots)
  /\ LET c == slots[stats.candidates + 1]
         seen == [stats EXCEPT !.candidates = @ + 1]
     IN \/ /\ \E exact \in Exact :
                survivors' = Append(survivors, Candidate(exact, c.id))
           /\ stats' = seen
        \/ /\ stats' = [seen EXCEPT !.dropped = @ + 1]
           /\ UNCHANGED survivors
  /\ UNCHANGED <<volume, pc, reader, run, heap, slots, out, history>>

\* Fault: a tie keeps the order stage one gave it.
InsertUntied(sorted, c) ==
  LET stays == {i \in 1 .. Len(sorted) : ~WorseScore(sorted[i], c)}
      stop == IF stays = {} THEN 0 ELSE Max(stays)
  IN SubSeq(sorted, 1, stop) \o <<c>> \o SubSeq(sorted, stop + 1, Len(sorted))

\* c moves left past every element it is better than.
Insert(sorted, c) ==
  LET stays == {i \in 1 .. Len(sorted) : ~WorseThan(sorted[i], c)}
      stop == IF stays = {} THEN 0 ELSE Max(stays)
  IN SubSeq(sorted, 1, stop) \o <<c>> \o SubSeq(sorted, stop + 1, Len(sorted))

SortDesc(candidates) ==
  LET sorted[i \in 0 .. Len(candidates)] ==
        IF i = 0 THEN <<>> ELSE Insert(sorted[i - 1], candidates[i])
  IN sorted[Len(candidates)]

Finalize ==
  /\ pc = "rerank" /\ stats.candidates = Len(slots)
  /\ pc' = "done"
  /\ LET take == Lesser(K, Len(survivors)) IN
       /\ out' = SubSeq(SortDesc(survivors), 1, take)
       /\ stats' = [stats EXCEPT !.returned = take]
  /\ UNCHANGED <<volume, reader, run, heap, slots, survivors, history>>

Next == NextRun \/ Offer \/ ReadFails \/ Drain \/ Rescore \/ Finalize

Spec == Init /\ [][Next]_vars

---------------------------------------------------------------------------
(***************************************************************************)
(* Properties.                                                             *)
(***************************************************************************)
Ids == 0 .. volume.n - 1
HeldIds == {id \in Ids : id < volume.built \/ id >= volume.appended}
CellOf(id) == <<id \div PerBlock, id % PerBlock>>

\* The candidates of the ids scanned so far, by a score of each cell.
Seen(score) ==
  {Candidate(score[CellOf(id)], id) :
     id \in {i \in HeldIds : CellOf(i) \in DOMAIN score}}

Better(S, c) == {d \in S : WorseThan(c, d)}
Best(S) == {c \in S : Cardinality(Better(S, c)) < R}

\* After any number of records the heap holds the best R of them, a tie going
\* to the lower id, whatever the order of pushes, evictions and sifts
\* (heap.rs, "the surviving order is total and reproducible").
HeapKeepsBest == pc = "scan" => ToSet(heap) = Best(Seen(scored))

\* The scan serves every vector the manifest holds once, from its own code,
\* and nothing else: no padding, no code of the gap (source.rs, `next_run`).
ScansHeldOnce ==
  /\ \A cell \in DOMAIN scored : \E id \in HeldIds : cell = CellOf(id)
  /\ pc \in {"rerank", "done"} => stats.scanned = Cardinality(HeldIds)
  /\ pc = "scan" => stats.scanned = Cardinality(DOMAIN scored)

\* The answer is the best K of the candidates that were not dropped, which are
\* among the best R scanned; none is promoted to replace one that was dropped
\* (rerank.rs, "Drop semantics").
AnswerExact ==
  pc = "done" =>
    /\ \A i \in 1 .. Len(out) - 1 : WorseThan(out[i + 1], out[i])
    /\ ToSet(out) = {c \in ToSet(survivors) :
                       Cardinality(Better(ToSet(survivors), c)) < K}
    /\ {c.id : c \in ToSet(survivors)} \subseteq {c.id : c \in Best(Seen(scored))}
    /\ Len(survivors) + stats.dropped
         = Cardinality(Best(Seen(scored)))

\* At any point of the scan, a vector that would rank d-th undamaged among
\* those seen and is no intruder is still held if there are at most R - d
\* intruders among them (heap.rs, the eviction rule).
Intruders == {id \in HeldIds : CellOf(id) \in DOMAIN scored
                                /\ scored[CellOf(id)] # clean[CellOf(id)]}

IncumbentSurvives ==
  pc = "scan" =>
    \A c \in Seen(clean) :
      c.id \notin Intruders
        /\ Cardinality(Better(Seen(clean), c)) + 1 + Cardinality(Intruders) <= R
      => c \in ToSet(heap)

\* The counters account for every candidate: an eviction and a drop can be
\* told apart, and what was offered is held, evicted or both phases' loss.
StatsAgree ==
  /\ pc = "scan" => stats.offered = stats.evicted + Len(heap)
  /\ pc \in {"rerank", "done"} => stats.offered = stats.evicted + Len(slots)
  /\ stats.candidates = stats.dropped + Len(survivors)

=============================================================================
