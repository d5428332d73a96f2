-------------------------------- MODULE Host --------------------------------
(***************************************************************************)
(* The host's two ways to a volume and what stands on them (sector-os      *)
(* file.rs, mapped.rs, search.rs; sector-cli query_cmd.rs, stats_cmd.rs):  *)
(* reads of a file and borrows of a map with their counters, a searcher    *)
(* that asks both the same, the query command and the measured pass of the *)
(* stats command.  A disk is a sequence of bytes.                          *)
(***************************************************************************)
EXTENDS Integers, Sequences, FiniteSets, SequencesExt, FiniteSetsExt

CONSTANTS
  DeviceBlock,   \* DEVICE_BLOCK_BYTES
  MapPage,       \* page_size()
  HeaderBytes,   \* the two manifests
  MaxLength,     \* the largest u32
  MaxR,          \* MAX_R of the engine
  BounceBytes    \* BLOCK_BYTES

Smaller(a, b) == IF a < b THEN a ELSE b
Opens(length) ==
  CASE length < HeaderBytes -> "TooSmall" [] length > MaxLength -> "TooLarge" [] OTHER -> "ok"
Slice(disk, addr, n) == SubSeq(disk, addr + 1, addr + n)

---------------------------------------------------------------------------
(* A file that is read.  An operation carries what the kernel returns: the *)
(* sizes of its first returns, the rest in one.                            *)

NoAccess ==
  [reads |-> 0, bytes |-> 0, blocks_touched |-> 0, straddling_reads |-> 0, short_reads |-> 0]
AddAccess(a, b) == [f \in DOMAIN a |-> a[f] + b[f]]
BlocksPerReadCenti(stats) ==
  IF stats.reads = 0 THEN 0 ELSE (stats.blocks_touched * 100) \div stats.reads

OpenFile(disk) == [len |-> Len(disk), stats |-> NoAccess]
BlocksOf(addr, n) == IF n = 0 THEN {} ELSE addr \div DeviceBlock .. (addr + n - 1) \div DeviceBlock

\* read_at until the buffer is full or the file is at an end; now is its present length.
KernelReads(addr, n, returns, now) ==
  LET step(at, most) ==
        LET left == n - at.done
            got  == Smaller(Smaller(left, most), IF addr + at.done < now THEN now - addr - at.done ELSE 0)
        IN  IF left = 0 \/ at.eof THEN at
            ELSE IF got = 0 THEN [at EXCEPT !.eof = TRUE]
            ELSE [at EXCEPT !.done = @ + got, !.short = IF got < left THEN @ + 1 ELSE @]
  IN  FoldLeft(step, [done |-> 0, short |-> 0, eof |-> FALSE], returns \o <<n, n>>)

\* FileFlash::read_counted: what it counts before it reads, and what it reads.
Asked(addr, n) ==
  [reads |-> 1, bytes |-> n, blocks_touched |-> Cardinality(BlocksOf(addr, n)),
   straddling_reads |-> IF Cardinality(BlocksOf(addr, n)) > 1 THEN 1 ELSE 0, short_reads |-> 0]
FileRead(file, disk, op) ==
  LET read == KernelReads(op.addr, op.n, op.returns, Len(disk))
  IN  IF op.addr + op.n > file.len
      THEN [file |-> file, verdict |-> "OutOfBounds", bytes |-> <<>>]
      ELSE [file |-> [file EXCEPT !.stats =
                        AddAccess(AddAccess(@, Asked(op.addr, op.n)),
                                  [NoAccess EXCEPT !.short_reads = read.short])],
            verdict |-> IF read.eof THEN "Io" ELSE "ok",
            bytes |-> Slice(disk, op.addr, read.done)]

---------------------------------------------------------------------------
(* A file that is mapped.                                                  *)

NoFaults == [pages_touched |-> 0, borrows |-> 0, misses |-> 0]
OpenMap(disk) == [len |-> Len(disk), touched |-> {}, stats |-> NoFaults]
PagesOf(addr, n) == IF n = 0 THEN {} ELSE addr \div MapPage .. (addr + n - 1) \div MapPage
MarkPages(map, addr, n) ==
  [map EXCEPT !.touched = @ \cup PagesOf(addr, n),
              !.stats.pages_touched = @ + Cardinality(PagesOf(addr, n) \ map.touched)]
MapHolds(map, addr, n) == addr + n <= map.len

MapRead(map, disk, op) ==
  IF MapHolds(map, op.addr, op.n)
  THEN [map |-> MarkPages(map, op.addr, op.n), verdict |-> "ok", bytes |-> Slice(disk, op.addr, op.n)]
  ELSE [map |-> map, verdict |-> "OutOfBounds", bytes |-> <<>>]

\* window borrows without a count, window_counted with one.
Window(map, disk, op) ==
  [map |-> map, verdict |-> IF MapHolds(map, op.addr, op.n) THEN "ok" ELSE "none",
   bytes |-> IF MapHolds(map, op.addr, op.n) THEN Slice(disk, op.addr, op.n) ELSE <<>>]
WindowCounted(map, disk, op) ==
  LET counted == [map EXCEPT !.stats.borrows = @ + 1]
  IN  IF MapHolds(map, op.addr, op.n)
      THEN [map |-> MarkPages(counted, op.addr, op.n), verdict |-> "ok",
            bytes |-> Slice(disk, op.addr, op.n)]
      ELSE [map |-> [counted EXCEPT !.stats.misses = @ + 1], verdict |-> "none", bytes |-> <<>>]

ResetFile(file) == [file EXCEPT !.stats = NoAccess]
ResetMap(map) == [map EXCEPT !.stats = NoFaults, !.touched = {}]

\* What the map reports in the file's terms.
MapAccess(map) ==
  [NoAccess EXCEPT !.reads = map.stats.borrows, !.blocks_touched = map.stats.pages_touched]

\* One operation on both; neither programs nor erases.
Both(at, op) ==
  CASE op.is = "read" ->
         LET f == FileRead(at.file, at.disk, op)
             p == MapRead(at.map, at.disk, op)
         IN  [at EXCEPT !.file = f.file, !.map = p.map,
                        !.answers = Append(@, <<f.verdict, f.bytes, p.verdict, p.bytes>>)]
    [] op.is = "window" -> [at EXCEPT !.map = WindowCounted(at.map, at.disk, op).map]
    [] op.is = "reset" -> [at EXCEPT !.file = ResetFile(at.file), !.map = ResetMap(at.map)]
    [] OTHER -> at
RunBoth(disk, ops) ==
  FoldLeft(Both, [disk |-> disk, file |-> OpenFile(disk), map |-> OpenMap(disk), answers |-> <<>>], ops)

---------------------------------------------------------------------------
(* A searcher.  A geometry is [d, m, centroids, r, n].                     *)

\* The depth of Searcher::open: none and 0 are the image's own, whatever it is.
Depth(geometry, asked) == IF asked = 0 THEN geometry.r ELSE asked
DepthRefused(asked) == asked > MaxR
ResidentBytes(geometry, depth) ==
  geometry.d * geometry.centroids + geometry.m * geometry.centroids * 4 + 2 * depth * 4
  + geometry.d * 4 + BounceBytes
ClampK(k) == IF k < 1 THEN 1 ELSE Smaller(k, MaxR)

\* search_instrumented over a volume whose candidates all survive: the heap holds the
\* best of a scan of n, the engine refuses more candidates than its fixed buffers hold.
SearchOutcome(geometry, depth, components, k) ==
  LET held == Smaller(depth, geometry.n)
  IN  CASE components # geometry.d -> <<"Dimension", 0>>
        [] components = geometry.d /\ depth = 0 -> <<"Query", 0>>
        [] components = geometry.d /\ depth > 0 /\ held > MaxR -> <<"Query", 0>>
        [] OTHER -> <<"ok", Smaller(ClampK(k), held)>>
Searched(geometry, asked, components, k) ==
  IF DepthRefused(asked) THEN <<"DepthTooLarge", 0>>
  ELSE SearchOutcome(geometry, Depth(geometry, asked), components, k)

---------------------------------------------------------------------------
(* The query command.  The outcome of a query is [verdict, dropped,        *)
(* verified, scanned]; the file of queries holds one for each.             *)

Count(limit, held) == IF limit = 0 THEN held ELSE Smaller(limit, held)
Answers(outcomes, limit) ==
  LET asked == SubSeq(outcomes, 1, Count(limit, Len(outcomes)))
  IN  IF \E i \in DOMAIN asked : asked[i].verdict # "ok" THEN [error |-> TRUE, answers |-> <<>>]
      ELSE [error |-> FALSE, answers |-> asked]
Warns(answers) == \E i \in DOMAIN answers : answers[i].scanned # answers[1].scanned
Total(answers, field) == FoldLeft(LAMBDA sum, a : sum + a[field], 0, answers)

---------------------------------------------------------------------------
(* The stats command: the same queries twice, the counters of the second.  *)
(* The operations of a query are reads.                                    *)

Pass(file, disk, queries) ==
  FoldLeft(LAMBDA f, q : FoldLeft(LAMBDA g, op : FileRead(g, disk, op).file, f, q), file, queries)
\* The counters as they were when the reset was left out.
MeasuredWithWarmUp(disk, queries) ==
  LET warm == Pass(OpenFile(disk), disk, queries)
  IN  [warmup |-> warm.stats, backend |-> Pass(warm, disk, queries).stats]

Measured(disk, queries) ==
  LET warm == Pass(OpenFile(disk), disk, queries)
      hot  == Pass(ResetFile(warm), disk, queries)
  IN  [warmup |-> warm.stats, backend |-> hot.stats]

\* PhaseTimer: a mark is [phase, edge, at].  An entry that is never left is counted and
\* has no time.
NoTimes == [phases |-> [p \in 0 .. 4 |-> [entered |-> -1, total |-> 0, entries |-> 0]]]
TimeMark(timer, mark) ==
  LET p == timer.phases[mark.phase]
  IN  [timer EXCEPT !.phases[mark.phase] =
         CASE mark.edge = "Enter" -> [p EXCEPT !.entered = mark.at, !.entries = @ + 1]
           [] mark.edge = "Leave" /\ p.entered >= 0 ->
                [p EXCEPT !.entered = -1, !.total = @ + (mark.at - p.entered)]
           [] OTHER -> p]
TimesOf(marks) == FoldLeft(TimeMark, NoTimes, marks).phases

\* The marks of a query that stops inside phase stop, one tick to a mark: 5 is the end.
MarksOf(stop, from) ==
  [i \in 1 .. Smaller(2 * stop + 1, 10) |->
     [phase |-> (i - 1) \div 2, edge |-> IF i % 2 = 1 THEN "Enter" ELSE "Leave", at |-> from + i]]

---------------------------------------------------------------------------
(* What the host owes its user.                                            *)

\* Both backends answer alike, whatever the kernel returns short: the same calls are
\* refused, the others have the bytes of the disk.  The file's counters are of the reads since
\* the last reset and touch no block that was not asked for; the map's pages are those
\* asked for, fewer than the file's blocks, and its borrows those of windows alone.  What
\* the map reports for its reads is not what its doc says (MapCountsReal).
AgreeAfter(at, disk, ops) ==
  LET reset  == {i \in DOMAIN ops : ops[i].is = "reset"}
      since  == {i \in DOMAIN ops : ops[i].is # "reset" /\ \A j \in reset : i > j}
      inside == {i \in since : ops[i].is \in {"read", "window"} /\ ops[i].addr + ops[i].n <= Len(disk)}
      reads  == {i \in inside : ops[i].is = "read"}
      sum(f(_)) == FoldFunctionOnSet(+, 0, [i \in DOMAIN ops |-> f(i)], reads)
      asked  == SelectSeq(ops, LAMBDA op : op.is = "read")
  IN  /\ \A i \in DOMAIN at.answers :
           LET got == at.answers[i] op == asked[i]
           IN  /\ got[1] = got[3] /\ got[2] = got[4]
               /\ got[1] = "ok" => got[2] = Slice(disk, op.addr, op.n)
      /\ at.file.stats.reads = Cardinality(reads)
      /\ at.file.stats.bytes = sum(LAMBDA i : ops[i].n)
      /\ at.file.stats.blocks_touched * DeviceBlock >= at.file.stats.bytes
      /\ at.file.stats.blocks_touched <= at.file.stats.bytes
      /\ at.file.stats.straddling_reads <= at.file.stats.blocks_touched \div 2
      /\ at.map.stats.pages_touched = Cardinality(UNION {PagesOf(ops[i].addr, ops[i].n) : i \in inside})
      /\ (\A i \in since : ops[i].is = "read") =>
           at.map.stats.pages_touched <= at.file.stats.blocks_touched
      /\ reads # {} /\ (\A i \in reads : ops[i].n > 0) => BlocksPerReadCenti(at.file.stats) >= 100
      /\ MapAccess(at.map).reads = Cardinality({i \in since : ops[i].is = "window"})
BackendsAgree(disk, ops) == AgreeAfter(RunBoth(disk, ops), disk, ops)

\* "A mapped backend's `read` is a `memcpy` from the page cache, so `reads` and `bytes` are real"
\* (search.rs:126): both count what was read.  The code reports borrows, which no read counts,
\* and no bytes (run documented_claims).
MapCountsReal(disk, op) ==
  LET read == MapRead(OpenMap(disk), disk, op)
  IN  read.verdict = "ok" =>
        MapAccess(read.map).reads = 1 /\ MapAccess(read.map).bytes = Len(read.bytes)

\* A file that shrank under its handle is never read past its end as bytes: the read is an
\* error, and one that stays inside is whole.
ShrunkNeverRead(disk, now, op) ==
  LET got == FileRead(OpenFile(disk), SubSeq(disk, 1, now), op)
  IN  /\ got.verdict = "ok" => got.bytes = Slice(disk, op.addr, op.n)
      /\ op.addr + op.n <= now => got.verdict = "ok"
      /\ op.n > 0 /\ op.addr + op.n > now => got.verdict # "ok"

\* "A depth above the image's is refused rather than clamped" (search.rs:176).  Only one above
\* MAX_R is (run documented_claims).
DeeperRefused(geometry, asked) == asked > geometry.r => DepthRefused(asked)

\* A searcher that opens with a depth of its own, below the image's or above it, answers every
\* query of its dimension, and with no more than was asked, could be ranked, or are stored;
\* its memory is that of its geometry and depth alone.
SearcherAnswers(geometry, asked, components, k) ==
  LET got == Searched(geometry, asked, components, k)
  IN  /\ asked \in 1 .. MaxR /\ components = geometry.d => got[1] = "ok"
      /\ got[1] = "ok" =>
           /\ got[2] <= Smaller(Depth(geometry, asked), geometry.n)
           /\ k \in 1 .. MaxR => got[2] <= k
           /\ got[2] >= 1 <=> geometry.n >= 1
      /\ asked > 0 =>
           ResidentBytes(geometry, Depth(geometry, asked)) =
             ResidentBytes(geometry, geometry.r) + 8 * (asked - geometry.r)

\* Every answer printed is that of its query, none is printed when one has failed, and
\* queries that scanned differently are told of.
QueriesReported(outcomes, limit) ==
  LET got == Answers(outcomes, limit)
      n   == Count(limit, Len(outcomes))
  IN  /\ ~got.error => got.answers = SubSeq(outcomes, 1, n)
      /\ (\A i \in 1 .. n : outcomes[i].verdict = "ok") => ~got.error
      /\ Warns(got.answers) <=> Cardinality({a.scanned : a \in ToSet(got.answers)}) > 1
      /\ Total(got.answers, "dropped") > 0 <=> \E a \in ToSet(got.answers) : a.dropped > 0

\* The measured pass is charged for itself alone, as the warm-up was, and every phase that
\* was left has its time, one that was not none.
MeasuredAlone(disk, queries, stop) ==
  LET m     == Measured(disk, queries)
      times == TimesOf(MarksOf(5, 0) \o MarksOf(stop, 20))
  IN  /\ m.backend = m.warmup
      /\ m.backend.reads <= FoldLeft(LAMBDA sum, q : sum + Len(q), 0, queries)
      /\ \A p \in 0 .. 4 :
           /\ times[p].entries = (IF p <= stop THEN 2 ELSE 1)
           /\ times[p].total = (IF p < stop THEN 2 ELSE 1)
           /\ times[p].entered >= 0 <=> p = stop
=============================================================================
