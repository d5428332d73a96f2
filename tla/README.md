# SECTOR: models, model checking and proofs

SECTOR is an approximate nearest-neighbour index stored on flash and a search
engine over it (`src/README.md`).  A *builder* writes an image; a *volume* is
that image mounted; vectors can be *appended* to a volume with a reserve; a
*query* scans the stored codes and rescores the best candidates; a *daemon*
serves queries; *scrub*, *repair* and *verify* deal with damage.  This directory
holds TLA+ modules for the parts that keep state or that several actors touch,
TLC configurations, and TLAPS proofs.  Parts that are functions are checked over bounded inputs, in the
same way.  `PROJECT.json` ties every definition to
source lines, every property to a run and to a fault it detects, and lists the
hazards that motivated the properties.

## 1. Inventory

**Append** (`sector-os/src/ingest.rs`, `sector-core/src/append.rs`).  State: the
payload, rerank and CRC regions of the image, two manifest slots, an advisory
file lock.  One operation, `append`: mount, check the batch, lock, capacity, find
the head, program codes and records with a CRC after each block, erase the spare
slot, program the new manifest, `sync_all`, return.  No write waits for another
until that sync.  Callers are processes: they race for the lock, are killed, lose
power.  Correct when: what was acknowledged stays stored; the volume always
mounts; a code and a record under one id are of one vector; what the manifest
holds can be read; the reported room can be used; mounted readers see no change.

**Manifest slots, mount, search handle** (`sector-format/src/manifest.rs`,
`sector-core/src/mount.rs`, `sector-os/src/volume.rs`, `search.rs`).  State: slots
A and B, and the copy of the selected manifest in every mounted process.  A mount
reads the two slots without a lock.  Correct when a mount is recent, and fails
only if an install got in between.

**Query** (`sector-core/src/query.rs`, `scan.rs`, `heap.rs`, `rerank.rs`,
`sector-os/src/source.rs`).  State: a workspace (heap of `R`, drained candidates),
the payload reader's buffer and position, counters.  Sequential, but every read
can fail, any record can fail its CRC and any code can be silently wrong.  Correct
when the answer equals its set definition, once per held vector, and the counters
add up.

**Daemon** (`sector-serve/src/server.rs`, `api.rs`, `http.rs`).  State: a shutdown
flag, two listeners shared by all workers, counters under a mutex, each worker's
searcher with read tallies of its own.  Workers, clients and the shutdown caller
are concurrent.  Correct when no read is lost or counted twice, a request once read is
answered, the daemon stops when asked and only then, and nobody waits for ever.

**Scrub, repair, replicas** (`sector-core/src/scrub.rs`, `repair.rs`,
`sector-codec/src/replicate.rs`).  State: copies of a region on flash, a scrub
cursor.  A repair erases a whole sector to rewrite a block of it.  Correct when
a pass finds the damage, erases are justified, and what can be recovered
stays recoverable.

**Offline verification** (`sector-os/src/verify.rs`).  Sweeps the blocks a manifest
says are written.  Correct when it takes neither the gap nor blocks being appended
for damage, finds what is damaged, and does not take a file that was cut for a volume.

**Layout** (`sector-build/src/emit.rs`, `sector-format`).  The builder computes
where every byte goes; mounts, queries, appends and sweeps compute it again.
Correct when they agree and when what was reserved can be used.

**Flash** (`sector-hal`, `sector-sim/src/sim_flash.rs`, `fault.rs`, `sector-core/src/append.rs`,
`sector-os/src/file.rs`, `mapped.rs`, `targets/`).  One contract, several
implementations: a simulator that refuses what NOR refuses and counts wear, a
file, a map, two device ports.  Correct when a block that is certified is one
that was appended, and all implementations read the same bytes.

**Socket file** (`sector-serve/src/server.rs`).  One path, any number of daemons that
look, connect, remove, bind and clean up.  Correct when the path names the
daemon that serves.

**Pure parts.**  CRC, GF(256) and Reed-Solomon (`sector-codec`), groups and
allocation of protection (`sector-build/src/allocate.rs`), what damage costs
(`sector-sim`, `criticality.rs`), quantisation (`sector-quant`), training and encoding
(`sector-build`), request framing (`http.rs`, `api.rs`, `json.rs`), profiles and
workspaces, board detection, the command line.

**Not modelled**: section 6.

How they meet: `append` and every reader share the image file and the slots;
the daemon's workers are such readers and never remount; a query runs inside a
worker and feeds its tallies; `verify` and `repair` work on the same blocks.

## 2. Modules

| module | models |
|---|---|
| `VectorStore` | what an appendable volume promises: an insert-only store |
| `VolumeAppend` | appenders, readers, kills and power loss over one image |
| `MCVolumeAppend` | symmetry for TLC |
| `VolumeAppendProofs` | proofs about `VolumeAppend`: types, records that follow ids |
| `StoreProofs` | proofs of what one appender promises: durability, mounts, refinement of `VectorStore` |
| `RaceProofs` | proofs of what racing appenders promise: intact blocks, no refusal, undisturbed readers |
| `PowerProofs` | proofs of what one appender promises when power goes: a volume that mounts, durability across one loss |
| `Daemon`, `MCDaemon` | workers, listeners, clients, counters, shutdown |
| `DaemonProofs` | proofs about `Daemon` |
| `Query`, `MCQuery` | one two-stage query |
| `QueryProofs` | proofs about `Query`: the heap, the scan, the answer, the counters |
| `Repair` | a scrub pass and repairs over the copies of a region |
| `RepairProofs` | proofs about `Repair` |
| `Socket` | daemons starting, stopping and crashing on one socket path |
| `Device` | a flash device under the embedded append, other writers, faults and power loss |
| `PartsProofs` | proofs about `Device`, `Socket` and `Verify` |
| `Layout` | the bytes of a volume as built, appended to and read |
| `Verify` | sweeps of a damaged or cut volume (extends `Layout`) |
| `Allocation` | groups of centroids, their weights and their parity |
| `Damage` | recall lost to corrupted centroids, and its bounds |
| `Codes` | the field, Reed-Solomon, the CRC, the choice among copies |
| `Quant` | rotation, distance tables, bit flips, relabelling |
| `Training` | datasets, Lloyd's iterations, encoding (extends `Quant`) |
| `Requests` | HTTP framing, batches, listings, documents |
| `Profiles` | tier profiles against the engine's buffers |
| `Board` | what machine this is and which binaries run on it |
| `Ports` | the ESP32 and RP2040 flash drivers, marks, timers, chip choice |
| `Host` | file and map backends, searchers, query and stats commands |
| `Commands` | argument parsing and exit statuses |
| `MCParts` | the bounded inputs of the modules from `Device` down |
| `MCClaims` | what comments say and the code does not do: an input, or a volume, that refutes each |

### VolumeAppend

`flash` gives the contents of each data block and of each CRC word.  A block's
bytes are the name of the append that wrote them and the id its first vector
would have there: enough to tell which vector a read yields, and whether a CRC
word is that of this block.  `slot` is what processes see, `slotDisk` what may be
on the device, `unsynced` the cells a power loss may take.

One action per point of `append` at which another process could see or do
something: `StartAppend` and `FinishMount` are the two slot reads of the mount,
`TakeLock` is `WritableVolume::open`, `Plan` is capacity, head and the check of
the rerank block (one step: only the lock holder writes), four actions program
blocks and CRC words, `EraseSlot`, `InstallManifest`, and `SyncAndReport`, which is
`sync_all` and the return.  `Kill` may come at any of these; the kernel keeps the
process's writes and drops its lock.  `PowerLoss` keeps any subset of unsynced
writes and tears any of the lost ones.  A reader mounts in two steps and keeps the manifest.

Abstractions: a batch is not a subset, bit for bit, of another (so programming a
programmed block is refused) and no block of codes is all `0xFF`; blocks persist
independently, while a page cache would write back 4 KiB at a time; the codebook,
profile and region table never change after a build and are left out; a mount reads each slot
twice, once to find the page size and once to select (`volume.rs:251`, `mount.rs:159`), and the
manifest it keeps comes from the second pair, the one modelled;
`capacity()` after the sync can only fail on I/O and is left out.

### VectorStore

`visible` and `stored` pairs of id and vector.  `VolumeAppend` instantiates it with
what the live manifest makes readable and what was acknowledged; `ImplementsStore`
is the refinement.

### Daemon

A worker is at a label of `serve_loop`, `handle_connection` or `route`; one action
each for opening the volume, polling either listener, reading, rejecting, each
route, each query of a batch, the tally, the fold and the response.  `delta` is what
a worker's searcher has counted and not folded; the shared storage total is kept
per worker so that `/stats` is the sum.  Clients connect, send (pipelining
allowed), and vanish at any time.

Abstractions: a request arrives whole; a write timeout is a client that is gone;
`shutdown`'s store and its two connects are one step; `stream.dup()` failures, the
2 ms sleep (a scheduling step) and a poisoned mutex are left out.

### Query

The heap is the code's array with `sift_up` and `sift_down`; the reader has its
buffer, its position and the gap; the drain, the rescoring, the insertion sort
and the counters are as in the code.  What a code scores is chosen when it is
first scored, together with what an undamaged copy would have scored; an exact
score is chosen when it is rescored, or the record is dropped.  Rotation, the distance
table and the wide kernels only determine scores and are left out.

### Repair

Each read, erase and program is a step.  Between steps blocks rot, an access
fails, or the power goes.  Nothing under `src/` outside tests calls `scrub_region`
and `repair_replicated`: the caller that walks the copies and repairs what was
reported is modelled from their signatures.

### Device

A byte is the set of its set bits, so a program is an intersection and erased is all of
them.  The simulator's refusals (bounds, alignment, a page programmed twice,
endurance) are guards; `fault.rs` is five actions that damage bytes; the append is its
two programs with power loss between and inside them.  `expect`, `sound` and `done`
are history.  One of the two blocks appended is all erased bytes.

### Socket

One action per system call of `Server::new`, so that two starts interleave; `Close` and
the guard's removal are separate, as the fields of `Server` are dropped in order.

### Layout and Verify

A byte is a name: what it is of, and which.  A CRC word is named by the bytes it
covers, so that it fits a block exactly when the block is unchanged.  Writer and
reader are translated apart, from `emit.rs` and from the readers' own arithmetic.
`Verify` adds changed blocks and a length at which the file was cut.

### The functions

`Allocation`, `Damage`, `Codes`, `Quant`, `Training`, `Requests`, `Profiles`, `Board`, `Ports`,
`Host` and `Commands` hold operators and, for each, a property that states
what the operator owes in terms that do not use it: the allocator against every
assignment within the budget, the decoder against every choice of survivors, a
score by table against the inner product with the reconstruction, the request
reader against the bytes a client meant, a port against an array of bytes, an
exit status against what was found.  Where the code has floating point the
modules have integers; where it has a seeded generator, a quantifier; widths are narrowed
(a field of eight elements, words of three and ten bits).

## 3. Runs

| run | shows |
|---|---|
| `append_kill` | one appender, two kills, a full reserve, a mounting reader: durability, one vector per id, recent mounts, no append refused as diverged for what a killed one left, the lock given back, refinement of `VectorStore` |
| `append_power` | a power loss between any two steps, batches of one block and of two: a live manifest, refinement |
| `append_race` | two appenders and a mounted reader, no crash: everything held is intact and verifies, no append is refused half way, readers undisturbed |
| `daemon_counts` | two workers, two connections: storage conserved, `/stats` exact, nothing ends a worker but shutdown, requests not cut short |
| `daemon_stop` | liveness, with more clients than workers: shutdown ends the daemon, a queued connection is served though silent clients hold every worker |
| `query_answer` | the heap, scan, answer and counters equal their definitions; damage displaces no more than `heap.rs` says |
| `repair_scrub` | a pass finds the damage; a repair risks only its sector |
| `parts` | one invariant per group of functions, over all their inputs, and the two machines `Device` and `Socket` |
| `stale_manifest` * | two appenders that mount before either locks: the second undoes the first |
| `wrong_bytes` * | a power loss lets a later append pair its code with an older record |
| `repair_loses` * | repairing a block erases its neighbours |
| `documented_claims` * | sixteen comments, each refuted by an input of the function it is about or by a run of appends with a kill and a power loss |

Runs with * are disagreements between the code and what the repository says of
it: TLC finds the behaviour, and `findings` in `PROJECT.json` quotes the
statement.

**Why the passing runs have the faults they have.**  Each is as strong as the code
allows.  `append_kill` has one appender because two lose acknowledged vectors
(`stale_manifest`).  `append_race` has no kills because a killed append leaves
blocks that the next append's extent covers, which are held and unreadable.  `append_kill` checks
`Appendable` with kills; with a power loss it is false, and a claim of `documented_claims`.
`append_power` has no kills, because a kill, an append and a power loss can leave no
manifest, and one power loss, because a second can take an acknowledged append (both in
section 5).  `repair_scrub` does not check `RecoverableKept`.

**Bounds.**  Appends: regions of four to ten blocks, so the reserve is exhausted
within three or four appends, with one or two records to a block where codes have
two, so that the two regions' heads differ.  A third kill repeats
what a second can do to the two slots; batches of one block and of two let an append after
the power loss end before, at or past the blocks the loss took.  Daemon: two workers (one to read while
the other folds), two connections on different listeners, two requests, batches of
two, one worker that fails to open; for liveness a third connection, so that silent
clients hold both workers while one more waits.  A client that sends within every 30 s may hold its
worker for ever, so `QueuedServed` is a promise about clients that stop sending: the bound on
requests stands for that.  Query: six codes with two to a block and a
buffer of two blocks, so that the buffer is refilled and the last read is short;
a heap of four, deep enough for a sift of two levels; three scores over six
codes force ties, and two damaged codes can meet in the heap.  Repair: two copies, two sectors of two blocks, three
blocks that rot, budgets that end inside, at and beyond the region.  Parts: in the
first step the state becomes one input of one function, or the device, or the socket
file, so each function is evaluated on every input and the invariant of its group
must hold there; the inputs are enumerated at the top of `MCParts`.  They hold what makes
the cases: record sizes that fill a block and do not, zero, one and three
copies, reserves of none and several units; every damaged block of a small volume and
every length of a cut file; rates that are not convex; every list of survivors
of four codes, repeats included; every request of up to two headers of ten kinds,
followed by another, and cut at every byte; every call at every address of a port.
The device has two blocks, one fault and one erase per sector; three daemons
share a path.  `documented_claims` tries its claims one to a step, in a fixed order, on a handful of
inputs each, and then runs appends on a volume of three blocks: a trace to its end refutes all of them,
and the property fails only there.  Symmetry is
used for processes and workers in runs without liveness properties.

**Deadlock** is not checked: appends, requests and damage are bounded, the functions take
one step, and every system here comes to rest.

**Fairness.**  `VolumeAppend!FairSpec`: a process that is not killed takes its next
step, since nothing in `append` waits (the lock is tried, not awaited).
`Daemon!FairSpec`: the kernel schedules each thread, a read on a silent stream
times out (`READ_TIMEOUT`), and the main thread joins the workers.  Nothing is
assumed of clients, which may send or stay silent.

## 4. Proofs

`VolumeAppendProofs`, for any appenders, readers, geometry and bounds, from the
assumptions in `VolumeAppend` only:

- `TypeCorrect`: `Spec => []TypeOK`, by one lemma per kind of step.
- `RecordsFollowIds`: if `MaxPowerLoss = 0`, `Spec => []NoCrossedRecords`.  The
  invariant is not inductive.  That a record agrees with the code under its id needs
  that the code was written before it, by the same append, at the ids its block covers,
  and that nobody else writes meanwhile.  `RecordInv` adds that only the lock
  holder is past the lock, how many blocks an append has written at each label, and
  that a record block lies only on the code block of the same append.  The rest is the
  arithmetic of blocks: records per block divide codes per block, so the rerank
  block a payload head implies starts at the same id.  Without the assumption it
  is false: `wrong_bytes`.

`StoreProofs`, for any readers, kills, geometry and bounds, from the same assumptions, one
appender (`OneAppender`) and `MaxPowerLoss = 0`:

- `AckedStaysDurable`: `Spec => []AckedDurable`.
- `AlwaysMounts`: `Spec => []LiveManifestExists`.
- `MountsAreRecent`: `Spec => []MountRecent`.
- `ManifestNeverRegresses`: `Spec => LiveNeverRegresses`, an action property.
- `VolumeImplementsStore`: `Spec => ImplementsStore`, the refinement of `VectorStore`.

None is inductive.  `StoreInv` adds to `RecordInv`, in named parts, the chain they rest
on: one slot verifies, the other is one generation behind or nothing, and each is in the
slot its sequence names (`SlotsInv`); every block below the live manifest's end is
programmed, so the head lies past every held id (`LiveFilled`); a running append extends
the live manifest, erases the slot the live one is not in, and has written the blocks
from its head to where it is (`CallInv`); what was acknowledged is held, and its four
cells are of one append (`AckedInv`); a reader between its two slot reads has a recent
manifest in hand or will find one in slot B (`ReaderInv`).  An install then only extends
the live manifest, and this one fact (`Extends`) gives every step of the refinement.
Both assumptions are needed for durability: `stale_manifest` is a second appender, and
section 5 describes the power loss after a kill.

`RaceProofs`, for any appenders, readers and geometry, with `MaxKills = 0`,
`MaxPowerLoss = 0` and `RecordsFillUnits` (the rerank region holds the records of a whole
number of payload blocks; the builder rounds a region to sectors of eight blocks):

- `RacingHeldIntact`: `Spec => []HeldIntact`.
- `RacingAlwaysMounts`: `Spec => []LiveManifestExists`.
- `RacingNeverRefused`: `Spec => []NeverRefused`.

... and with kills as well:

- `AppendableAfterKills`: `Spec => []Appendable`.  While nobody has been killed it is a fact about
  the frontier described next.  What kills leave is told by `RecordInv`: a record is never there
  without the code under its id, so where the head's code is missing its record is too, unless
  something is torn, and only a power loss tears (`NoneTorn`).

An appender mounts before it has the lock, so the manifest it holds may be several
installs old.  What it plans from is the medium, and the invariant is a frontier there: a
payload block such that all blocks before it are programmed and verify, in both
regions; that all blocks from it on are erased but for those the lock holder has written; and
that no manifest, live or in hand, ends beyond it.  A batch advances the frontier when
its last CRC word is programmed.  Each hypothesis is needed.  A kill leaves blocks that the
next append's extent covers (section 3); a power loss, a payload head below the rerank
region's (section 5).  Without `RecordsFillUnits` the erased slots of the rerank gap can be
counted as room for a unit that does not fit (section 5, `erased_slots`).

`PowerProofs`, for any readers, geometry and number of appends, with `OneAppender` and
`MaxKills = 0`:

- `PowerLossMounts`: `Spec => []LiveManifestExists`, for any `MaxPowerLoss`.
- `OneLossKeepsAcked`: `Spec => []AckedDurable`, and `OneLossImplementsStore`:
  `Spec => ImplementsStore`, with `RecordsFillUnits` and `MaxPowerLoss <= 1`.

The first needs only the slots (`SlotInv`).  When no slot is being replaced the device holds
what processes see (`Settled`); while one is, the other slot holds the manifest the append
extends, on the device too, and the slot being replaced holds nothing newer but its
successor (`Replacing`).  A kill breaks it: the append leaves without its sync.

For the second, after a loss little of `StoreInv` is left.  The live manifest may name blocks
the loss took, the head may lie below its end, and an append may be refused half way.
`KeepInv` is what does remain, loss or no loss: no head lies below the start of the appended run
or among acknowledged ids (`FilledTo`), so an append writes past both (`CallPast`), and
the manifest it extends keeps what was acknowledged, as does its successor even where that ends
earlier.  The loss itself preserves `KeepInv` because before it the invariant of
`RaceProofs` holds: no append was refused, so what is unsynced is of the batch being
written (`AtStake`), past all that the manifest in hand names.  The refinement then has one
step more than under `StoreInv`: a loss, or an install after it, may withdraw vectors, and
only unreported ones.  After a second loss durability is false (section 5): what a refused
append left is unsynced and is built upon.

- `MountedUndisturbed` (`RaceProofs`): `Spec => ReadersUndisturbed`, an action property, with no hypothesis at
  all: a programmed block is not programmed again, whoever appends or is killed, and
  a power loss leaves no reader mounted.

`DaemonProofs`, for any finite set of workers and any connections, requests and
batches:

- `DaemonTypeCorrect`: `Spec => []TypeOK`.
- `StorageNeverLost`: `Spec => []StorageConserved`, by what each step of a worker
  moves from its searcher's tally to the shared total.
- `StatsAreExact`: `Spec => []StatsExact`.  A response is assembled under the mutex from
  counters that other workers go on changing; the invariant bounds what a worker holds in
  hand, at each label, by what the request found and what has been performed since.
- `OnlyShutdownStops`: `Spec => []StopsWhenAsked`.
- `NoQueryCutShort`: `Spec => InFlightAnswered`, an action property.

`RepairProofs`, for any copies, sector geometry, budgets and faults:

- `RepairTypeCorrect`: `Spec => []TypeOK`.
- `RepairRisksOneSector` and `ErasesAreJustified`, two action properties.  Both
  need `RiskInv`: from the moment the primary was read as damaged until the repair
  returns, the block under repair is not good in the copy under repair, and the
  region is replicated.  So the good copy that `Recoverable` promises lies in
  another copy, which the erase does not touch.

- `PassFindsAllDamage`: `Spec => []PassFindsDamage`.  The invariant is about the part of
  the region behind the cursor: those blocks were verified, once each and in order, and what
  was damaged among them is reported, or lost with a failed call or a full buffer.

`PartsProofs`, about `Device` for any geometry, endurance, data, digest, other writers and bound
on faults:

- `ContractKept`: `DeviceSpec => [](ReadsBack /\ AppendedKept)`, from `DeviceAssumption` alone.  What
  stands needs `DeviceInv`: an untouched byte is as it was meant, and erased until its page is
  programmed; between its two writes an append has programmed the pages of its block; what a
  completed append wrote lies in pages that count as programmed.  No program can then reach it,
  and an erase, an image put in place, damage and a torn write are each of a run whose blocks are
  forgotten.  The arithmetic of pages and sectors (`PagesExact`, `SectorPages`) is proved from
  quotients, since the solver does no division by a constant it does not know.
- `FlashKeepsAppends`: `DeviceSpec => []DeviceFaithful`, which adds `AppendsWhole`.  It needs two
  facts of the volume.  `RegionsApart`: the payload region and its CRC array begin on sectors,
  do not overlap, and their cells divide a sector, as `region.rs` asks of every descriptor;
  an erase then takes a block whole or leaves it alone.  `DigestTells(held, slots)`: for some sets
  of what a block and its slot may come to hold (nothing, what is appended, a torn part of it,
  and what other writers put over it), no digest a slot may hold is that of a block that was not
  appended.  A 32-bit CRC does that for the contents at hand, not for all contents; a run
  checks both facts of its instance (`PartsAssumption`).  `Shapes` says that what each block and slot
  is meant to hold stays in those sets.

... about `Verify`, for any sizes, damage and length of file:

- `ReportIsTrue`: `VerifySoundUnder(volume, manifest, VerifyVolume(volume, manifest))` for every volume
  that its manifest `Describes`: ids in order, whole records to a block, a valid table whose
  regions hold what is counted.  The sweep is exact because a run of ids fills a run of blocks
  (`BlocksOfIds`) and the two spans meet when no gap was left (`SweepExact`); an estimate covers
  what is lost because a vector is told by its block and its place in it (`LostWithBlocks`, an
  injection); and every read of the sweep ends inside a region (`InspectedIsVerified`).
  `VerificationSound` is the same for `VerifySound`, of an image and its appends.  That build and
  append leave a manifest that describes the volume is checked, for each of the run's volumes
  (`VolumesDescribed`), not proved: the table is placed by a fold.  Records longer than a
  block are left out, since they are not read where they are written (the run `documented_claims`).

... and about `Socket`, for any set of daemons:

- `ServingOwnsPath`: `Spec => []SocketOwned`.  `Owned` says, as long as no two starts have
  overlapped, that at most one daemon is starting, that one past its bind is the one
  the path names, and that one about to remove or to bind has found that nobody serves.

`QueryProofs`, for any volumes, block size, buffer, `R`, `K`, scores and intruders:

- `HeapHoldsBest`: `Spec => []HeapKeepsBest`.
- `EachVectorScannedOnce`: `Spec => []ScansHeldOnce`.
- `IncumbentKept`: `Spec => []IncumbentSurvives`.
- `AnswerIsExact`: `Spec => []AnswerExact`.
- `CountersAgree`: `Spec => []StatsAgree`.

The sifts, the drain and the sort are recursive functions.  The library's induction theorems
take an operator as parameter, which the provers installed cannot instantiate; a set
of naturals that is not empty has a least member (`LeastNat`), which they can use, so each
induction is a least counterexample.  `Recursion` shows in this way that a recursion which
goes down a rank has a solution: TLA+ defines a recursive function by a `CHOOSE`, and nothing follows
from its equation before there is a function that satisfies it.  On that rest, for arrays of
any length: `SiftUpGood`, `SiftDownGood`, `PopGood`, `DrainGood` and `SortGood`, which say that
a heap stays one, of distinct candidates, and what each operation adds or takes.  Everything else is
`QueryInv`, checked by TLC over the state space of `query_answer` before it was proved.
`ScanAt` is a frontier `f`: the held ids below `f` are scored, from cells of
their own, and the rest of the run is the held ids from `f` to the block that is next.
`TopOf` says that the heap is all that was seen, or `R` candidates each better than every
other; `TopIsBest` turns that into the property's count of better candidates.
`IncumbentSurvives` follows by counting: what beats a vector now beat it undamaged or
is an intruder.  The assumptions used are those of `Query`; the manifest's
(`VolumesAssumption`) is that the appended ids start on a block, and that without any there is no gap.

Only model-checked: liveness, which needs ENABLED; and the functions of `parts` other than the
report of `Verify`, which are evaluated on bounded inputs.

## 5. Behaviour worth knowing

What is marked * is contradicted by a comment of the repository, and is a claim that `documented_claims`
refutes; the rest was seen while modelling and is not kept as a run.

Appends and volumes:

- `erased_slots` counts blocks behind the payload head and in the gap, which no
  append can use (`ingest.rs:219`): a batch can be admitted that does not fit.
- A kill leaves a manifest that processes see and the device may not hold *; the next append
  erases the other slot, and a power loss then leaves none (`ingest.rs:405`).  Two
  appenders and a kill can leave no valid manifest even without power loss.
- Two power losses can take an append that reported success, with one appender and no
  kill.  The first leaves a programmed rerank CRC word ahead of the head.  A batch of two
  blocks is refused there half way, and nothing syncs the blocks it wrote
  (`ingest.rs:333-373` returns before the `sync_all`).  The next append begins past
  them, and its manifest, with an appended run that starts there, reaches the device.  The second loss
  takes the refused blocks, so the head falls below the start of the run.  An append of
  one block then installs a manifest whose run starts past its end: `encode` does not check that and
  `decode` refuses it (`manifest.rs:224`), so the append reports success and the volume
  mounts with the manifest before it.
- A killed append leaves blocks of codes without records: `capacity` counts more room than the
  rerank region has left, once the reserve runs low.
- A power loss can leave a volume no append can extend *: the payload head comes
  back and the rerank block it implies is programmed (`diverged`).
- A batch is packed end to end and cut every 512 bytes, while the number of blocks
  is counted in whole records to a block (`ingest.rs:345-373`).  When the bytes of
  a code or of a record do not divide 512, blocks are cut across records and the
  last slice lies beyond the batch; when the records to a block do not divide the codes
  to a block, the rerank block may be refused as diverged.  `AppendedWhereRead` and
  `VolumeAppend`'s geometry are stated for sizes that divide.
- `sector append --dry-run` predicts the first id from the manifest and ignores the head and
  the capacity.
- `find_head` takes a block of `0xFF` bytes for free.  Nothing is lost, since the program
  is refused there, but no later append succeeds.  The same holds of a block that was
  torn back to erased bytes on a device that knows its pages are programmed; and the CRC
  word of four bytes is smaller than a device's page, so the embedded append runs on
  devices whose pages are no larger than that.
- `stored_bytes_per_vector_centi` adds nothing for the CRC of a record wider than a block.
- `build --b 4` and `--b 6` store one byte a code, while the mounted geometry counts `m * b / 8` *.
- A record wider than a block is written at the block of its id and read at that of its bytes *.
- Parsing a batch casts ids to 32 bits (`append_cmd.rs`); so does `from` of `/vectors`, which
  reads records without their CRC.

Queries:

- A volume built with `r` above 512 mounts, opens, and then refuses each query once it holds more
  than 512 vectors.  `Searcher::open` says a depth above the image's is refused
  (`search.rs:176`); only one above `MAX_R` is *.
- The Kac step repeats the first stage of the transform, so even and odd coordinates
  never mix (`rotate.rs:114`) *; for a length of one the inverse halves *.
- A code beyond the centroids scores differently in the scorers that `adc.rs` calls
  identical *.  A query's own rounding is outside "exact for ranking".
- `adc_bytes` is 2 in two tiers while the engine's table is of `i32`, so T2's table fills
  the L1 cache it is said to half fill *; `fixed_bytes` leaves out rotation and bounce.
- The mapped backend counts no `read` among its borrows, and zero bytes *.

Daemon and commands:

- A request that arrives on a kept-alive connection after the shutdown flag is
  set, while its worker is reading, is served before the worker leaves.
- A client that sends a request within every 30 s keeps its worker for as long as it likes.
- If every worker fails to open the volume, `run` returns `Ok`.
- Two daemons that start at once on a dead socket file can each remove the other's:
  `SocketOwned` excludes starts that overlap.  A signal between the bind and the
  handlers leaves the file.
- A header block that the stream ends in place of a blank line counts as ended.
- The exit codes of `main.rs:37` and of the help (`main.rs:227`) give 2 to a state that still works.
  `doctor` ends with 1 there and with 2 where the binary cannot run *, and `verify` uses 2 as
  well, for a volume it could not read *.  `verify` exits 1 for wrong arguments as for damage; `--id` or `--socket` without a value is taken as absent.

Damage and ports:

- The codebook's copies are compared by `verify` (only the first replica, not its slack) and
  never checked or selected when a volume is mounted.  `--copies 1` reports agreement.
- `vectors_with_bad_codes` counts whole blocks; for records wider than a block the sweep visits the
  wrong number of blocks.
- A read error in a scrub call loses the failures found earlier in that call,
  while the cursor has moved past them.
- Repairing several damaged blocks of one sector never ends: each repair erases
  the block rewritten by the one before.
- The depths handed to the bound on the loss count from 0 and its argument from 1
  (`corrupt.rs:272`, `314`), so a neighbour at the threshold is missed, and the claim that
  `sweep.rs:132` makes of the bound can come out refuted *.  `LossBounded` is of ranks from 1.
- Of two rates of one cost `envelope` keeps the one that protects less (`allocate.rs:100`) *, and the
  allocation may then not be the best: `ProtectionSound` compares it with the best only where costs differ.
- `permute_codes` has changed the codes before the one it refuses.
- `reject_second_chip` names pairs, and lets `c5` with `c6` and `s2` with `s3` through; the build
  script does not *.  `EspFlash::new` does not ask that its base be aligned, and refuses a
  read wider than its window as out of bounds; its `program` carries out a second program of a page,
  which its comment says is rejected (`lib.rs:296`) *.  Times longer than the timer's low word wrap.

## 6. What is left

Not modelled, and why:

- `sector-bench`, `bench`: measurement of time; no state but a stopwatch's.
- Error and report types: data without behaviour; where an error is returned and in
  which order is in the modules of the operations.
- Packaging, scripts, documents, start-up code and linker scripts of the ports.
- Floating point itself: rounding, saturation and the order of sums; the seeded
  generators, which are quantified over.
- The wide scan kernels, which compute the sums of `Quant` several at a time.
- The block cache of `volume.rs`, sockets handed over by systemd, signal handlers, the text
  of responses and reports, the field offsets of headers.

Modelled apart rather than composed: the workers of `Daemon` are readers of
`VolumeAppend`, each mounts once and keeps its manifest (`MountRecent`,
`ReadersUndisturbed` for readers that mount at any time); their product with the
request loop adds no step that touches both.

Not proved: what a second power loss leaves true of what was acknowledged, what kills leave
true of racing appenders (but for `Appendable`), and what section 4 says of the functions of `parts` other than the
report of `Verify`.

The runs are kept to a dozen, so that all of them are run on every change: the
functions share one, and so do the claims of comments that a single input refutes.  The other
disagreements are described in section 5.
