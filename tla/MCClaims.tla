------------------------------ MODULE MCClaims ------------------------------
(***************************************************************************)
(* What comments of the repository say and the code does not do.  Each     *)
(* claim is an operator of the module that models the code, with the       *)
(* comment quoted beside it, or a fact about VolumeAppend's states.        *)
(*                                                                         *)
(* The claims about functions are tried first, one to a step: a step is    *)
(* possible only if some input refutes the claim, and keeps one such input *)
(* in "witness".  Then appends are run, with a kill and a power loss.      *)
(***************************************************************************)
EXTENDS VolumeAppend, Sequences

VARIABLES
  refuted,   \* the claims refuted so far, in order
  witness    \* the input that refuted the last one

Layouts == INSTANCE Layout WITH
  BlockBytes <- 16, SectorBytes <- 144, MaxAddress <- 100000, ByteBits <- 2
ProfilesHere == INSTANCE Profiles WITH BlockBytes <- 512
Damages == INSTANCE Damage WITH R <- 2, K <- 2, Centroids <- 3, Magnitude <- 2
Allocations == INSTANCE Allocation WITH
  SectorBytes <- 8, MinGroups <- 2, MaxGroups <- 3, ParityUnit <- 4
Quants == INSTANCE Quant WITH ComponentBits <- 3, ScoreBits <- 10, MaxPasses <- 3, Unit <- 2
PortsHere == INSTANCE Ports WITH
  AccessBytes <- 2, PageBytes <- 4, SectorBytes <- 8, Word <- 64, Bits <- {0, 1}
HostHere == INSTANCE Host WITH
  DeviceBlock <- 2, MapPage <- 4, HeaderBytes <- 4, MaxLength <- 12, MaxR <- 3, BounceBytes <- 2
CommandsHere == INSTANCE Commands WITH
  Numerals <- [w \in {"0", "1", "9"} |-> CASE w = "0" -> 0 [] w = "1" -> 1 [] OTHER -> 9], U32 <- 8
Boards == INSTANCE Board

---------------------------------------------------------------------------
(* The inputs on which each claim is tried.                                *)

\* Records of a block and a half; codes of half a byte.
Image(m, d, b) == [n |-> 2, m |-> m, d |-> d, b |-> b, r |-> 3, copies |-> 1, reserve |-> 0]
WideImages   == {Image(3, d, 2) : d \in {4, 24}}
PackedImages == {Image(4, 4, b) : b \in {1, 2}}

\* Two queries over four vectors, every way of giving these three centroids.
Instances ==
  {[codes |-> c, scores |-> <<<<2, 1, 1, 0>>, <<1, 1, 2, 0>>>>, truths |-> <<<<1, 2>>, <<1, 3>>>>] :
     c \in [1 .. 4 -> 0 .. 2]}

\* Rates of two parities, the costs of which round to one number.
RateSets ==
  {[bytes |-> b, rates |-> {[parity |-> 0, residual |-> 60], [parity |-> 2, residual |-> x],
                            [parity |-> 3, residual |-> y]}] :
     b \in 1 .. 4, x \in {10, 25}, y \in {10, 25}}

Rotations == {[len |-> l, rounds |-> 3] : l \in {4, 8}}
Signs(len) == [i \in 0 .. len - 1 |-> i % 3 = 0]
ShortVectors == {[i \in 0 .. n - 1 |-> x] : n \in 1 .. 2, x \in -2 .. 2}

FromZero(s) == [i \in 0 .. Len(s) - 1 |-> s[i + 1]]
Books == <<[rows |-> FromZero(<<<<1>>, <<2>>>>)], [rows |-> FromZero(<<<<3>>, <<-1>>>>)]>>
CodePairs == [1 .. 2 -> 0 .. 2]

Programs ==
  {[volume |-> [port |-> "esp", base |-> 8, len |-> 16, physics |-> "nor",
                part |-> [a \in 0 .. 31 |-> IF a < e THEN {0} ELSE {0, 1}]],
    op |-> [is |-> "program", addr |-> 4, data |-> [i \in 1 .. 4 |-> {1}]]] : e \in {0, 16}}
ChipSets == {{a, b} : a, b \in PortsHere!Chips}

Depths == {[asked |-> a, geometry |-> [d |-> 4, m |-> 2, centroids |-> 4, r |-> r, n |-> 2]] :
             a \in 0 .. 4, r \in 1 .. 3}
MapReads == {[is |-> "read", addr |-> a, n |-> n] : a \in 0 .. 3, n \in 1 .. 3}
Answers == {[is |-> i, answer |-> [ok |-> o, found |-> f]] :
              i \in {"verify", "doctor", "query"}, o \in BOOLEAN, f \in 0 .. 2}
Machines ==
  {[machine |-> [core |-> "armv6", revision |-> <<>>, model |-> {"raspberry pi", "zero"}], abi |-> a] :
     a \in Boards!Abis}

---------------------------------------------------------------------------
(* The claims.                                                             *)

FunctionClaims ==
  <<"wide records", "packed codes", "table of i16", "bridge bound", "lower envelope",
    "no invariant part", "exact inverse", "scorers alike", "re-program rejected",
    "pairs catch any two", "deeper refused", "map counts", "only doctor ends with 2",
    "2 still works">>
Claims == FunctionClaims \o <<"appendable after a crash", "previous manifest selected">>

\* One claim after the other.
Refuted(claim) ==
  /\ Len(refuted) < Len(Claims) /\ claim = Claims[Len(refuted) + 1]
  /\ refuted' = Append(refuted, claim)

\* The first input that refutes the claim is kept.
Refute(claim, Holds_(_), inputs) ==
  LET against == {i \in inputs : ~Holds_(i)}
  IN  /\ Refuted(claim)
      /\ against # {}
      /\ witness' = CHOOSE i \in against : TRUE
      /\ UNCHANGED vars

Try ==
  \/ Refute("wide records", Layouts!EmittedWhereRead, WideImages)
  \/ Refute("packed codes", Layouts!CodesWhereRead, PackedImages)
  \/ Refute("table of i16", ProfilesHere!TableCovered, ProfilesHere!Tiers)
  \/ Refute("bridge bound", Damages!BridgeHolds, Instances)
  \/ Refute("lower envelope", LAMBDA s : Allocations!EnvelopeIsLower(s.rates, s.bytes), RateSets)
  \/ Refute("no invariant part",
            LAMBDA r : Quants!NoPartInvariant(r.len, Signs(r.len), r.rounds), Rotations)
  \/ Refute("exact inverse",
            LAMBDA v : Quants!InverseExact(v, [i \in DOMAIN v |-> FALSE], 1), ShortVectors)
  \/ Refute("scorers alike", LAMBDA c : Quants!ScorersAlike(<<1, 1>>, Books, c), CodePairs)
  \/ Refute("re-program rejected", LAMBDA p : PortsHere!ReprogramRejected(p.volume, p.op), Programs)
  \/ Refute("pairs catch any two", PortsHere!PairsCatchAnyTwo, ChipSets)
  \/ Refute("deeper refused", LAMBDA x : HostHere!DeeperRefused(x.geometry, x.asked), Depths)
  \/ Refute("map counts", LAMBDA op : HostHere!MapCountsReal(<<3, 1, 4, 1, 5>>, op), MapReads)
  \/ Refute("only doctor ends with 2",
            LAMBDA x : CommandsHere!OnlyDoctorEndsTwo(x.is, x.answer), Answers)
  \/ Refute("2 still works", LAMBDA x : Boards!TwoStillWorks(x.machine, x.abi), Machines)

\* Appends to a volume follow, from a new one after each claim.
RunAppends ==
  /\ Len(refuted) >= Len(FunctionClaims)
  /\ Next
  /\ UNCHANGED <<refuted, witness>>

\* Init, as the outcome of a step.
NewVolume ==
  /\ flash' = [c \in Cell |-> IF BuiltCell(c) THEN Data(0, 0) ELSE Blank]
  /\ unsynced' = {}
  /\ slot' = [s \in Slot |-> IF s = "A" THEN BuiltManifest ELSE NoManifest]
  /\ slotDisk' = [s \in Slot |-> {slot'[s]}]
  /\ lock' = {}
  /\ pc' = [a \in Appenders |-> "idle"]
  /\ call' = [a \in Appenders |-> NoCall]
  /\ outcome' = [a \in Appenders |-> "none"]
  /\ reader' = [r \in Readers |-> Unmounted]
  /\ nextOp' = 1 /\ kills' = 0 /\ losses' = 0
  /\ acked' = {[op |-> 0, first |-> 0, count |-> BuiltN]}

Conclude(claim, broken) ==
  /\ Refuted(claim)
  /\ broken
  /\ witness' = [slot |-> slot, outcome |-> outcome]
  /\ NewVolume

\* "a crashed append does not leave a volume permanently unappendable" (ingest.rs:465): after
\* a power loss an append is refused as diverged, which changes nothing on the volume, so
\* every later one is.
Diverged == \E a \in Appenders : outcome[a] = "diverged"

\* "a power loss here leaves the previous manifest selected" (ingest.rs:402), of the erase of the
\* spare slot: after a power loss no slot verifies.  The live slot was installed by an append
\* that was killed before its sync.
RunAndConclude ==
  \/ RunAppends
  \/ Conclude("appendable after a crash", Diverged)
  \/ Conclude("previous manifest selected", ~Live.valid)

MCInit == Init /\ refuted = <<>> /\ witness = [none |-> TRUE]
MCSpec == MCInit /\ [][Try \/ RunAndConclude]_<<vars, refuted, witness>>

---------------------------------------------------------------------------
\* Of what the repository's comments say in the sixteen places quoted with the claims, at
\* least one thing is left standing.  It is violated only in a state that is reached when each
\* claim has been refuted, by the input kept at its step or, for the last two, by the state of
\* the volume kept there: all sixteen are wrong.
SomeClaimStands == Len(refuted) < Len(Claims)
=============================================================================
