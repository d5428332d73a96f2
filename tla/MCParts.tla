------------------------------ MODULE MCParts ------------------------------
(***************************************************************************)
(* The parts that are functions, or small machines of their own, for TLC.  *)
(* A state is one input of one function, chosen in the first step, or a    *)
(* state of the device or of the socket file: "input" says which.          *)
(***************************************************************************)
EXTENDS Codes, Socket, Device

VARIABLE input

Layouts == INSTANCE Layout WITH
  BlockBytes <- 16, SectorBytes <- 144, MaxAddress <- 100000, ByteBits <- 2
Verifies == INSTANCE Verify WITH
  BlockBytes <- 16, SectorBytes <- 144, MaxAddress <- 100000, ByteBits <- 2
Allocations == INSTANCE Allocation WITH
  SectorBytes <- 8, MinGroups <- 2, MaxGroups <- 3, ParityUnit <- 4
Damages == INSTANCE Damage WITH R <- 2, K <- 2, Centroids <- 3, Magnitude <- 2
Trainings == INSTANCE Training WITH
  ComponentBits <- 3, ScoreBits <- 10, MaxPasses <- 3, Unit <- 2,
  Common <- 12, HeadBytes <- 2, ByteBase <- 4, MaxDim <- 4
RequestsHere == INSTANCE Requests WITH
  MaxHeaderBytes <- 12, MaxHeaders <- 2, MaxBodyBytes <- 2, Dimension <- 2,
  MaxEnumerate <- 5, Words <- 8
ProfilesHere == INSTANCE Profiles WITH BlockBytes <- 512
Boards == INSTANCE Board
PortsHere == INSTANCE Ports WITH
  AccessBytes <- 2, PageBytes <- 4, SectorBytes <- 8, Word <- 64, Bits <- {0, 1}
HostHere == INSTANCE Host WITH
  DeviceBlock <- 2, MapPage <- 4, HeaderBytes <- 4, MaxLength <- 12, MaxR <- 3, BounceBytes <- 2
CommandsHere == INSTANCE Commands WITH
  Numerals <- [w \in {"0", "1", "9"} |-> CASE w = "0" -> 0 [] w = "1" -> 1 [] OTHER -> 9], U32 <- 8

(* The device: a byte is the set of its set bits, of two; there are two    *)
(* blocks of two bytes, one of them all erased bytes.                      *)

Blocks2 == {<<{0, 1}, {0, 1}>>, <<{0}, {}>>}
SymmetricDifference(p, q) == (p \ q) \cup (q \ p)
Digest(d) ==
  <<SymmetricDifference(SymmetricDifference(d[1], d[2]), {0}), SymmetricDifference(d[2], {1})>>
OtherWrites == {<<{}, {1}>>}

\* What a block and its slot may hold there: torn parts, and the writes at 2 and at 5.
HeldBlocks ==
  [b \in 0 .. 1 |-> {<<{0, 1}, {0, 1}>>, <<{0}, {0, 1}>>, <<{0}, {}>>}
                       \cup (IF b = 1 THEN {<<{}, {1}>>} ELSE {})]
TornDigests == {Torn(Digest(d), w) : d \in Blocks2, w \in 0 .. 2}
HeldSlots ==
  [b \in 0 .. 1 |-> TornDigests \cup {IF b = 0 THEN <<s[1], {}>> ELSE <<{1}, s[2]>> : s \in TornDigests}]

ASSUME PartsAssumption ==
  /\ Layouts!LayoutAssumption /\ Allocations!AllocationAssumption
  /\ Damages!DamageAssumption
  /\ DeviceAssumption /\ RegionsApart /\ DigestTells(HeldBlocks, HeldSlots)

---------------------------------------------------------------------------
(* Layouts: every record size that fills a block and one that does not, a  *)
(* reserve or none.  A code is as wide as a byte, here of two bits, and no *)
(* record is longer than a block: the other volumes that can be built are  *)
(* inputs of MCClaims.                                                     *)

BuiltImages ==
  {[n |-> n, m |-> m, d |-> d, b |-> 2, r |-> 3, copies |-> c, reserve |-> v] :
     n \in {1, 3, 7}, m \in {1, 3, 4}, d \in {4, 12}, c \in {1, 3}, v \in {0, 1, 5}}

LayoutInputs == {[kind |-> "image", image |-> i] : i \in BuiltImages}

Profiles == [d : {4, 8}, m : {1, 2}, b : {1, 2}, cb_bytes : {1}, r : 1 .. 2]
BindInputs ==
  {[kind |-> "bind", profile |-> p, manifest |-> m,
    buffers |-> [adc_table |-> a, heap |-> h, rotation |-> o, bounce |-> 1]] :
     p \in Profiles, m \in Profiles, a \in {4, 8}, h \in {1, 2}, o \in {4, 8}}

(* Verification: volumes of two copies with an append or none, and a few   *)
(* blocks changed, or a file cut at every block and just before its end.   *)

UnitOf(i) == Verifies!AppendUnit(Verifies!EmitPerPayload(i), Verifies!EmitPerRerank(i))
KeptImages ==
  UNION {LET plain == [n |-> n, m |-> m, d |-> d, b |-> 2, r |-> 3, copies |-> 2, reserve |-> 0]
         IN  {[plain EXCEPT !.reserve = k * UnitOf(plain)] : k \in 0 .. 2} :
           n \in {1, 3, 7, 13}, m \in {1, 3, 4}, d \in {4, 12}}
Intact(i) == [b \in Verifies!CodebookBlocks(i) |-> 0]
DamagedVolumes ==
  UNION {{[image |-> i, appended |-> k * UnitOf(i), payload |-> p, rerank |-> q,
           codebook |-> <<Intact(i), c>>,
           length |-> Verifies!End(Verifies!EmitTable(i)[6])] :
             k \in 0 .. i.reserve \div UnitOf(i), p \in {{}, {0}, {1, 2}}, q \in {{}, {1}, {0, 3}},
             c \in {Intact(i), [Intact(i) EXCEPT ![0] = 1]}} : i \in KeptImages}
Lengths(i) ==
  LET end == Verifies!End(Verifies!EmitTable(i)[6])
  IN  {16 * k : k \in 0 .. end \div 16} \cup {end - 1, 1, 287}
CutVolumes ==
  UNION {{[image |-> i, appended |-> i.reserve, payload |-> {}, rerank |-> {},
           codebook |-> <<Intact(i), Intact(i)>>, length |-> l] : l \in Lengths(i)} :
           i \in {j \in KeptImages : j.n = 7}}
VolumeInputs == {[kind |-> "volume", volume |-> v] : v \in DamagedVolumes \cup CutVolumes}

ASSUME VolumesDescribed ==
  \A v \in DamagedVolumes \cup CutVolumes :
    Verifies!Emits(v.image) => Verifies!Describes(Verifies!ManifestOf(v), v)

(* Protection: groups of a codebook, rates and a budget, and damage.       *)

RateSets ==
  {{[parity |-> 0, residual |-> x], [parity |-> 1, residual |-> y], [parity |-> p, residual |-> z]} :
     p \in {2, 3}, x \in {0, 10, 25, 60}, y \in {0, 10, 25, 60}, z \in {0, 10, 25, 60}}
AllocationInputs ==
  {[kind |-> "allocation",
    problem |-> [weights |-> w, bytes |-> b, rates |-> r, budget |-> u]] :
     w \in {<<1, 3>>, <<3, 1>>, <<3, 3>>}, b \in {<<4, 9>>, <<9, 9>>}, r \in RateSets,
     u \in {0, 5, 9}}
GroupInputs ==
  {[kind |-> "groups", total |-> t, count |-> c, bytes |-> b] :
     t \in 0 .. 10, c \in 1 .. 4, b \in 1 .. 5}
WeightInputs ==
  {[kind |-> "weights", weights |-> w, count |-> c] :
     w \in UNION {[1 .. n -> {0, 2, 5}] : n \in 1 .. 4}, c \in 1 .. 4}
DamageInputs ==
  {[kind |-> "damage",
    instance |-> [codes |-> c, scores |-> <<s, t>>, truths |-> <<u, <<1, 3>>>>]] :
     c \in [1 .. 4 -> 0 .. 2], s \in {<<2, 1, 1, 0>>, <<0, 2, 2, 1>>, <<1, 1, 2, 0>>},
     t \in {<<2, 1, 1, 0>>, <<0, 2, 0, 1>>}, u \in {<<1, 2>>, <<2, 3>>, <<4, 1>>}}

(* Codes: every product of the field, every choice of survivors of small   *)
(* codes, pairs of messages, and copies of two blocks each.                *)

FieldInputs == {[kind |-> "field", a |-> a, b |-> b, n |-> n] : a, b \in Field, n \in 0 .. 4}
DecodeInputs ==
  UNION {{[kind |-> "decode", n |-> s[1], k |-> s[2], data |-> d, indices |-> i] :
            d \in [1 .. s[2] -> {<<1, 5>>, <<7, 0>>}],
            i \in UNION {[1 .. l -> 0 .. s[1] - 1] : l \in (s[2] - 1 .. s[2]) \ {0}}} :
           s \in {<<2, 1>>, <<4, 2>>, <<5, 3>>, <<6, 3>>}}
CrcInputs ==
  {[kind |-> "crc", a |-> a, b |-> b] : a \in [1 .. 3 -> {0, 1, 3}], b \in [1 .. 3 -> 0 .. 3]}
CopyBlocks == {<<0, 0>>, <<1, 1>>, <<2, 3>>}
CopyInputs ==
  {[kind |-> "copies", copies |-> <<a, b, c>>] :
     a \in [1 .. 2 -> CopyBlocks],
     b \in UNION {[1 .. i -> CopyBlocks \cup {<<2>>}] : i \in 1 .. 2},
     c \in {<<x, <<1, 1>>>> : x \in CopyBlocks}}

(* Quantisation: vectors are functions from 0, as in the module.           *)

FromZero(s) == [i \in 0 .. Len(s) - 1 |-> s[i + 1]]
RotationInputs ==
  {[kind |-> "rotation", v |-> FromZero(s), signs |-> [i \in 0 .. Len(s) - 1 |-> i % 3 = 0],
    rounds |-> r] :
     s \in UNION {[1 .. n -> {-7, 0, 3}] : n \in 1 .. 4} \cup [1 .. 8 -> {-2, 1}], r \in 0 .. 2}
Books ==
  {<<[rows |-> FromZero(<<a, b>>)], [rows |-> FromZero(<<c, d>>)]>> :
     a \in {<<-3, 2>>, <<1, 0>>}, b \in {<<3, 3>>, <<-4, 1>>}, c \in {<<-3, 2>>, <<1, 0>>},
     d \in {<<-4, 1>>, <<0, -1>>}}
ScoreInputs ==
  {[kind |-> "score", q |-> q, books |-> bs, a |-> a, b |-> b] :
     q \in [1 .. 4 -> {-4, 3}], bs \in Books, a \in {<<0, 1>>, <<1, 1>>}, b \in [1 .. 2 -> 0 .. 1]}
FlipInputs ==
  {[kind |-> "flip", q |-> q, books |-> bs, j |-> j, c |-> c, i |-> i, bit |-> bit, a |-> <<0, 1>>] :
     q \in {<<3, -4, 0, 2>>, <<-4, 1, 3, 3>>}, bs \in Books, j \in 1 .. 2, c \in 0 .. 1,
     i \in 1 .. 2, bit \in 0 .. 2}
LabelInputs ==
  {[kind |-> "label", rows |-> FromZero(s), codes |-> c] :
     s \in [1 .. 4 -> {<<0>>, <<1>>, <<3>>}] \cup [1 .. 4 -> {<<0, 3>>, <<3, 0>>, <<3, 3>>}],
     c \in {<<0, 1, 2, 3>>, <<2, 4, 1>>}}
HalfStepInputs ==
  {[kind |-> "step", rows |-> FromZero(<<<<x, y>>, <<0, z>>>>), q |-> <<w, x>>] :
     x \in -5 .. 5, y \in -5 .. 5, z \in {-4, 1, 3}, w \in {-2, 0, 3}}

(* Training: files of bytes, four points of a line, four vectors of two    *)
(* subspaces.  Building starts from a training that has been computed.     *)

FileInputs ==
  {[kind |-> "file", file |-> f] :
     f \in UNION {[1 .. n -> 0 .. 2] : n \in 0 .. 5}
             \cup {<<1, 0, 2, 1, 0, 3>>, <<2, 0, 3, 3, 2, 0, 1, 1>>, <<1, 0, 2, 2, 0, 3>>}}
TrainInputs ==
  UNION {{[kind |-> "train", points |-> p, chosen |-> c, iterations |-> i] :
            c \in Trainings!InitialChoices(p, 2), i \in 0 .. 3} :
           p \in [1 .. 4 -> {<<0>>, <<3>>, <<7>>}] \cup {<<<<0>>, <<1>>, <<3>>, <<8>>>>}}
Corpora ==
  {<<a, <<5, 2>>, b, <<6, 0>>>> : a \in {<<0, 0>>, <<1, 3>>}, b \in {<<2, 2>>, <<7, 1>>}}
TrainedInputs ==
  UNION {{[kind |-> "trained", corpus |-> c,
           books |-> Trainings!TrainBooks(c, 2, <<s, <<1, 2, 3, 4>>>>, 2)] :
            s \in Trainings!InitialChoices(Trainings!Subvectors(c, 1, 1), 4)} : c \in Corpora}

(* Requests: heads of up to three lines besides the first and the blank.   *)

L(is, value, size) == RequestsHere!Line(is, value, size)
FirstLines == {L("request11", 1, 4), L("request10", 1, 4), L("request11", 1, 13), L("blank", 0, 2)}
HeaderLines ==
  {L("length", v, 3) : v \in 0 .. 3} \cup {L("other", 0, s) : s \in {2, 6}}
    \cup {L(is, 0, 3) : is \in {"close", "keep-alive", "chunked", "text/plain", "badlength",
                               "nocolon"}}
Asked ==
  {<<f>> \o h \o <<L("blank", 0, 2)>> :
     f \in FirstLines, h \in UNION {[1 .. n -> HeaderLines] : n \in 0 .. 2}}
Crowded ==
  {<<L("request11", 1, 4)>> \o h \o <<L("blank", 0, 2)>> :
     h \in [1 .. 3 -> {L("other", 0, 1), L("length", 2, 2)}]}
NextAsked ==
  {<<L("request11", 2, 4), L("blank", 0, 2)>>, <<L("blank", 0, 2)>>,
   <<L("request10", 2, 4), L("length", 2, 3), L("blank", 0, 1)>>}
PipelineInputs ==
  {[kind |-> "pipeline", one |-> one, two |-> two] : one \in Asked \cup Crowded, two \in NextAsked}
CutInputs ==
  UNION {{[kind |-> "cut", lines |-> l, bytes |-> c, how |-> h] :
            c \in 1 .. RequestsHere!SizeOf(RequestsHere!Sent(l)) - 1,
            h \in {"other", "nocolon", "length"}} : l \in Asked}
BatchInputs ==
  {[kind |-> "batch", bytes |-> b, lines |-> l] :
     b \in 0 .. 17, l \in UNION {[1 .. n -> UNION {[1 .. k -> {"1", "word"}] : k \in 0 .. 3}] :
                                   n \in 0 .. 2}}
ListInputs ==
  {[kind |-> "list", manifest |-> m, from |-> f, count |-> c] :
     m \in [built_n : 0 .. 2, appended_from : 2 .. 3, n : 3 .. 4]
             \cup {[built_n |-> 0, appended_from |-> 0, n |-> k] : k \in 0 .. 1},
     f \in 0 .. 9, c \in 0 .. 6}
DocumentInputs ==
  {[kind |-> "document", ops |-> o, chars |-> c] :
     o \in UNION {[1 .. n -> {"value", "object", "array", "end"}] : n \in 1 .. 5},
     c \in {<<"quote">>, <<"backslash", "quote">>, <<"newline", "x", "backslash">>}}

(* Profiles: the tiers, and small ones of every width of table entry.      *)

SmallProfiles ==
  {[d |-> d, m |-> m, b |-> b, cb_bytes |-> c, rerank_bytes |-> 1, adc_bytes |-> a,
    r |-> r, k |-> 1, ram_budget |-> u, stack_reserve |-> 16] :
     d \in {8, 16}, m \in {2, 4}, b \in {4, 8}, c \in {1, 4}, a \in {2, 4}, r \in {1, 5},
     u \in {700, 2000, 20000}}
ProfileInputs ==
  {[kind |-> "profile", profile |-> p] : p \in ProfilesHere!Tiers \cup SmallProfiles}

(* Boards: what each is, and what of it is shown.                          *)

Rev(new, id) == <<[new |-> new, id |-> id]>>
Known ==
  {<<"armv6", Rev(FALSE, 0), {"model b"}>>, <<"armv6", Rev(TRUE, 0), {"zero"}>>,
   <<"armv6", Rev(TRUE, 0), {}>>, <<"armv6", Rev(TRUE, 0), {"compute module 1"}>>,
   <<"armv7", Rev(TRUE, 1), {"pi 2", "model b"}>>, <<"armv8", Rev(TRUE, 2), {"pi 2", "model b"}>>,
   <<"armv8", Rev(TRUE, 2), {"pi 3", "model b"}>>, <<"armv8", Rev(TRUE, 2), {"zero 2", "zero"}>>,
   <<"armv8", Rev(TRUE, 2), {"compute module 3"}>>, <<"armv8", Rev(TRUE, 3), {"pi 4", "model b"}>>,
   <<"armv8", Rev(TRUE, 3), {"pi 4", "pi 400"}>>, <<"armv8", Rev(TRUE, 4), {"pi 5", "model b"}>>,
   <<"armv8", Rev(TRUE, 4), {"pi 5", "pi 500"}>>, <<"armv8", Rev(TRUE, 5), {"pi 6", "model b"}>>,
   <<"other", <<>>, {}>>}
Machines ==
  UNION {{[core |-> b[1], revision |-> r, model |-> w] :
            r \in {b[2], <<>>}, w \in {b[3] \cup {"raspberry pi"}, {}}} : b \in Known}
BoardInputs ==
  {[kind |-> "board", machine |-> w, abi |-> a] : w \in Machines, a \in Boards!Abis}

(* Ports: regions that begin at a sector, a word or neither, and calls on  *)
(* every address; marks, times, firmware and chips.                        *)

Flashed(port, base, len, physics) ==
  [port |-> port, base |-> base, len |-> len, physics |-> physics,
   part |-> [a \in 0 .. 47 |-> CASE a % 4 = 0 -> {0, 1} [] a % 4 = 1 -> {0}
                                  [] a % 4 = 2 -> {1} [] OTHER -> {}]]
Volumes ==
  {Flashed(port, base, len, "nor") :
     port \in {"esp", "pico", "stub"}, base \in {0, 2, 3, 8, 24}, len \in {16, 24}}
Calls ==
  {[is |-> "read", addr |-> a, n |-> n] : a \in 0 .. 26, n \in 0 .. 15}
    \cup {[is |-> "read", addr |-> 60, n |-> 8], [is |-> "erase", addr |-> 56]}
    \cup {[is |-> "erase", addr |-> a] : a \in 0 .. 26}
    \cup {[is |-> "program", addr |-> a, data |-> [i \in 1 .. n |-> {i % 2}]] :
             a \in 0 .. 26, n \in {0, 3, 4, 8}}
PortInputs ==
  {[kind |-> "port", volume |-> v, op |-> o] :
     v \in {w \in Volumes : PortsHere!Maps(w.port, w.base, w.len, 48)}, o \in Calls}
MeasureInputs ==
  {[kind |-> "measure", volume |-> Flashed(p, b, 32, x)] :
     p \in {"esp", "pico"}, b \in {0, 16}, x \in {"nor", "ignored", "overwritten"}}
MarkOf(i) == [phase |-> PortsHere!Phases[(((i - 1) \div 2) % 5) + 1],
              edge |-> IF i % 2 = 1 THEN "Enter" ELSE "Leave"]
MarkInputs == {[kind |-> "marks", marks |-> [i \in 1 .. n |-> MarkOf(i)]] : n \in 0 .. 20}
TimeInputs ==
  {[kind |-> "times", cycles |-> c, from |-> f, to |-> t] :
     c \in [1 .. 5 -> {0, 7, 20}], f \in {0, 5, 60}, t \in {0, 5, 63, 64, 68, 130}}
ChipInputs ==
  {[kind |-> "chips", selected |-> s, target |-> t] :
     s \in {{a, b} : a, b \in PortsHere!Chips} \cup {{}, {"c5", "c6", "h2"}},
     t \in PortsHere!Targets}

(* The host: up to three operations on a file and a map of it, searchers,  *)
(* runs of the query command and of the stats command.                     *)

HostDisk == <<3, 1, 4, 1, 5, 9, 2, 6, 5>>
HostReads ==
  {[is |-> "read", addr |-> a, n |-> n, returns |-> r] :
     a \in {0, 1, 6, 8, 9}, n \in {0, 1, 3, 8}, r \in {<<>>, <<1>>, <<2, 1>>}}
HostOps ==
  HostReads \cup {[is |-> i, addr |-> a, n |-> n] :
                   i \in {"window", "reset", "erase"}, a \in {0, 7}, n \in {2, 4}}
BackendInputs ==
  {[kind |-> "backends", ops |-> o] : o \in UNION {[1 .. n -> HostOps] : n \in 1 .. 2}}
    \cup {[kind |-> "backends", ops |-> <<o, p, q>>] :
            o, p, q \in {op \in HostOps : op.addr \in {1, 7, 8} /\ op.n \in {1, 2, 3}}}
ShrunkInputs == {[kind |-> "shrunk", now |-> k, op |-> o] : k \in 0 .. 9, o \in HostReads}
SearcherInputs ==
  {[kind |-> "searcher", asked |-> a, components |-> c, k |-> k,
    geometry |-> [d |-> 4, m |-> 2, centroids |-> 4, r |-> r, n |-> n]] :
     a \in 0 .. 4, c \in 3 .. 4, k \in 0 .. 4, r \in 0 .. 4, n \in 0 .. 5}
QueryOutcomes == [verdict : {"ok", "Dimension"}, dropped : 0 .. 1, scanned : 2 .. 3]
ReportInputs ==
  {[kind |-> "report", outcomes |-> o, limit |-> l] :
     o \in UNION {[1 .. n -> QueryOutcomes] : n \in 0 .. 3}, l \in 0 .. 4}
StatsInputs ==
  {[kind |-> "stats", queries |-> q, stop |-> s] :
     q \in UNION {[1 .. n -> {<<o, [o EXCEPT !.addr = 6]>> : o \in {r \in HostReads : r.n = 3}}] :
                 n \in 0 .. 2},
     s \in 0 .. 5}

(* Command lines: up to three words after the image's two, or any two;     *)
(* appends, self-tests and answers.                                        *)

Subcommands ==
  {"append", "build", "query", "vectors", "serve", "verify", "repair", "inspect", "doctor",
   "selftest", "stats", "falsify", "help", "version", "frobnicate"}
Words ==
  {"--image", "--id", "--from", "--socket", "--listen", "--workers", "--r", "--json", "a", "9", "0"}
Lines ==
  {<<>>} \cup {<<c>> \o w : c \in Subcommands, w \in UNION {[1 .. n -> Words] : n \in 0 .. 2}}
    \cup {<<c, "--image", "a">> \o w :
            c \in {"vectors", "serve", "build"}, w \in UNION {[1 .. n -> Words] : n \in 1 .. 3}}
    \cup {<<c, "--image", "a", "--input", "b", "--k", k>> : c \in Subcommands, k \in {"1", "b"}}
LineInputs == {[kind |-> "line", argv |-> l] : l \in Lines}
AppendCommandInputs ==
  {[kind |-> "append command", dim |-> d, count |-> c,
    volume |-> [d |-> 2, unit |-> u, head |-> h, manifest |-> [n |-> n]]] :
     d \in 1 .. 2, c \in 0 .. 5, u \in 1 .. 4, h \in {0, 4, 8, 12}, n \in 0 .. 8}
SelftestInputs ==
  {[kind |-> "selftest", n |-> n,
    world |-> [writes |-> w, mounts |-> o, referenced |-> f, clean |-> c, dropped |-> d,
               verified |-> v, overlap |-> p, scanned |-> <<64, x, 64, y>>]] :
     n \in {0, 64}, w \in BOOLEAN, o \in BOOLEAN, f \in BOOLEAN, c \in BOOLEAN,
     d \in 0 .. 1, v \in 0 .. 1, p \in {19, 20}, x \in {63, 64, -1}, y \in {63, 64}}
AnswerInputs ==
  {[kind |-> "answer", is |-> i, answer |-> [ok |-> o, found |-> f], verdicts |-> v] :
     i \in (Subcommands \cup {"error"}) \ {"frobnicate"}, o \in BOOLEAN, f \in 0 .. 2,
     v \in [1 .. 3 -> {"held", "refuted", "inconclusive"}]}

---------------------------------------------------------------------------
Quiet == input.kind = "none"

MCInit == input = [kind |-> "none"] /\ Init /\ DeviceInit

Pick(inputs) == input' \in inputs

Choose ==
  \/ Pick(LayoutInputs)
  \/ Pick(BindInputs)
  \/ Pick(VolumeInputs)
  \/ Pick(AllocationInputs)
  \/ Pick(GroupInputs)
  \/ Pick(WeightInputs)
  \/ Pick(DamageInputs)
  \/ Pick(FieldInputs)
  \/ Pick(DecodeInputs)
  \/ Pick(CrcInputs)
  \/ Pick(CopyInputs)
  \/ Pick(RotationInputs)
  \/ Pick(ScoreInputs)
  \/ Pick(FlipInputs)
  \/ Pick(LabelInputs)
  \/ Pick(HalfStepInputs)
  \/ Pick(FileInputs)
  \/ Pick(TrainInputs)
  \/ Pick(TrainedInputs)
  \/ Pick(PipelineInputs)
  \/ Pick(CutInputs)
  \/ Pick(BatchInputs)
  \/ Pick(ListInputs)
  \/ Pick(DocumentInputs)
  \/ Pick(ProfileInputs)
  \/ Pick(BoardInputs)
  \/ Pick(PortInputs)
  \/ Pick(MeasureInputs)
  \/ Pick(MarkInputs)
  \/ Pick(TimeInputs)
  \/ Pick(ChipInputs)
  \/ Pick(BackendInputs)
  \/ Pick(LineInputs)
  \/ Pick(AppendCommandInputs)
  \/ Pick(SelftestInputs)
  \/ Pick(AnswerInputs)
  \/ Pick(ShrunkInputs)
  \/ Pick(SearcherInputs)
  \/ Pick(ReportInputs)
  \/ Pick(StatsInputs)
  \/ input' \in {[kind |-> "device"], [kind |-> "socket"]}

MCNext ==
  \/ Quiet /\ Choose /\ UNCHANGED <<vars, deviceVars>>
  \/ /\ input.kind = "trained"
     /\ input' = [kind |-> "built", corpus |-> input.corpus, books |-> input.books,
                  labels |-> Trainings!Labels(input.books, 2)]
     /\ UNCHANGED <<vars, deviceVars>>
  \/ input.kind = "device" /\ DeviceNext /\ UNCHANGED <<input, vars>>
  \/ input.kind = "socket" /\ Next /\ UNCHANGED <<input, deviceVars>>

MCSpec == MCInit /\ [][MCNext]_<<input, vars, deviceVars>>

---------------------------------------------------------------------------
\* Of a volume with codes of a byte and records that fit a block, writer and reader agree on
\* every byte (emit.rs against region.rs, manifest.rs, payload_blk.rs, rerank_blk.rs,
\* codebook_blk.rs); of other volumes they do not, which the run documented_claims shows.  A
\* volume that mounts on a device fits its buffers, and a tier's memory holds the buffers the
\* engine asks for where its table is of i32, as the engine's is (workspace.rs, profile.rs).
LayoutSound ==
  /\ input.kind = "image" => Layouts!LayoutSound(input.image)
  /\ input.kind = "bind" =>
       Layouts!MountFitsWorkspace(input.profile, input.buffers, input.manifest)
  /\ input.kind = "profile" => ProfilesHere!SizesCoverEngine(input.profile)

\* A sweep of a volume on disk finds the damage that is there, and a file that was cut
\* short is not taken for a whole volume (verify.rs, verify_cmd.rs, inspect_cmd.rs,
\* build_cmd.rs).
VerifySound ==
  input.kind = "volume" =>
    /\ Verifies!VerifySound(input.volume)
    /\ Verifies!CutBuildRefused(input.volume.image, input.volume.length)

\* Groups partition the centroids and carry their weights, the allocator keeps its budget
\* and nearly finds the best where costs differ, and a loss is within its bound when depths
\* count from 1 (group.rs, allocate.rs, criticality.rs, corrupt.rs, sweep.rs).  Rates of one
\* cost, and depths as the code counts them, are refuted claims of documented_claims.
ProtectionSound ==
  /\ input.kind = "allocation" => Allocations!AllocationNearOptimal(input.problem)
  /\ input.kind = "groups" =>
       Allocations!GroupsPartition(input.total, input.count, input.bytes)
  /\ input.kind = "weights" => Allocations!WeightsFollowGroups(input.weights, input.count)
  /\ input.kind = "damage" => Damages!DamageBounded(input.instance)

\* Any k blocks give the data back, one burst never passes the CRC, and a codebook is
\* recoverable when every block is whole in some copy (gf.rs, rs.rs, crc.rs, replicate.rs).
CodesRecover ==
  /\ input.kind = "field" => FieldSound(input.a, input.b, input.n)
  /\ input.kind = "decode" => AnyKSuffice(input.n, input.k, input.data, input.indices)
  /\ input.kind = "crc" => BurstsDetected(input.a, input.b)
  /\ input.kind = "copies" => CopiesRecover(input.copies, <<Crc(<<0, 0>>), Crc(<<1, 1>>)>>)

\* Rotations of two components or more undo, every scorer agrees with the reconstruction for
\* codes that name centroids, a flipped bit moves scores by no more than its bound,
\* relabelling loses nothing (rotate.rs, adc.rs, codebook.rs, label.rs, label_opt.rs, encode.rs).
QuantSound ==
  /\ input.kind = "rotation" => Trainings!RotationSound(input.v, input.signs, input.rounds)
  /\ input.kind = "score" => Trainings!ScoresExact(input.q, input.books, input.a, input.b)
  /\ input.kind = "flip" =>
       Trainings!FlipBounded(input.q, input.books, input.j, input.c, input.i, input.bit, input.a)
  /\ input.kind = "label" => Trainings!LabelsLossless(input.rows, input.codes, 2)
  /\ input.kind = "step" => Trainings!HalfStep(input.rows, input.q)

\* A file is read as it is or refused, training never ends worse than it began, and what
\* is built reconstructs every vector as trained (dataset.rs, train.rs, build_cmd.rs).
TrainingSound ==
  /\ input.kind = "file" => Trainings!LoadsFaithfully(input.file)
  /\ input.kind = "train" =>
       Trainings!TrainingImproves(input.points, input.chosen, input.iterations)
  /\ input.kind = "built" =>
       Trainings!BuildKeepsVectors(input.corpus, input.books, input.labels)

\* Requests are told apart by their bytes alone, a batch holds whole queries, a listing
\* names what is stored, a document nests (http.rs, api.rs, server.rs route, json.rs).
RequestFraming ==
  /\ input.kind = "pipeline" => RequestsHere!PipelineFramed(input.one, input.two)
  /\ input.kind = "cut" => RequestsHere!CutNeverAnswered(input.lines, input.bytes, input.how)
  /\ input.kind = "batch" => RequestsHere!BatchWhole(input.bytes, input.lines)
  /\ input.kind = "list" => RequestsHere!ListingTrue(input.manifest, input.from, input.count)
  /\ input.kind = "document" => RequestsHere!DocumentSound(input.ops, input.chars)

\* A port is an array of NOR whose refused calls change nothing, its marks decode, its
\* times are what passed, its firmware measures the flash it was given, one chip is built
\* for its own target, and no machine is taken for a newer one (targets/esp32,
\* targets/rp2040, platform.rs, doctor_cmd.rs).  A second program of a page is carried out and
\* clears bits, as on NOR: that it would be refused is a refuted claim of documented_claims.
PortsFaithful ==
  /\ input.kind = "port" => PortsHere!ActsAsArray(input.volume, input.op)
  /\ input.kind = "measure" => PortsHere!MeasuresFlash(input.volume) /\ PortsHere!BenchReadsItsCorpus
  /\ input.kind = "marks" => PortsHere!PulsesDecode(input.marks)
  /\ input.kind = "times" => PortsHere!TimesTrue(input.cycles, input.from, input.to)
  /\ input.kind = "chips" => PortsHere!ChipAgrees(input.selected, input.target)
  /\ input.kind = "board" => Boards!NeverTooNew(input.machine, input.abi)

\* A read file and a mapped one answer alike, a searcher answers what it was opened for, a
\* query that fails prints nothing, counters are of the measured pass alone, a command line
\* is taken for what it says and the code it ends with for what was found, as each command's
\* own file has it (the table of main.rs, the depths that open refuses and the map's counts
\* are claims of documented_claims: file.rs,
\* mapped.rs, search.rs, query_cmd.rs, stats_cmd.rs, main.rs, append_cmd.rs, serve_cmd.rs,
\* selftest_cmd.rs, falsify_cmd.rs).
HostSound ==
  /\ input.kind = "backends" => HostHere!BackendsAgree(HostDisk, input.ops)
  /\ input.kind = "shrunk" => HostHere!ShrunkNeverRead(HostDisk, input.now, input.op)
  /\ input.kind = "searcher" =>
       HostHere!SearcherAnswers(input.geometry, input.asked, input.components, input.k)
  /\ input.kind = "report" => HostHere!QueriesReported(input.outcomes, input.limit)
  /\ input.kind = "stats" => HostHere!MeasuredAlone(HostDisk, input.queries, input.stop)
  /\ input.kind = "line" => CommandsHere!ParsedAsGiven(input.argv)
  /\ input.kind = "list" /\ input.count <= 5 =>
       CommandsHere!VectorsAsDaemon(input.manifest, input.from, input.count,
                                    RequestsHere!ListVectors)
  /\ input.kind = "append command" =>
       CommandsHere!AppendTold(input.volume, [dim |-> input.dim, count |-> input.count])
  /\ input.kind = "selftest" => CommandsHere!SelftestHonest(input.world, input.n)
  /\ input.kind = "answer" => CommandsHere!CodesTell(input.is, input.answer, input.verdicts)
=============================================================================
