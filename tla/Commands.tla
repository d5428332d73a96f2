------------------------------ MODULE Commands ------------------------------
(***************************************************************************)
(* The command line (sector-cli main.rs, append_cmd.rs, serve_cmd.rs,      *)
(* selftest_cmd.rs, falsify_cmd.rs and the parsers of the other commands): *)
(* what the words of a command line are taken for, what a command answers  *)
(* and the code the process ends with.  A word is a string; Numerals are   *)
(* the words that are numbers.                                             *)
(***************************************************************************)
EXTENDS Integers, Sequences, FiniteSets, SequencesExt

CONSTANTS
  Numerals,   \* a function from words to the numbers they are
  U32         \* how many values a u32 has

Error == [is |-> "error"]
Some(v) == [is |-> "some", value |-> v]
None == [is |-> "none"]
Smaller(a, b) == IF a < b THEN a ELSE b
Larger(a, b) == IF a < b THEN b ELSE a

---------------------------------------------------------------------------
(* The words after a name.  Only the first place of a name counts.         *)

PlaceOf(argv, name) == SelectInSeq(argv, LAMBDA word : word = name)
Given(argv, name) == PlaceOf(argv, name) > 0
After(argv, name) ==
  IF Given(argv, name) /\ PlaceOf(argv, name) < Len(argv) THEN Some(argv[PlaceOf(argv, name) + 1])
  ELSE None
NumberOf(found) ==
  IF found.is = "some" /\ found.value \in DOMAIN Numerals THEN Some(Numerals[found.value]) ELSE Error

Flag(argv, name) == IF After(argv, name).is = "some" THEN After(argv, name) ELSE Error
OptNum(argv, name, default) ==
  IF Given(argv, name) THEN NumberOf(After(argv, name)) ELSE Some(default)

\* A command has its fields, each of them found or none, unless one is an error.
Command(is, fields) ==
  IF \E f \in DOMAIN fields : fields[f].is = "error" THEN Error
  ELSE [is |-> is, args |-> fields]

\* `vectors`: an --id that ends the line is no id.
ParseVectors(argv) ==
  LET id   == IF After(argv, "--id").is = "some" THEN NumberOf(After(argv, "--id")) ELSE None
      from == OptNum(argv, "--from", 0)
  IN  Command("vectors",
        [image |-> Flag(argv, "--image"), id |-> id,
         from |-> IF from.is = "some" THEN Some(from.value % U32) ELSE from,
         count |-> OptNum(argv, "--count", 10)])

\* `serve`: the socket is the default one when neither a socket nor an address is named.
DefaultSocket == "/run/sector/sector.sock"
ParseServe(argv) ==
  LET socket == After(argv, "--socket")
      listen == After(argv, "--listen")
  IN  Command("serve",
        [image |-> Flag(argv, "--image"), listen |-> listen,
         socket |-> IF socket = None /\ listen = None THEN Some(DefaultSocket) ELSE socket,
         workers |-> OptNum(argv, "--workers", 1), k |-> OptNum(argv, "--k", 10),
         r |-> OptNum(argv, "--r", 0)])
ServeConfig(args) ==
  [socket |-> args.socket, listen |-> args.listen, workers |-> Larger(args.workers.value, 1),
   k |-> args.k.value, r |-> IF args.r = Some(0) THEN None ELSE args.r]

Switch(argv, name) == Some(Given(argv, name))
ParseAppend(argv) ==
  Command("append", [image |-> Flag(argv, "--image"), input |-> Flag(argv, "--input"),
                     json |-> Switch(argv, "--json"), dry_run |-> Switch(argv, "--dry-run")])
ParseBuild(argv) ==
  Command("build", [input |-> Flag(argv, "--input"), out |-> Flag(argv, "--out"),
                    m |-> OptNum(argv, "--m", 16), b |-> OptNum(argv, "--b", 8),
                    r |-> OptNum(argv, "--r", 100), limit |-> OptNum(argv, "--limit", 0),
                    seed |-> OptNum(argv, "--seed", 42), copies |-> OptNum(argv, "--copies", 2),
                    reserve |-> OptNum(argv, "--reserve", 0)])
ParseQuery(argv) ==
  Command("query", [image |-> Flag(argv, "--image"), queries |-> Flag(argv, "--queries"),
                    k |-> OptNum(argv, "--k", 10), r |-> OptNum(argv, "--r", 0),
                    limit |-> OptNum(argv, "--limit", 0)])
ParseStats(argv) ==
  Command("stats", [image |-> Flag(argv, "--image"), queries |-> After(argv, "--queries"),
                    count |-> OptNum(argv, "--count", 50), k |-> OptNum(argv, "--k", 10),
                    json |-> Switch(argv, "--json")])
ParseSelftest(argv) ==
  Command("selftest", [n |-> OptNum(argv, "--n", 512), json |-> Switch(argv, "--json"),
                       keep |-> Switch(argv, "--keep")])
ParseVerify(argv) ==
  Command("verify", [image |-> Flag(argv, "--image"), json |-> Switch(argv, "--json")])
ParseRepair(argv) ==
  Command("repair", [image |-> Flag(argv, "--image"), dry_run |-> Switch(argv, "--dry-run")])
ParseInspect(argv) == Command("inspect", [image |-> Flag(argv, "--image")])
ParseDoctor(argv) == Command("doctor", [json |-> Switch(argv, "--json")])

Parse(argv) ==
  LET rest == Tail(argv)
  IN  IF argv = <<>> THEN [is |-> "help"]
      ELSE CASE argv[1] = "append" -> ParseAppend(rest) [] argv[1] = "vectors" -> ParseVectors(rest)
             [] argv[1] = "build" -> ParseBuild(rest) [] argv[1] = "inspect" -> ParseInspect(rest)
             [] argv[1] = "query" -> ParseQuery(rest) [] argv[1] = "stats" -> ParseStats(rest)
             [] argv[1] = "verify" -> ParseVerify(rest) [] argv[1] = "repair" -> ParseRepair(rest)
             [] argv[1] = "doctor" -> ParseDoctor(rest) [] argv[1] = "selftest" -> ParseSelftest(rest)
             [] argv[1] = "serve" -> ParseServe(rest) [] argv[1] = "falsify" -> [is |-> "falsify"]
             [] argv[1] \in {"help", "-h", "--help"} -> [is |-> "help"]
             [] argv[1] \in {"version", "-V", "--version"} -> [is |-> "version"]
             [] OTHER -> Error

\* main: what a command answers is [ok, found], found the damaged, the failed, the refuted
\* or the doctor's code.
ExitCode(command, answer) ==
  CASE command.is = "error" -> 1
    [] command.is \in {"help", "version"} -> 0
    [] command.is = "verify" /\ ~answer.ok -> 2
    [] command.is \notin {"help", "version", "verify", "error"} /\ ~answer.ok -> 1
    [] command.is = "doctor" /\ answer.ok -> answer.found
    [] command.is \in {"verify", "selftest", "falsify"} /\ answer.ok -> Smaller(answer.found, 1)
    [] command.is \in {"append", "vectors", "build", "inspect", "query", "stats", "serve", "repair"}
         /\ answer.ok -> 0

---------------------------------------------------------------------------
(* Commands.  A manifest is [built_n, appended_from, n]; a range may be    *)
(* empty, and saturates at the last id.                                    *)

Holds(manifest, id) == id < manifest.built_n \/ (manifest.appended_from <= id /\ id < manifest.n)
StatusOf(manifest, id) ==
  IF Holds(manifest, id) THEN "stored" ELSE IF id < manifest.n THEN "absent" ELSE "out of range"
RunVectors(manifest, args) ==
  LET from  == args.from.value
      first == IF args.id = None THEN from ELSE args.id.value
      last  == IF args.id = None THEN Smaller(from + (args.count.value % U32), U32 - 1) ELSE first + 1
  IN  [i \in 1 .. Larger(last - first, 0) |->
        [id |-> first + i - 1, status |-> StatusOf(manifest, first + i - 1)]]

NextMultiple(a, unit) == ((a + unit - 1) \div unit) * unit

\* append: a file of vectors [dim, count] for a volume [d, unit, head]; the head is where
\* ingest starts, which may lie past the extent of the manifest.
RunAppend(volume, vecs, dry) ==
  LET total == NextMultiple(vecs.count, volume.unit)
      named == NextMultiple(volume.manifest.n, volume.unit)
  IN  IF vecs.dim # volume.d \/ vecs.count = 0 THEN Error
      ELSE [is |-> "ok", supplied |-> vecs.count, padded |-> total - vecs.count,
            written |-> IF dry THEN 0 ELSE total, first_id |-> IF dry THEN named ELSE volume.head,
            n |-> IF dry THEN named + total ELSE volume.head + total]

\* selftest: a world is what each of its steps meets.
Probes(n) == <<0, n \div 4, n \div 2, n - 1>>
TopK == 10
Check(name, passed) == [name |-> name, passed |-> passed]
\* One failed or short query ends the queries; the rest is judged over all four.
QueryChecks(world, n) ==
  IF \E i \in 1 .. 4 : world.scanned[i] # n
  THEN <<Check("query", FALSE)>>
  ELSE <<Check("query", TRUE), Check("recall", 2 * world.overlap >= 4 * TopK),
         Check("crc", world.verified > 0)>>
ImageChecks(world) ==
  <<Check("corruption", world.dropped > 0), Check("sweep", world.clean)>>
RunSelftest(world, args) ==
  LET n == Larger(args.n.value, 64)
  IN  IF ~world.writes THEN <<Check("build", FALSE)>>
      ELSE <<Check("build", TRUE)>> \o
           (IF ~world.mounts THEN <<Check("mount", FALSE)>> \o ImageChecks(world)
            ELSE <<Check("mount", TRUE)>> \o
                 (IF ~world.referenced THEN <<Check("reference", FALSE)>>
                  ELSE QueryChecks(world, n) \o ImageChecks(world)))
Failed(checks) == Cardinality({i \in DOMAIN checks : ~checks[i].passed})


\* falsify: an inconclusive claim is not a refuted one.
Refuted(verdicts) == Len(SelectSeq(verdicts, LAMBDA v : v = "refuted"))

---------------------------------------------------------------------------
(* What a command line owes its user.                                      *)

\* A command line that is accepted has everything it names: a command that needs an image has
\* one, a number given is the number used, no daemon listens where it was not told to and
\* every daemon listens somewhere.
Names == [image |-> "--image", input |-> "--input", k |-> "--k", workers |-> "--workers",
          r |-> "--r", count |-> "--count", from |-> "--from"]
TakenAsGiven(argv, got) ==
  LET rest   == Tail(argv)
      fields == DOMAIN got.args \cap DOMAIN Names
  IN  /\ got.is # "error" /\ argv # <<>> /\ "args" \in DOMAIN got =>
           /\ got.is = argv[1]
           /\ \A f \in fields : Given(rest, Names[f]) =>
                LET word == rest[PlaceOf(rest, Names[f]) + 1]
                IN  /\ After(rest, Names[f]) # None
                    /\ f \in {"image", "input"} => got.args[f] = Some(word)
                    /\ f \in {"k", "workers", "r", "count"} => got.args[f] = Some(Numerals[word])
           /\ \A f \in fields \cap {"image", "input"} : Given(rest, Names[f])
      /\ got.is = "serve" =>
           LET config == ServeConfig(got.args)
           IN  /\ config.socket # None \/ config.listen # None
               /\ config.socket \notin {None, Some(DefaultSocket)} => Given(rest, "--socket")
               /\ config.listen # None /\ ~Given(rest, "--socket") => config.socket = None
               /\ config.workers >= 1 /\ config.r # Some(0)
ParsedAsGiven(argv) == TakenAsGiven(argv, Parse(argv))

\* The same ids, with the same verdicts, as the daemon's /vectors gives for the same range;
\* daemon is the operator that answers it.
VectorsAsDaemon(manifest, from, count, Daemon(_, _, _)) ==
  RunVectors(manifest, [id |-> None, from |-> Some(from % U32), count |-> Some(count)])
    = Daemon(manifest, from, count).vectors

\* Every vector supplied is written, with the padding that is told and no more; a dry run
\* writes nothing, and names the ids the append then takes unless the head lies further.
AppendTold(volume, vecs) ==
  LET wet == RunAppend(volume, vecs, FALSE)
      dry == RunAppend(volume, vecs, TRUE)
  IN  /\ wet.is = dry.is
      /\ wet.is = "ok" =>
           /\ wet.written = wet.supplied + wet.padded /\ dry.written = 0
           /\ wet.padded < volume.unit /\ wet.written % volume.unit = 0
           /\ dry.padded = wet.padded
           /\ dry.first_id >= volume.manifest.n
           /\ volume.head = NextMultiple(volume.manifest.n, volume.unit) =>
                dry.first_id = wet.first_id /\ dry.n = wet.n

\* A self-test that ends with 0 has built, mounted, queried every probe in full and seen one
\* corruption, and one that ends otherwise has met a fault.
SelftestHonest(world, n) ==
  LET checks == RunSelftest(world, [n |-> Some(n)])
      code   == ExitCode([is |-> "selftest"], [ok |-> TRUE, found |-> Failed(checks)])
  IN  code = 0 <=>
        /\ world.writes /\ world.mounts /\ world.referenced /\ world.clean
        /\ world.dropped > 0 /\ world.verified > 0 /\ world.overlap >= 20
        /\ \A i \in 1 .. 4 : world.scanned[i] = Larger(n, 64)
           /\ Probes(Larger(n, 64))[i] \in 0 .. Larger(n, 64) - 1

\* "`2` a suboptimal-but-working state, which at present only `doctor` reports" (main.rs:37).
\* `verify` ends with 2 when it cannot read (run documented_claims).
OnlyDoctorEndsTwo(is, answer) == ExitCode([is |-> is], answer) = 2 => is = "doctor"

\* The code of a command is 0 exactly when it ran and found nothing to tell of; 2 is the
\* doctor's verdict or a volume that could not be verified (verify_cmd.rs:11); the code of
\* a refutation does not depend on how many claims were inconclusive.
CodesTell(is, answer, verdicts) ==
  /\ ExitCode([is |-> is], answer) = 0 <=>
       \/ is \in {"help", "version"}
       \/ is # "error" /\ answer.ok
            /\ (is \in {"verify", "selftest", "falsify", "doctor"} => answer.found = 0)
  /\ ExitCode([is |-> is], answer) = 2 =>
       (is = "verify" /\ ~answer.ok) \/ (is = "doctor" /\ answer.found = 2)
  /\ ExitCode([is |-> "falsify"], [ok |-> TRUE, found |-> Refuted(verdicts)]) = 1
       <=> "refuted" \in ToSet(verdicts)
=============================================================================
