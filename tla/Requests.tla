------------------------------ MODULE Requests ------------------------------
(***************************************************************************)
(* What one connection's bytes mean (sector-serve http.rs), what a body    *)
(* and a path ask for (api.rs, server.rs route) and the JSON that answers  *)
(* (sector-os json.rs).                                                    *)
(*                                                                         *)
(* A stream is a sequence of units: a line, by what it says, or one byte   *)
(* of a body.  A unit has its size in bytes; a line that the end of the    *)
(* stream cut short does not end.  A client's body is as long as it said:  *)
(* what one that lies makes of its own connection is left out.             *)
(***************************************************************************)
EXTENDS Integers, Sequences, SequencesExt, FiniteSets

CONSTANTS
  MaxHeaderBytes, MaxHeaders, MaxBodyBytes,  \* the limits of http.rs
  Dimension,                                 \* d of the volume
  MaxEnumerate,                              \* ids one listing may name
  Words                                      \* 2^32

Line(is, value, size) == [is |-> is, value |-> value, size |-> size, ends |-> TRUE]
BodyByte == [is |-> "byte", value |-> 0, size |-> 1, ends |-> FALSE]
SizeOf(units) == FoldLeft(LAMBDA a, u : a + u.size, 0, units)
Least(a, b) == IF a < b THEN a ELSE b
Most(a, b) == IF a < b THEN b ELSE a

---------------------------------------------------------------------------
(* http.rs.                                                                *)

Rejected(status) == [result |-> "rejected", status |-> status]
Closed == [result |-> "closed"]

\* A budget that each line has to itself.
TooLongEach(line, spent) == line.size > MaxHeaderBytes

\* read_line's limit, and the same budget checked again over the lines together.
TooLong(line, spent) ==
  line.size > Most(MaxHeaderBytes - spent, 1) \/ spent + line.size > MaxHeaderBytes

\* What one header line does to the request being read.
Header(request, line) ==
  CASE line.is = "length" /\ line.value > MaxBodyBytes -> Rejected("PayloadTooLarge")
    [] line.is = "length" /\ line.value <= MaxBodyBytes -> [request EXCEPT !.length = line.value]
    [] line.is = "chunked" -> [request EXCEPT !.chunked = TRUE]
    [] line.is \in {"close", "keep-alive"} -> [request EXCEPT !.keep = line.is = "keep-alive"]
    [] line.is \in {"text/plain", "binary"} -> [request EXCEPT !.text = line.is = "text/plain"]
    [] line.is \in {"nocolon", "badlength"} -> Rejected("BadRequest")
    [] OTHER -> request

\* One turn of the loop over the header lines.
ReadHeader(state, line) ==
  IF state.result # "reading" THEN state
  ELSE IF TooLong(line, state.spent) THEN Rejected("HeadersTooLarge")
  ELSE IF line.is = "blank"
       THEN [state EXCEPT !.result = "head", !.spent = @ + line.size, !.lines = @ + 1]
  ELSE IF state.count = MaxHeaders THEN Rejected("HeadersTooLarge")
  ELSE Header([state EXCEPT !.spent = @ + line.size, !.count = @ + 1, !.lines = @ + 1], line)

\* The request line: a version 1.1 keeps the connection by default.
ReadHead(units) ==
  LET first == Head(units)
      start == [result |-> "reading", ask |-> first.value, keep |-> first.is = "request11",
                length |-> 0, chunked |-> FALSE, text |-> FALSE,
                spent |-> first.size, count |-> 0, lines |-> 1]
  IN  IF units = << >> THEN Closed
      ELSE IF first.size > MaxHeaderBytes THEN Rejected("HeadersTooLarge")
      ELSE IF first.is \notin {"request11", "request10"} THEN Rejected("BadRequest")
      ELSE FoldLeft(ReadHeader, start, Tail(units))

ReadBody(units, head) ==
  LET after == SubSeq(units, head.lines + 1, Len(units))
  IN  CASE head.result = "reading" -> Closed
        [] head.result # "reading" /\ head.result # "head" -> head
        [] head.result = "head" /\ head.chunked -> Rejected("LengthRequired")
        [] head.result = "head" /\ ~head.chunked /\ Len(after) < head.length -> Closed
        [] head.result = "head" /\ ~head.chunked /\ Len(after) >= head.length ->
             [result |-> "ok", ask |-> head.ask, keep |-> head.keep, text |-> head.text,
              body |-> head.length, spent |-> head.spent, count |-> head.count,
              rest |-> SubSeq(after, head.length + 1, Len(after))]
ReadRequest(units) == ReadBody(units, ReadHead(units))

\* handle_connection: requests are answered until one cannot be read or ends it.
Answer(conn, read) ==
  IF read.result = "ok"
  THEN [open |-> read.keep, left |-> read.rest,
        answers |-> Append(conn.answers, [ask |-> read.ask, body |-> read.body])]
  ELSE [open |-> FALSE, left |-> conn.left,
        answers |-> IF read.result = "closed" THEN conn.answers
                    ELSE Append(conn.answers, [error |-> read.status])]
Serve(units) ==
  LET Turn(conn, i) == IF conn.open THEN Answer(conn, ReadRequest(conn.left)) ELSE conn
  IN  FoldLeft(Turn, [open |-> TRUE, left |-> units, answers |-> << >>],
               [i \in 1 .. Len(units) + 1 |-> i]).answers

---------------------------------------------------------------------------
(* api.rs: the queries of a body.  A binary body is its length and its     *)
(* components are 4 bytes each; a text body is lines of numbers.           *)

ComponentBytes == 4

\* Chunks of one query each; the query is the components it takes, from 0.
DecodeBinary(bytes) ==
  LET stride == Dimension * ComponentBytes
  IN  IF stride = 0 \/ bytes % stride # 0 THEN Rejected("BadRequest")
      ELSE [queries |-> [q \in 1 .. bytes \div stride |->
              [i \in 1 .. Dimension |-> (q - 1) * Dimension + i]]]

\* A line holds numbers, or a word that is none; an empty line is skipped.
DecodeText(lines) ==
  LET spoken == SelectSeq(lines, LAMBDA l : l # << >>)
  IN  IF \E i \in DOMAIN spoken :
           "word" \in {spoken[i][j] : j \in DOMAIN spoken[i]} \/ Len(spoken[i]) # Dimension
      THEN Rejected("BadRequest")
      ELSE IF spoken = << >> THEN Rejected("BadRequest") ELSE [queries |-> spoken]

\* Text only when the client says so.
DecodeBatch(text, bytes, lines) ==
  IF bytes = 0 THEN Rejected("BadRequest")
  ELSE IF text THEN DecodeText(lines) ELSE DecodeBinary(bytes)

---------------------------------------------------------------------------
(* /ready and /vectors (server.rs route) over Searcher::records.           *)

Holds(manifest, id) ==
  id < manifest.built_n \/ (id >= manifest.appended_from /\ id < manifest.n)
Stored(manifest) == manifest.built_n + (manifest.n - manifest.appended_from)

\* The lowest id the volume holds is read back; an empty volume is ready.
ProbeId(manifest) == IF manifest.built_n > 0 THEN 0 ELSE manifest.appended_from
Ready(manifest, readable) ==
  \/ Holds(manifest, ProbeId(manifest)) /\ readable
  \/ ~Holds(manifest, ProbeId(manifest)) /\ Stored(manifest) = 0

VectorStatus(manifest, id) ==
  IF Holds(manifest, id) THEN "stored" ELSE IF id < manifest.n THEN "absent" ELSE "out of range"

\* "from" is narrowed to 32 bits; the end of the listing saturates.
ListVectors(manifest, from, count) ==
  LET first == from % Words
      last  == Least(first + count, Words - 1)
  IN  IF count > MaxEnumerate THEN Rejected("BadRequest")
      ELSE [vectors |-> [i \in 1 .. last - first |->
              [id |-> first + i - 1, status |-> VectorStatus(manifest, first + i - 1)]]]

---------------------------------------------------------------------------
(* json.rs.  A writer is what it has put out and, for each object or array *)
(* that is open, whether its first member is still to come.                *)

NewJson == [out |-> << >>, open |-> << >>]
Put(writer, tokens) == [writer EXCEPT !.out = @ \o tokens]

\* key() in an object, sep() in an array: both place the comma.
Member(writer, inObject) ==
  LET depth == Len(writer.open)
      comma == IF writer.open[depth].first THEN << >> ELSE <<",">>
  IN  Put([writer EXCEPT !.open[depth].first = FALSE],
          comma \o (IF inObject THEN <<"key", ":">> ELSE << >>))

\* The closures end what they opened, so a caller writes one value at the top and
\* values inside what is open; the types admit nothing else.
Writable(writer, op) ==
  /\ op = "end" => writer.open # << >>
  /\ writer.out = << >> => op \in {"object", "array"}
  /\ writer.out # << >> => writer.open # << >>

WriterStep(writer, op) ==
  LET placed == IF writer.open = << >> THEN writer
                ELSE Member(writer, Last(writer.open).is = "{")
      Opened(mark) == [Put(placed, <<mark>>) EXCEPT
                         !.open = Append(@, [is |-> mark, first |-> TRUE])]
  IN  CASE op = "value" -> Put(placed, <<"value">>)
        [] op = "object" -> Opened("{")
        [] op = "array" -> Opened("[")
        [] op = "end" -> [Put(writer, <<IF Last(writer.open).is = "{" THEN "}" ELSE "]">>)
                            EXCEPT !.open = Front(@)]

Write(ops) ==
  FoldLeft(LAMBDA w, op : IF Writable(w, op) THEN WriterStep(w, op) ELSE w, NewJson, ops)

Escaped(char) ==
  CASE char = "quote" -> <<"backslash", "quote">>
    [] char = "backslash" -> <<"backslash", "backslash">>
    [] char = "newline" -> <<"backslash", "n">>
    [] char = "control" -> <<"backslash", "u", "control">>
    [] OTHER -> <<char>>
EscapeInto(chars) == <<"quote">> \o FlattenSeq([i \in DOMAIN chars |-> Escaped(chars[i])])
                       \o <<"quote">>

---------------------------------------------------------------------------
(* What a client may rely on.                                              *)

\* Requests sent one after the other, each of lines and a body as long as its last
\* Content-Length.
BodyOf(lines) ==
  LET lengths == SelectSeq(lines, LAMBDA l : l.is = "length")
  IN  IF lengths = << >> THEN 0 ELSE Last(lengths).value
Sent(lines) == lines \o [i \in 1 .. BodyOf(lines) |-> BodyByte]

Acceptable(lines) ==
  /\ lines[1].is \in {"request11", "request10"} /\ Last(lines).is = "blank"
  /\ \A i \in 2 .. Len(lines) - 1 :
       /\ lines[i].is \notin {"blank", "nocolon", "badlength", "chunked"}
       /\ lines[i].is = "length" => lines[i].value <= MaxBodyBytes
  /\ Len(lines) - 2 <= MaxHeaders /\ SizeOf(lines) <= MaxHeaderBytes

\* A request within the limits is read, and nothing else is; it takes exactly its own
\* bytes, so the next begins where it ends; after a refusal nothing is answered.
Framed(one, two, read, answers) ==
  LET Said(lines) == [ask |-> lines[1].value, body |-> BodyOf(lines)]
  IN  /\ read.result = "ok" <=> Acceptable(one)
      /\ Acceptable(one) =>
           /\ read.rest = Sent(two)
           /\ answers[1] = Said(one)
           /\ Len(answers) = 2 => read.keep
           /\ read.keep /\ Acceptable(two) => answers = <<Said(one), Said(two)>>
      /\ ~Acceptable(one) => Len(answers) <= 1
PipelineFramed(one, two) ==
  Framed(one, two, ReadRequest(Sent(one) \o Sent(two)), Serve(Sent(one) \o Sent(two)))

\* A stream that ends inside a request never answers it, except that a blank line cut
\* before its newline already ends the head.  "how" is what a cut line reads as.
CutAfter(sent, bytes, how) ==
  LET whole == CHOOSE n \in 0 .. Len(sent) :
                 /\ SizeOf(SubSeq(sent, 1, n)) <= bytes
                 /\ n = Len(sent) \/ SizeOf(SubSeq(sent, 1, n + 1)) > bytes
      kept  == SubSeq(sent, 1, whole)
      extra == bytes - SizeOf(kept)
      torn  == sent[whole + 1]
  IN  IF extra = 0 THEN kept
      ELSE Append(kept, [torn EXCEPT !.size = extra, !.ends = FALSE,
                           !.is = IF torn.is = "blank" THEN "blank" ELSE how])
CutNeverAnswered(lines, bytes, how) ==
  LET units == CutAfter(Sent(lines), bytes, how)
  IN  ReadRequest(units).result = "ok" =>
        /\ Acceptable(lines) /\ BodyOf(lines) = 0
        /\ Last(units).is = "blank"

\* A batch holds whole queries of the volume's dimension, none is empty or lost, and
\* both encodings carry the same ones.
BatchWhole(bytes, lines) ==
  LET binary == DecodeBatch(FALSE, bytes, lines)
      text   == DecodeBatch(TRUE, bytes, lines)
      Whole(batch) == "queries" \in DOMAIN batch =>
        /\ batch.queries # << >>
        /\ \A q \in DOMAIN batch.queries : Len(batch.queries[q]) = Dimension
  IN  /\ Whole(binary) /\ Whole(text)
      /\ "queries" \in DOMAIN binary =>
           FlattenSeq(binary.queries) = [i \in 1 .. bytes \div ComponentBytes |-> i]
      /\ "queries" \in DOMAIN text => FlattenSeq(text.queries) = FlattenSeq(lines)

\* A listing names the ids asked for, in order and without repeats, calls stored what the
\* volume holds and absent what lies in its gap; a "from" that 32 bits cannot hold
\* wraps (README, section 5).
ListingTrue(manifest, from, count) ==
  LET listed == ListVectors(manifest, from, count)
  IN  count <= MaxEnumerate /\ from < Words =>
        /\ \A i \in DOMAIN listed.vectors : listed.vectors[i].id = from + i - 1
        /\ from + count < Words => Len(listed.vectors) = count
        /\ from = 0 /\ count >= manifest.n /\ manifest.n < Words =>
             Cardinality({i \in DOMAIN listed.vectors : listed.vectors[i].status = "stored"})
               = Stored(manifest)
        /\ Ready(manifest, TRUE)

\* Whatever is written in whatever nesting, the document is one JSON value: commas stand
\* between members and nowhere else, and a string ends at its last quote only.
WellNested(tokens) ==
  \A i \in 1 .. Len(tokens) - 1 :
    LET here == tokens[i]
        next == tokens[i + 1]
    IN  /\ here \in {"{", "["} => next # ","
        /\ here = "," => next \in {"key", "value", "{", "["}
        /\ here = ":" => next \in {"value", "{", "["}
        /\ here = "key" <=> next = ":"
        /\ here \in {"value", "}", "]"} => next \in {",", "}", "]"}
DocumentSound(ops, chars) ==
  LET written == Write(ops)
      escaped == EscapeInto(chars)
      Slashes(i) == {j \in 1 .. i - 1 : \A x \in j .. i - 1 : escaped[x] = "backslash"}
  IN  /\ WellNested(written.out)
      /\ \A i \in 2 .. Len(escaped) :
           (escaped[i] = "quote" /\ Cardinality(Slashes(i)) % 2 = 0) <=> i = Len(escaped)
      /\ \A i \in DOMAIN escaped : escaped[i] \notin {"newline"}
=============================================================================
