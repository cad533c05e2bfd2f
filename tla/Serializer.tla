------------------------------ MODULE Serializer ------------------------------
(***************************************************************************)
(* The serializer of src/src/lib/ndpi_serializer.c: records of keys and    *)
(* values, written as JSON (one array, one line per record, or without     *)
(* outer braces), as CSV or as TLV, into a buffer that grows, and the      *)
(* deserializer that turns TLV back into calls.                            *)
(*                                                                         *)
(* The buffer is what the code has: bytes, the first size_used of which    *)
(* count, the others still there.  A byte is <<token, index>>: a token is  *)
(* a piece of text the code writes at once (a key, a number, a bracket).   *)
(* JSON is kept complete after every call by taking the closing brackets   *)
(* back and writing them again, which is what the properties are about.    *)
(*                                                                         *)
(* Texts hold no character that JSON escapes, and are not empty.  The ghost*)
(* said is the document the calls described, mark is said when the         *)
(* snapshot was taken, and sound is lost where the code is known not to    *)
(* keep the text: a value that does not fit after the text was reopened,   *)
(* a list in "lines", the end of a block in an array, and the rollback of  *)
(* a snapshot that was not Safe or is of before a reset.                   *)
(***************************************************************************)
EXTENDS Integers, Sequences, FiniteSets, SequencesExt, FiniteSetsExt

CONSTANTS
  SerScenario,   \* what is done, by name: [fmt, size, calls, max] are the format, the
                 \* initial size, the calls [op, key, val] made, and how many at most
  SerIncr,       \* NDPI_SERIALIZER_DEFAULT_BUFFER_INCR
  SerHeaderSize  \* NDPI_SERIALIZER_DEFAULT_HEADER_SIZE

VARIABLE z

-----------------------------------------------------------------------------
(* Tokens, keys and values. *)

\* A token: its name, and the bytes it takes.
Tok(n, len) == [n |-> n, len |-> len]

Punct(c) == Tok(c, 1)

\* The bytes of a sequence of tokens.
BytesOf(toks) ==
  FlattenSeq([i \in 1 .. Len(toks) |-> [j \in 1 .. toks[i].len |-> <<toks[i], j>>]])

\* Keys: an integer of d digits and w bytes, or a string of d bytes; digits says
\* that a string is a number (ndpi_is_number).
Number(n, d, w) == [n |-> n, num |-> TRUE, d |-> d, w |-> w, digits |-> TRUE]

Name(n, d) == [n |-> n, num |-> FALSE, d |-> d, w |-> 0, digits |-> FALSE]

Digits(n, d, w) == [n |-> n, num |-> FALSE, d |-> d, w |-> w, digits |-> TRUE]

\* Values: of a type, printed in d bytes, the narrowest integer that holds them
\* being one of w bytes.
Val(t, n, d, w) == [t |-> t, n |-> n, d |-> d, w |-> w, neg |-> FALSE]

Negative(t, n, d, w) == [Val(t, n, d, w) EXCEPT !.neg = TRUE]

\* The key as JSON prints it, always between quotes.
KeyText(key) == Tok(key.n, key.d + 2)

\* The value as JSON prints it: strings between quotes.
ValueText(v) == Tok(v.n, IF v.t = "string" THEN v.d + 2 ELSE v.d)

-----------------------------------------------------------------------------
(* The document the calls describe, and its texts. *)

\* ev: the calls of a record; on: it has begun.
Record(on, ev) == [on |-> on, ev |-> ev]

NewDocument == [done |-> << >>, cur |-> Record(TRUE, << >>)]

\* What a call adds to the document.
Say(said, e) == [said EXCEPT !.cur = Record(TRUE, Append(@.ev, e))]

EndRecord(said) ==
  [done |-> Append(said.done, said.cur), cur |-> Record(FALSE, << >>)]

Event(op, key, v) == [op |-> op, key |-> key, v |-> v]

NoText == Tok("", 0)

ListText == Tok(": [", 3)

BlockText == Tok(": {", 3)

Opening == {"{", ListText.n, BlockText.n}

\* The text of the members said so far, one more call added.
AddEvent(t, e) ==
  LET sep == IF t = << >> \/ Last(t).n \in Opening THEN << >> ELSE <<Punct(",")>>
  IN  CASE e.op = "member" -> t \o sep \o <<e.key, Punct(":"), e.v>>
        [] e.op = "element" -> t \o sep \o <<e.v>>
        [] e.op = "block" -> t \o sep \o <<e.key, BlockText>>
        [] e.op = "list" -> t \o sep \o <<e.key, ListText>>
        [] e.op = "end_block" -> Append(t, Punct("}"))
        [] e.op = "end_list" -> Append(t, Punct("]"))

\* A list that has not been ended.
ListOpen(ev) ==
  LET ends == SelectSeq(ev, LAMBDA e : e.op \in {"list", "end_list"})
  IN  ends # << >> /\ Last(ends).op = "list"

RecordText(fmt, r) ==
  IF r.ev # << >> /\ r.ev[1].op = "raw" THEN <<Punct("{"), r.ev[1].v>>
  ELSE FoldLeft(AddEvent, IF fmt = "inner" THEN << >> ELSE <<Punct("{")>>, r.ev)
         \o (IF ListOpen(r.ev) THEN <<Punct("]")>> ELSE << >>)
         \o (IF fmt = "inner" THEN << >> ELSE <<Punct("}")>>)

Join(seqs, sep) ==
  FlattenSeq([i \in 1 .. Len(seqs) |-> IF i = 1 THEN seqs[i] ELSE <<sep>> \o seqs[i]])

Begun(said) ==
  SelectSeq(Append(said.done, said.cur), LAMBDA r : r.on)

\* The JSON text of a document: an object, or an array of objects once a record
\* has ended.
JsonText(fmt, said) ==
  LET texts == [i \in 1 .. Len(Begun(said)) |-> RecordText(fmt, Begun(said)[i])]
  IN  IF said.done = << >> THEN <<Punct(" ")>> \o RecordText(fmt, said.cur)
      ELSE <<Punct("[")>> \o Join(texts, Punct(",")) \o <<Punct("]")>>

\* One line per record: the end of a record ends a line, and so does the first
\* call after it.
LinesText(said) ==
  LET line(i) ==
        LET r == IF i > Len(said.done) THEN said.cur ELSE said.done[i]
            raw == r.ev # << >> /\ r.ev[1].op = "raw"
        IN  (IF r.on /\ i > 1 /\ ~raw THEN <<Punct("nl")>> ELSE << >>)
              \o (IF r.on THEN RecordText("lines", r) ELSE << >>)
              \o (IF i > Len(said.done) THEN << >> ELSE <<Punct("nl")>>)
  IN  FlattenSeq([i \in 1 .. Len(said.done) + 1 |-> line(i)])

\* Rows of values, whose columns are named once.
RowsText(said) ==
  LET row(r) == Join([i \in 1 .. Len(r.ev) |-> IF r.ev[i].v.len = 0 THEN << >>
                                                ELSE <<r.ev[i].v>>], Punct(","))
  IN  FlattenSeq([i \in 1 .. Len(said.done) |-> Append(row(said.done[i]), Punct("nl"))])
        \o row(said.cur)

-----------------------------------------------------------------------------
(* The buffer. *)

Flag == {"COMMA", "ARRAY", "EOR", "SOB", "NOT_EMPTY", "LIST", "SOL", "HDR_DONE", "CEOB"}

Json(y) == y.fmt \in {"json", "lines", "inner"}

Lines(y) == y.fmt = "lines"

Inner(y) == y.fmt = "inner"

With(y, fs) == [y EXCEPT !.flags = @ \cup fs]

Without(y, fs) == [y EXCEPT !.flags = @ \ fs]

Fail(y) == [y EXCEPT !.rc = -1]

\* Write a token over what is there.
Put(y, t) ==
  LET end == y.used + t.len
  IN  [y EXCEPT !.data = [i \in 1 .. Max({Len(@), end}) |->
                            IF y.used < i /\ i <= end THEN <<t, i - y.used>> ELSE @[i]],
                !.used = end,
                !.over = @ \/ end > y.size]

\* size_used--
TakeBack(y) == [y EXCEPT !.used = @ - 1]

\* Overwrite the i-th byte; there is none before the first.
SetByte(y, i, c) ==
  IF i = 0 THEN [y EXCEPT !.over = TRUE] ELSE [y EXCEPT !.data[i] = <<Punct(c), 1>>]

\* snprintf, and the test of its result.
Printed(y, t) == IF t.len >= y.size - y.used THEN Fail(y) ELSE Put(y, t)

\* One more byte, if there is one.
Fitted(y, c) == IF y.used >= y.size THEN Fail(y) ELSE Put(y, Punct(c))

\* The next step of a function that returns on an error.
Then(y, Step(_)) == IF y.rc = 0 THEN Step(y) ELSE y

\* Wrong on purpose: the buffer grows by a step, whatever is needed.
NewSize_Step(size, initial, min_len) ==
  ((size + Min({initial, SerIncr})) \div 4 + 1) * 4

NewSize(size, initial, min_len) ==
  LET more == IF min_len >= SerIncr THEN min_len
              ELSE IF initial < SerIncr THEN Max({min_len, initial})
              ELSE SerIncr
  IN  ((size + more) \div 4 + 1) * 4

\* What may be allocated.
Memory == {"buffer", "header"}

\* Room for needed bytes; mem: the allocations that succeed.
ndpi_extend_serializer_buffer(y, mem, needed) ==
  LET diff == y.size - y.used
  IN  IF diff >= needed THEN y
      ELSE IF "buffer" \in mem
        THEN [y EXCEPT !.size = NewSize(@, y.init, needed - diff)]
      ELSE Fail(y)

ndpi_reset_serializer(y) ==
  LET e == [y EXCEPT !.flags = {}, !.used = 0, !.hused = 0, !.hdr = << >>,
                     !.said = NewDocument, !.sound = TRUE, !.mark.safe = FALSE,
                     !.over = FALSE, !.lost = FALSE]
      open == IF Lines(y) THEN e ELSE Put(e, Punct(" "))
  IN  CASE Inner(y) -> open
        [] Json(y) /\ ~Inner(y) -> Put(Put(open, Punct("{")), Punct("}"))
        [] y.fmt = "csv" -> e
        [] y.fmt = "tlv" -> [e EXCEPT !.used = 2]

\* ndpi_init_serializer_ll
NewSerializer(fmt, size) ==
  ndpi_reset_serializer(
    [fmt |-> fmt, size |-> size, init |-> size,
     data |-> IF fmt = "tlv" THEN BytesOf(<<Punct("version"), Punct("fmt")>>) ELSE << >>,
     used |-> 0, flags |-> {}, hdr |-> << >>, hused |-> 0,
     hsize |-> IF fmt = "csv" THEN SerHeaderSize ELSE 0,
     snap |-> [taken |-> FALSE, flags |-> {}, used |-> 0, hdr |-> << >>, hused |-> 0],
     said |-> NewDocument, mark |-> [safe |-> FALSE, said |-> NewDocument, sound |-> TRUE],
     sound |-> TRUE, over |-> FALSE, lost |-> FALSE, rc |-> 0, calls |-> 0, sc |-> ""])

\* A column of the CSV header, unless the header is done.
ndpi_serializer_header(y, mem, key) ==
  LET needed == IF key.num THEN 12 ELSE key.d + 4
      diff == y.hsize - y.hused
      len == key.d + IF y.hused > 0 THEN 1 ELSE 0
      grown == IF diff >= needed THEN y.hsize
               ELSE NewSize(y.hsize, SerHeaderSize, needed - diff)
  IN  IF "HDR_DONE" \in y.flags THEN y
      ELSE IF diff < needed /\ "header" \notin mem THEN Fail(y)
      ELSE [y EXCEPT !.hsize = grown, !.hused = @ + len, !.hdr = Append(@, key.n),
                     !.over = @ \/ y.hused + len >= grown]

ndpi_serialize_csv_pre(y) ==
  LET sep == IF y.size > y.used THEN Put(y, Punct(",")) ELSE y
      next == IF "EOR" \in y.flags THEN Without(y, {"EOR"})
              ELSE IF "NOT_EMPTY" \notin y.flags THEN y
              ELSE sep
  IN  With(next, {"NOT_EMPTY"})

\* Take back the brackets that close the text.
TakenBack(y) ==
  LET array == IF "ARRAY" \in y.flags /\ ~Lines(y) THEN TakeBack(y) ELSE y
      record == IF Inner(y) THEN array ELSE TakeBack(array)
  IN  IF "LIST" \in y.flags /\ ~Lines(y) THEN TakeBack(record) ELSE record

\* Wrong on purpose: the first item of a list or a block is separated as well.
Separate_Always(y) ==
  IF "COMMA" \in y.flags THEN Put(y, Punct(",")) ELSE y

\* Separate from what is before, unless a list or a block has just begun.
Separate(y) ==
  CASE "LIST" \in y.flags ->
         IF "SOL" \in y.flags THEN Without(y, {"SOL"}) ELSE Put(y, Punct(","))
    [] "LIST" \notin y.flags ->
         IF "SOB" \in y.flags THEN Without(y, {"SOB"})
         ELSE IF "COMMA" \in y.flags THEN Put(y, Punct(","))
         ELSE y

\* Reopen the text for one more value, in a record of its own after the end of one.
ndpi_serialize_json_pre(y) ==
  LET next == IF Lines(y) THEN Put(y, Punct("nl")) ELSE Put(TakeBack(y), Punct(","))
  IN  IF "EOR" \in y.flags
        THEN Without(IF Inner(y) THEN next ELSE Put(next, Punct("{")), {"EOR"})
      ELSE Separate(TakenBack(y))

\* Close the text again.
ndpi_serialize_json_post(y) ==
  LET list(x) == IF "LIST" \in x.flags /\ ~Lines(x) THEN Fitted(x, "]") ELSE x
      full(x) == IF x.used >= x.size THEN Fail(x) ELSE x
      block(x) == IF ~Inner(x) \/ "CEOB" \in x.flags
                    THEN Without(Put(x, Punct("}")), {"CEOB"}) ELSE x
      array(x) == IF "ARRAY" \in x.flags /\ ~Lines(x) THEN Fitted(x, "]") ELSE x
  IN  Then(Then(Then(Then(Then(y, list), full), block), array),
           LAMBDA x : With(x, {"COMMA"}))

-----------------------------------------------------------------------------
(* Keys and values. *)

\* A failure after the text was reopened leaves it open.
Unfinished(y) == IF y.rc = 0 THEN y ELSE [y EXCEPT !.sound = FALSE]

JsonValue(y, key, v) ==
  LET list == "LIST" \in y.flags
      named(x) ==
        IF list THEN x
        ELSE IF key.num /\ key.d + 3 >= x.size - x.used THEN Fail(x)
        ELSE Put(Put(x, KeyText(key)), Punct(":"))
      valued(x) == IF v.t \in {"string", "raw"} THEN Put(x, ValueText(v))
                   ELSE Printed(x, ValueText(v))
      done(x) == [With(x, {"NOT_EMPTY"}) EXCEPT
                    !.said = Say(@, Event(IF list THEN "element" ELSE "member",
                                          KeyText(key), ValueText(v)))]
      out == Then(Then(Then(ndpi_serialize_json_pre(y), named), valued),
                  ndpi_serialize_json_post)
  IN  Unfinished(Then(out, done))

\* printed: the value goes through snprintf, else it is copied.  The header is
\* first, so a value that does not fit leaves an empty cell under its column.
CsvValue(y, mem, key, v, printed) ==
  LET cell == Tok(v.n, v.d)
      put(x) == LET w == IF printed THEN Printed(x, cell) ELSE Put(x, cell)
                IN  [w EXCEPT !.said = Say(@, Event("cell", Tok(key.n, key.d),
                                              IF w.rc = 0 THEN cell ELSE NoText))]
  IN  Then(ndpi_serializer_header(y, mem, key),
           LAMBDA x : put(ndpi_serialize_csv_pre(x)))

\* The type byte, and the key and the value behind it.
TlvToken(x, len) == [n |-> x.n, len |-> len, of |-> x]

TypeByte(kt, vt) == [n |-> "type", len |-> 1, kt |-> kt, vt |-> vt]

TlvKey(key) == IF key.num THEN TlvToken(key, key.w) ELSE TlvToken(key, key.d + 2)

\* The bytes of a value of that type.
TlvSize(v) ==
  CASE v.t \in {"uint32", "int32"} -> v.w
    [] v.t \in {"uint64", "int64"} -> 8
    [] v.t = "float" -> 4
    [] v.t \in {"string", "raw"} -> v.d + 2

\* The type of the token of that many bytes.
Width(t, w) ==
  CASE t = "uint32" -> (CASE w = 1 -> "uint8" [] w = 2 -> "uint16" [] w = 4 -> "uint32")
    [] t = "int32" -> (CASE w = 1 -> "int8" [] w = 2 -> "int16" [] w = 4 -> "int32")
    [] t = "raw" -> "string"
    [] t \in {"uint64", "int64", "float", "string"} -> t

TlvValue(y, key, v) ==
  LET type == TypeByte(IF key.num THEN Width("uint32", key.w) ELSE "string", Width(v.t, v.w))
      out == Put(Put(Put(y, type), TlvKey(key)), TlvToken(v, TlvSize(v)))
  IN  [With(out, {"NOT_EMPTY"}) EXCEPT
         !.said = Say(@, Event(IF ListOpen(@.cur.ev) THEN "element" ELSE "member",
                               KeyText(key), ValueText(v)))]

\* What the functions below share: room, then the value in the format.
Write(y, mem, needed, key, v, printed) ==
  Then(ndpi_extend_serializer_buffer(y, mem, needed),
       LAMBDA x : CASE Json(x) -> JsonValue(x, key, v)
                    [] x.fmt = "csv" -> CsvValue(x, mem, key, v, printed)
                    [] x.fmt = "tlv" -> TlvValue(x, key, v))

InJson(y, n) == IF Json(y) THEN n ELSE 0

ndpi_serialize_uint32_uint32(y, mem, key, v) ==
  Write(y, mem, 9 + InJson(y, 24), key, v, TRUE)

ndpi_serialize_uint32_int32(y, mem, key, v) ==
  Write(y, mem, 9 + InJson(y, 24), key, v, TRUE)

\* TLV holds a value below 2^32 in 32 bits.
ndpi_serialize_uint32_uint64(y, mem, key, v) ==
  LET x == ndpi_extend_serializer_buffer(y, mem, 13 + InJson(y, 32))
  IN  IF y.fmt = "tlv" /\ v.w <= 4
        THEN Then(x, LAMBDA u : ndpi_serialize_uint32_uint32(u, mem, key, [v EXCEPT !.t = "uint32"]))
      ELSE Write(y, mem, 13 + InJson(y, 32), key, v, TRUE)

\* A value from 0 below 2^32, as a signed one of 32 bits.
AsInt32(v) == IF v.n = "2^31" THEN Negative("int32", "-2^31", 11, 4) ELSE [v EXCEPT !.t = "int32"]

Below32(v) == v.n = "2^31" \/ (v.w <= 4 /\ ~v.neg)

ndpi_serialize_uint32_int64(y, mem, key, v) ==
  LET x == ndpi_extend_serializer_buffer(y, mem, 13 + InJson(y, 32))
  IN  IF y.fmt = "tlv" /\ Below32(v)
        THEN Then(x, LAMBDA u : ndpi_serialize_uint32_int32(u, mem, key, AsInt32(v)))
      ELSE Write(y, mem, 13 + InJson(y, 32), key, v, TRUE)

ndpi_serialize_uint32_float(y, mem, key, v) ==
  Write(y, mem, 41 + InJson(y, 32), key, v, TRUE)

\* Not in TLV.
ndpi_serialize_uint32_double(y, mem, key, v) ==
  IF y.fmt = "tlv" THEN Fail(ndpi_extend_serializer_buffer(y, mem, 45))
  ELSE Write(y, mem, 45 + InJson(y, 32), key, v, TRUE)

ndpi_serialize_uint32_binary(y, mem, key, v) ==
  Write(y, mem, 7 + v.d + InJson(y, 24 + 2 * v.d), key, v, TRUE)

ndpi_serialize_uint32_boolean(y, mem, key, v) ==
  IF y.fmt = "tlv" THEN Fail(y) ELSE Write(y, mem, 24, key, v, TRUE)

\* The integer a string key of digits spells (atoi).
AsNumber(key) == Number(key.n, key.d, key.w)

ndpi_serialize_binary_int32(y, mem, key, v) ==
  IF key.digits THEN ndpi_serialize_uint32_int32(y, mem, AsNumber(key), v)
  ELSE Write(y, mem, 7 + key.d + InJson(y, 16 + key.d), key, v, TRUE)

\* CSV prints the value as unsigned.
Unsigned(v) == IF v.neg THEN [v EXCEPT !.n = "unsigned", !.d = 10] ELSE v

ndpi_serialize_string_int32(y, mem, key, v) ==
  IF y.fmt = "csv" THEN Write(y, mem, 12, key, Unsigned(v), TRUE)
  ELSE ndpi_serialize_binary_int32(y, mem, key, v)

ndpi_serialize_binary_int64(y, mem, key, v) ==
  LET needed == 11 + key.d + InJson(y, 16 + key.d)
      x == ndpi_extend_serializer_buffer(y, mem, needed)
  IN  IF key.digits THEN ndpi_serialize_uint32_int64(y, mem, AsNumber(key), v)
      ELSE IF y.fmt = "tlv" /\ Below32(v)
        THEN Then(x, LAMBDA u : ndpi_serialize_string_int32(u, mem, key, AsInt32(v)))
      ELSE Write(y, mem, needed, key, v, TRUE)

ndpi_serialize_binary_uint32(y, mem, key, v) ==
  IF y.fmt = "csv" THEN Write(y, mem, v.d + 1, key, v, FALSE)
  ELSE IF key.digits THEN ndpi_serialize_uint32_uint32(y, mem, AsNumber(key), v)
  ELSE Write(y, mem, 43 + key.d, key, v, TRUE)

ndpi_serialize_binary_uint64(y, mem, key, v) ==
  LET needed == 11 + key.d + InJson(y, 16 + key.d)
      x == ndpi_extend_serializer_buffer(y, mem, needed)
  IN  IF key.digits THEN ndpi_serialize_uint32_uint64(y, mem, AsNumber(key), v)
      ELSE IF y.fmt = "tlv" /\ v.w <= 4
        THEN Then(x, LAMBDA u : ndpi_serialize_binary_uint32(u, mem, key, [v EXCEPT !.t = "uint32"]))
      ELSE Write(y, mem, needed, key, v, TRUE)

ndpi_serialize_binary_float(y, mem, key, v) ==
  IF key.digits THEN ndpi_serialize_uint32_float(y, mem, AsNumber(key), v)
  ELSE Write(y, mem, 39 + key.d + InJson(y, 32 + key.d), key, v, TRUE)

\* Not in TLV; a key of digits stays a string.
ndpi_serialize_binary_double(y, mem, key, v) ==
  IF y.fmt = "tlv" THEN Fail(ndpi_extend_serializer_buffer(y, mem, 43 + key.d))
  ELSE Write(y, mem, 43 + key.d + InJson(y, 32 + key.d), key, v, TRUE)

\* The value is escaped when it is a string, and copied when it is raw.
ndpi_serialize_binary_raw(y, mem, key, v) ==
  Write(y, mem, 5 + key.d + v.d + InJson(y, 16 + key.d + v.d), key, v, FALSE)

ndpi_serialize_binary_binary(y, mem, key, v) ==
  IF key.digits THEN ndpi_serialize_uint32_binary(y, mem, AsNumber(key), v)
  ELSE ndpi_serialize_binary_raw(y, mem, key, v)

ndpi_serialize_string_string_len(y, mem, key, v) ==
  IF y.fmt = "csv" THEN Write(y, mem, v.d + 1, key, v, FALSE)
  ELSE ndpi_serialize_binary_binary(y, mem, key, v)

\* A number where JSON has one, else the text the format makes of it.
ndpi_serialize_string_uint32_format(y, mem, key, v) ==
  IF Json(y) THEN ndpi_serialize_binary_uint32(y, mem, key, v)
  ELSE ndpi_serialize_string_string_len(y, mem, key, [v EXCEPT !.t = "string"])

ndpi_serialize_binary_boolean(y, mem, key, v) ==
  IF y.fmt = "tlv" THEN Fail(y)
  ELSE IF key.digits THEN ndpi_serialize_uint32_boolean(y, mem, AsNumber(key), v)
  ELSE Write(y, mem, key.d + 16, key, v, TRUE)

-----------------------------------------------------------------------------
(* Lists, blocks and records. *)

\* The start of a list or a block; opening: the text after its key.
Start(y, mem, key, op, opening) ==
  LET list == op = "list"
      begin(x) == Printed(Put(ndpi_serialize_json_pre(x), KeyText(key)), opening)
      json(x) ==
        Unfinished(Then(Then(Then(begin(x),
                                  LAMBDA u : IF list THEN With(u, {"LIST", "SOL"}) ELSE u),
                             ndpi_serialize_json_post),
                        LAMBDA u : IF list THEN u ELSE With(u, {"SOB"})))
      tlv(x) == Put(Put(x, TypeByte("unknown", op)), TlvKey(key))
      said(x) == [x EXCEPT !.said = Say(@, Event(op, KeyText(key), NoText)),
                           !.sound = @ /\ ~(Lines(x) /\ list)]
  IN  IF y.fmt = "csv" THEN Fail(y)
      ELSE Then(Then(ndpi_extend_serializer_buffer(y, mem, 16 + key.d),
                     LAMBDA x : IF Json(x) THEN json(x) ELSE tlv(x)),
                said)

\* "lines" writes no bracket for the end of a list.
ndpi_serialize_start_of_list(y, mem, key) == Start(y, mem, key, "list", ListText)

ndpi_serialize_start_of_block(y, mem, key) == Start(y, mem, key, "block", BlockText)

\* TLV does not grow the buffer for the end of a list.
ndpi_serialize_end_of_list(y) ==
  LET said(x) == [x EXCEPT !.said = Say(@, Event("end_list", NoText, NoText))]
  IN  CASE Json(y) -> said(Without(y, {"SOL", "LIST"}))
        [] y.fmt = "csv" -> Fail(y)
        [] y.fmt = "tlv" -> Then(IF y.used = y.size THEN Fail(y)
                                 ELSE Put(y, TypeByte("unknown", "end_list")), said)

\* In an array the end of a block closes the text without having reopened it.
ndpi_serialize_end_of_block(y, mem) ==
  LET json(x) == Unfinished(ndpi_serialize_json_post(With(Without(x, {"SOB"}), {"CEOB"})))
      said(x) == [x EXCEPT !.said = Say(@, Event("end_block", NoText, NoText)),
                           !.sound = @ /\ ~(Json(x) /\ ~Lines(x) /\ "ARRAY" \in x.flags)]
  IN  IF y.fmt = "csv" THEN Fail(y)
      ELSE Then(Then(ndpi_extend_serializer_buffer(y, mem, 4),
                     LAMBDA x : IF Json(x) THEN json(x)
                                ELSE Put(x, TypeByte("unknown", "end_block"))),
                said)

ndpi_serialize_end_of_record(y, mem) ==
  LET csv(x) == With(Put(x, Punct("nl")), {"HDR_DONE", "EOR"})
      array(x) == IF "ARRAY" \in x.flags THEN x
                  ELSE Put(SetByte(x, 1, "["), Punct("]"))
      json(x) == Without(With(IF Lines(x) THEN Put(x, Punct("nl")) ELSE array(x),
                              {"ARRAY", "EOR"}), {"COMMA"})
      tlv(x) == Put(x, TypeByte("unknown", "end_record"))
      out(x) == CASE Json(x) -> json(x) [] x.fmt = "csv" -> csv(x) [] x.fmt = "tlv" -> tlv(x)
  IN  Then(ndpi_extend_serializer_buffer(y, mem, IF y.fmt = "tlv" THEN 1 ELSE 2),
           LAMBDA x : [Without(out(x), {"NOT_EMPTY"}) EXCEPT !.said = EndRecord(@)])

\* A ready record, in an array or on a line.  It takes the place of an empty
\* first record, which the code tells by size_used and drops before it knows
\* that there is room.  The record is an object; that ending it failed is not
\* looked at.
ndpi_serialize_raw_record(y, mem, v) ==
  LET empty == Json(y) /\ y.used = (IF Lines(y) THEN 2 ELSE 3)
      needed == v.d + InJson(y, IF empty THEN 1 ELSE 3)
      room == ndpi_extend_serializer_buffer(y, mem, needed)
      lost == [room EXCEPT !.used = IF empty THEN @ - (IF Lines(y) THEN 2 ELSE 1) ELSE @,
                           !.sound = @ /\ ~empty, !.mark.safe = @ /\ ~empty,
                           !.lost = @ \/ empty]
      begin == IF ~empty /\ Json(y) /\ ~Lines(y) THEN Put(TakeBack(room), Punct(","))
               ELSE IF empty THEN [room EXCEPT !.used = IF Lines(y) THEN 0 ELSE 1]
               ELSE room
      put == Put(Put(begin, Punct("{")), Tok(v.n, v.d - 1))
      close == IF Json(y) /\ ~Lines(y) /\ ~empty THEN Put(put, Punct("]")) ELSE put
      said == [close EXCEPT !.said.cur = Record(TRUE, <<Event("raw", NoText, Tok(v.n, v.d - 1))>>)]
      end == ndpi_serialize_end_of_record(said, mem)
  IN  IF room.rc # 0 THEN lost
      ELSE [end EXCEPT !.rc = 0, !.sound = @ /\ end.rc = 0]

\* What of the text the calls after the snapshot overwrite and a rollback does
\* not restore: the bracket of a list, and in an array the brace of a record.
Safe(y) ==
  Json(y) => /\ "LIST" \notin y.flags
             /\ "ARRAY" \in y.flags => "EOR" \in y.flags \/ Inner(y)

ndpi_serializer_create_snapshot(y) ==
  [y EXCEPT !.snap = [taken |-> TRUE, flags |-> y.flags, used |-> y.used,
                      hdr |-> y.hdr, hused |-> y.hused],
            !.mark = [safe |-> Safe(y), said |-> y.said, sound |-> y.sound]]

ndpi_serializer_rollback_snapshot(y) ==
  LET back == [y EXCEPT !.flags = y.snap.flags, !.used = y.snap.used,
                        !.hdr = y.snap.hdr, !.hused = y.snap.hused,
                        !.snap.taken = FALSE, !.said = y.mark.said,
                        !.sound = y.mark.safe /\ y.mark.sound]
      first == IF Lines(y) THEN back ELSE SetByte(back, 1, " ")
  IN  IF ~y.snap.taken THEN y
      ELSE IF ~Json(y) THEN back
      ELSE IF "ARRAY" \in back.flags
        THEN IF Lines(y) THEN back ELSE SetByte(back, back.used, "]")
      ELSE IF Inner(y) THEN first
      ELSE SetByte(first, back.used, "}")

ndpi_serializer_skip_header(y) == With(y, {"HDR_DONE"})

-----------------------------------------------------------------------------
(* The deserializer, and the copies made with it. *)

\* The token that begins at an offset.
At(y, off) == y.data[off + 1][1]

\* The bytes of a key or a value of that type at an offset.
ndpi_deserialize_get_single_size(y, t, off) ==
  CASE t \in {"uint8", "int8"} -> 1
    [] t \in {"uint16", "int16"} -> 2
    [] t \in {"uint32", "int32", "float"} -> 4
    [] t \in {"uint64", "int64"} -> 8
    [] t \in {"string", "block", "list"} -> At(y, off).len
    [] t \in {"end_record", "end_block", "end_list", "unknown"} -> 0

\* Where the value of the item at an offset is, and the item after it.
ValueOffset(y, off) == off + 1 + ndpi_deserialize_get_single_size(y, At(y, off).kt, off + 1)

ndpi_deserialize_next(y, off) ==
  LET v == ValueOffset(y, off)
  IN  v + ndpi_deserialize_get_single_size(y, At(y, off).vt, v)

\* Add the value at an offset to another serializer.
CloneValue(y, off, out) ==
  LET t == At(y, off)
      key == At(y, off + 1).of
      v == At(y, ValueOffset(y, off)).of
      f(Num(_, _, _, _), Str(_, _, _, _)) ==
        IF t.kt = "string" THEN Str(out, Memory, key, v) ELSE Num(out, Memory, key, v)
  IN  CASE t.vt \in {"uint8", "uint16", "uint32"} ->
             f(ndpi_serialize_uint32_uint32, ndpi_serialize_binary_uint32)
        [] t.vt = "uint64" -> f(ndpi_serialize_uint32_uint64, ndpi_serialize_binary_uint64)
        [] t.vt \in {"int8", "int16", "int32"} ->
             f(ndpi_serialize_uint32_int32, ndpi_serialize_binary_int32)
        [] t.vt = "int64" -> f(ndpi_serialize_uint32_int64, ndpi_serialize_binary_int64)
        [] t.vt = "float" -> f(ndpi_serialize_uint32_float, ndpi_serialize_binary_float)
        [] t.vt = "string" -> f(ndpi_serialize_uint32_binary, ndpi_serialize_binary_binary)

\* Wrong on purpose: the end of a list is passed over.
CloneStructure_List(y, off, out) ==
  CASE At(y, off).vt = "end_record" -> ndpi_serialize_end_of_record(out, Memory)
    [] At(y, off).vt = "block" -> ndpi_serialize_start_of_block(out, Memory, At(y, off + 1).of)
    [] At(y, off).vt = "end_block" -> ndpi_serialize_end_of_block(out, Memory)
    [] At(y, off).vt = "list" -> ndpi_serialize_start_of_list(out, Memory, At(y, off + 1).of)
    [] At(y, off).vt = "end_list" -> out

\* Add what opens or closes something at an offset.
CloneStructure(y, off, out) ==
  CASE At(y, off).vt = "end_record" -> ndpi_serialize_end_of_record(out, Memory)
    [] At(y, off).vt = "block" -> ndpi_serialize_start_of_block(out, Memory, At(y, off + 1).of)
    [] At(y, off).vt = "end_block" -> ndpi_serialize_end_of_block(out, Memory)
    [] At(y, off).vt = "list" -> ndpi_serialize_start_of_list(out, Memory, At(y, off + 1).of)
    [] At(y, off).vt = "end_list" -> ndpi_serialize_end_of_list(out)

\* The item at an offset.
CloneOne(y, off, out) ==
  IF At(y, off).kt = "unknown" THEN CloneStructure(y, off, out) ELSE CloneValue(y, off, out)

\* Every item, as calls on another serializer, whose results are not looked at.
RECURSIVE ndpi_deserialize_clone_all(_, _, _)
ndpi_deserialize_clone_all(y, off, out) ==
  IF off >= y.used THEN out
  ELSE ndpi_deserialize_clone_all(y, ndpi_deserialize_next(y, off),
                                  [CloneOne(y, off, out) EXCEPT !.rc = 0])

\* Every item copied byte by byte into another TLV serializer.
RECURSIVE CloneItems(_, _, _)
CloneItems(y, off, out) ==
  LET next == ndpi_deserialize_next(y, off)
      room == ndpi_extend_serializer_buffer(out, {"buffer"}, next - off)
      toks == SelectSeq(SubSeq(y.data, off + 1, next), LAMBDA b : b[2] = 1)
  IN  IF off >= y.used THEN out
      ELSE CloneItems(y, next, FoldLeft(LAMBDA o, b : Put(o, b[1]), room, toks))

-----------------------------------------------------------------------------
(* The caller: any calls, blocks and lists properly nested, and a ready    *)
(* record only where a record may begin.                                   *)

\* The blocks that have not been ended.
Depth(ev) ==
  Len(SelectSeq(ev, LAMBDA e : e.op = "block"))
    - Len(SelectSeq(ev, LAMBDA e : e.op = "end_block"))

\* A call with a key and a value.
Value(y, mem, c) ==
  LET f(Op(_, _, _, _)) == Op(y, mem, c.key, c.val)
  IN  CASE c.op = "uint32_uint32" -> f(ndpi_serialize_uint32_uint32)
        [] c.op = "uint32_int32" -> f(ndpi_serialize_uint32_int32)
        [] c.op = "uint32_uint64" -> f(ndpi_serialize_uint32_uint64)
        [] c.op = "uint32_int64" -> f(ndpi_serialize_uint32_int64)
        [] c.op = "uint32_float" -> f(ndpi_serialize_uint32_float)
        [] c.op = "uint32_double" -> f(ndpi_serialize_uint32_double)
        [] c.op = "uint32_string" -> f(ndpi_serialize_uint32_binary)
        [] c.op = "uint32_boolean" -> f(ndpi_serialize_uint32_boolean)
        [] c.op = "string_int32" -> f(ndpi_serialize_string_int32)
        [] c.op = "string_int64" -> f(ndpi_serialize_binary_int64)
        [] c.op = "string_uint32" -> f(ndpi_serialize_binary_uint32)
        [] c.op = "string_format" -> f(ndpi_serialize_string_uint32_format)
        [] c.op = "string_uint64" -> f(ndpi_serialize_binary_uint64)
        [] c.op = "string_float" -> f(ndpi_serialize_binary_float)
        [] c.op = "string_double" -> f(ndpi_serialize_binary_double)
        [] c.op = "string_string" -> f(ndpi_serialize_string_string_len)
        [] c.op = "string_raw" -> f(ndpi_serialize_binary_raw)
        [] c.op = "string_boolean" -> f(ndpi_serialize_binary_boolean)

\* A call that opens or closes something.
Structure == {"list", "end_list", "block", "end_block", "end_record", "raw_record"}

Nested(y, op) ==
  LET ev == y.said.cur.ev
  IN  CASE op = "end_list" -> ListOpen(ev) \/ y.fmt = "csv"
        [] op = "end_block" -> (Depth(ev) > 0 /\ ~ListOpen(ev)) \/ y.fmt = "csv"
        [] op \in {"list", "block"} -> ~ListOpen(ev)
        [] op = "end_record" -> ~ListOpen(ev) /\ Depth(ev) = 0
        [] op = "raw_record" -> ev = << >> /\ y.fmt \in {"json", "lines"}

Structured(y, mem, c) ==
  CASE c.op = "list" -> ndpi_serialize_start_of_list(y, mem, c.key)
    [] c.op = "end_list" -> ndpi_serialize_end_of_list(y)
    [] c.op = "block" -> ndpi_serialize_start_of_block(y, mem, c.key)
    [] c.op = "end_block" -> ndpi_serialize_end_of_block(y, mem)
    [] c.op = "end_record" -> ndpi_serialize_end_of_record(y, mem)
    [] c.op = "raw_record" -> ndpi_serialize_raw_record(y, mem, c.val)

\* A call: z becomes what it leaves, ready for the next one.
Done(y) == z' = [y EXCEPT !.calls = @ + 1]

Ready == [z EXCEPT !.rc = 0]

SerValue(c, mem) == c.op \notin Structure /\ Done(Value(Ready, mem, c))

SerStructure(c, mem) ==
  c.op \in Structure /\ Nested(z, c.op) /\ Done(Structured(Ready, mem, c))

CreateSnapshot == Done(ndpi_serializer_create_snapshot(Ready))

RollbackSnapshot == Done(ndpi_serializer_rollback_snapshot(Ready))

ResetSerializer == Done(ndpi_reset_serializer(Ready))

SkipHeader == z.fmt = "csv" /\ Done(ndpi_serializer_skip_header(Ready))

SerInit ==
  \E s \in DOMAIN SerScenario :
    z = [NewSerializer(SerScenario[s].fmt, SerScenario[s].size) EXCEPT !.sc = s]

SerNext ==
  /\ z.calls < SerScenario[z.sc].max
  /\ \/ \E c \in SerScenario[z.sc].calls, mem \in SUBSET Memory :
          SerValue(c, mem) \/ SerStructure(c, mem)
     \/ CreateSnapshot
     \/ RollbackSnapshot
     \/ ResetSerializer
     \/ SkipHeader

SerSpec == SerInit /\ [][SerNext]_z

-----------------------------------------------------------------------------
(* Properties. *)

\* The text in the buffer.
Text(y) == SubSeq(y.data, 1, y.used)

Expected(y) ==
  BytesOf(CASE Lines(y) -> LinesText(y.said)
            [] Json(y) /\ ~Lines(y) -> JsonText(y.fmt, y.said)
            [] y.fmt = "csv" -> RowsText(y.said))

\* The state has its type, and the bytes that count have been written.
SerTypeOK ==
  /\ z.fmt = SerScenario[z.sc].fmt /\ z.flags \subseteq Flag /\ z.rc \in {0, -1}
  /\ z.used \in 0 .. Len(z.data)
  /\ z.sound \in BOOLEAN /\ z.over \in BOOLEAN

\* After every call the buffer is the text of the document the calls described, in
\* each of the JSON formats and in CSV: closing brackets that were taken back are
\* written again and every separator is where it belongs, whatever the order of
\* values, lists, blocks, ends of records, failed allocations, snapshots and
\* rollbacks.  The header of CSV names the cells of the first row: a call that fails
\* leaves its column and its cell, or neither, and a rollback takes both back.
TextFaithful ==
  LET rows == Append(z.said.done, z.said.cur)
      names == [i \in 1 .. Len(rows[1].ev) |-> rows[1].ev[i].key.n]
  IN  z.sound =>
        /\ Json(z) \/ z.fmt = "csv" => Text(z) = Expected(z)
        /\ z.fmt = "csv" =>
             /\ IsPrefix(z.hdr, names)
             /\ "HDR_DONE" \notin z.flags => z.hdr = names

\* TLV holds a signed value of 64 bits below 2^32 in 32: from 2^31 on it comes back
\* negative.
Upper(said) ==
  \E i \in 1 .. Len(Begun(said)) : \E j \in 1 .. Len(Begun(said)[i].ev) :
    Begun(said)[i].ev[j].v.n \in {"2^31", "-2^31"}

\* Cloning a TLV buffer into JSON makes the calls that wrote it, one by one and in
\* their order, and cloning its items into TLV gives the same bytes: every item is
\* read with the width it was written with.
CloneSame ==
  z.fmt = "tlv" /\ z.sound /\ ~Upper(z.said) =>
    /\ ndpi_deserialize_clone_all(z, 2, NewSerializer("json", z.init)).said = z.said
    /\ Text(CloneItems(z, 2, NewSerializer("tlv", z.init))) = Text(z)

\* No call writes beyond the buffer or beyond the header: each asks for the room it
\* uses, brackets and separators included.  (lost: a ready record found no memory
\* after the empty record was dropped for it.)
RoomKept == ~z.lost => ~z.over /\ z.used <= z.size

\* The end of a record makes the records an array, whose records are objects like the
\* first one.
RecordsAlike == z.fmt = "json" /\ ~z.snap.taken => Text(z) = Expected(z)
=============================================================================
