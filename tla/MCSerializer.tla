----------------------------- MODULE MCSerializer -----------------------------
(***************************************************************************)
(* The keys, the values and the sequences of calls that TLC gives to the   *)
(* serializer: every call with keys and values of every width, and for     *)
(* each format the calls that give its text a structure.                   *)
(***************************************************************************)
EXTENDS Serializer

CallOf(op, key, val) == [op |-> op, key |-> key, val |-> val]

Seven == Number("7", 1, 1)

Wide == Number("70000", 5, 4)

Short == Name("k", 1)

Long == Name("key", 3)

Nine == Digits("9", 1, 1)

Structural(op) == CallOf(op, Short, NoText)

Largest == Val("uint32", "2^32-1", 10, 4)

Word == Val("string", "s", 2, 0)

Hundreds == Val("uint32", "300", 3, 2)

Tree ==
  {Structural("block"), Structural("end_block"), CallOf("list", Long, NoText),
   Structural("end_list"), Structural("end_record")}

Values ==
  {CallOf("uint32_uint32", Seven, Largest),
   CallOf("uint32_int32", Seven, Negative("int32", "-300", 4, 2)),
   CallOf("uint32_uint64", Wide, Val("uint64", "2^40", 13, 8)),
   CallOf("uint32_int64", Seven, Negative("int64", "-1", 2, 1)),
   CallOf("uint32_float", Seven, Val("float", "1.5", 3, 4)),
   CallOf("uint32_double", Seven, Val("double", "1e60", 60, 8)),
   CallOf("uint32_string", Wide, Word),
   CallOf("uint32_boolean", Seven, Val("boolean", "true", 4, 0)),
   CallOf("string_int32", Nine, Negative("int32", "-1", 2, 1)),
   CallOf("string_int64", Short, Val("int64", "2^31", 10, 8)),
   CallOf("string_uint32", Long, Hundreds),
   CallOf("string_uint64", Nine, Val("uint64", "5", 1, 1)),
   CallOf("string_float", Short, Val("float", "1.5", 3, 4)),
   CallOf("string_boolean", Long, Val("boolean", "false", 5, 0)),
   CallOf("string_string", Nine, Word),
   Structural("end_record")}

Formatted == CallOf("string_format", Short, Hundreds)

ReadyRecord == CallOf("raw_record", Short, Val("raw", "r", 4, 0))

Text1 == CallOf("string_string", Short, Word)

Number1 == CallOf("uint32_uint32", Seven, Largest)

Calls(fmt, size, calls, max) == [fmt |-> fmt, size |-> size, calls |-> calls, max |-> max]

JsonTree == Calls("json", 4, Tree \union {Number1}, 5)

MCScenarios ==
  [json_tree    |-> JsonTree,
   json_records |-> Calls("json", 20, {Text1, ReadyRecord, Structural("end_record"),
                            CallOf("string_double", Long, Val("double", "1e80", 80, 8))}, 5),
   lines_tree   |-> Calls("lines", 20, Tree \union {Text1, ReadyRecord}, 5),
   inner_tree   |-> Calls("inner", 4, Tree \union {Text1}, 5),
   tlv_tree     |-> Calls("tlv", 4, Tree \union {Text1}, 5),
   json_values  |-> Calls("json", 4, Values \union {CallOf("string_raw", Short, Val("raw", "[]", 2, 0)),
                            Formatted, Structural("list")}, 3),
   csv_values   |-> Calls("csv", 20, Values \union {Formatted, Structural("list"),
                            Structural("end_list"), Structural("block"), Structural("end_block")}, 3),
   csv_rows     |-> Calls("csv", 4, {Number1, Text1, Structural("end_record")}, 6),
   tlv_values   |-> Calls("tlv", 4, Values, 3)]

\* Records of JSON with nested blocks, which end_of_block does not open.
MCRecords == [json_tree |-> JsonTree]
=============================================================================
