------------------------------- MODULE JsonRow -------------------------------
(***************************************************************************)
(* conv_2_json (ms_qs.c) with core/ms_json.c: a row becomes a text in two  *)
(* passes, one that measures it and one that writes it into memory of that *)
(* size.  rows_event_handler calls it for each image it stores (RowDecode).*)
(*                                                                         *)
(* A row is a sequence of columns [name, null, value].  Texts are          *)
(* sequences of byte values.  That the pool has the memory is taken for    *)
(* granted; conv_2_json writes through NULL when it has not.               *)
(***************************************************************************)
EXTENDS Integers, Sequences

VARIABLES
  row,    \* the columns, ti->cols
  pc,     \* "idle", "measure", "write", "done"
  i,      \* the column
  size,   \* of the memory for the text
  out     \* what is in that memory

Quote == 34  Backslash == 92  Comma == 44  Colon == 58  Open == 123  Close == 125
meta == <<105, 110, 115>>                                  \* the kind of event
MetaKey == <<Quote, 109, 101, 116, 97, Quote, Colon>>      \* "meta":
DataKey == <<Quote, 100, 97, 116, 97, Quote, Colon>>       \* "data":

(* The letter for a byte that is escaped by a letter; bytes "\b\f\n\r\t.   *)
Letter == [b \in {34, 92, 8, 12, 10, 13, 9} |->
             CASE b = 8 -> 98 [] b = 12 -> 102 [] b = 10 -> 110
               [] b = 13 -> 114 [] b = 9 -> 116 [] OTHER -> b]

(* Faulty: a backslash is not counted twice. *)
enstring_len_no_backslash(src) ==
  LET extra(b) == IF b \in DOMAIN Letter \ {Backslash} THEN 1 ELSE IF b < 32 THEN 5 ELSE 0
      sum[k \in 0 .. Len(src)] == IF k = 0 THEN 0 ELSE sum[k - 1] + 1 + extra(src[k])
  IN 2 + sum[Len(src)]

(* strchr finds the zero byte too, as the end of its string.               *)
ms_json_enstring_len(src) ==
  LET extra(b) == IF b \in DOMAIN Letter \cup {0} THEN 1 ELSE IF b < 32 THEN 5 ELSE 0
      sum[k \in 0 .. Len(src)] == IF k = 0 THEN 0 ELSE sum[k - 1] + 1 + extra(src[k])
  IN 2 + sum[Len(src)]

HexDigit(n) == IF n < 10 THEN 48 + n ELSE 87 + n

(* Other bytes below 32: snprintf has room for u, three digits and a zero  *)
(* byte where the fourth digit belongs.                                    *)
Escape(b) ==
  IF b \in DOMAIN Letter THEN <<Backslash, Letter[b]>>
  ELSE IF b < 32 THEN <<Backslash, 117, 48, 48, HexDigit(b \div 16), 0>>
  ELSE <<b>>

(* Faulty: a quote in a string is not escaped. *)
enstring_bare_quote(src) ==
  LET text[k \in 0 .. Len(src)] ==
        IF k = 0 THEN <<>>
        ELSE text[k - 1] \o (IF src[k] = Quote THEN <<Quote>> ELSE Escape(src[k]))
  IN <<Quote>> \o text[Len(src)] \o <<Quote>>

ms_json_enstring(src) ==
  LET text[k \in 0 .. Len(src)] ==
        IF k = 0 THEN <<>> ELSE text[k - 1] \o Escape(src[k])
  IN <<Quote>> \o text[Len(src)] \o <<Quote>>

Skipped(column) == column.null \/ column.name = <<>>

-----------------------------------------------------------------------------
Init == pc = "idle" /\ row = <<>> /\ i = 1 /\ size = 0 /\ out = <<>>

Call(columns) ==
  /\ pc = "idle"
  /\ row' = columns
  /\ pc' = "measure" /\ i' = 1 /\ out' = <<>>
  /\ size' = 19 + ms_json_enstring_len(meta)    \* {"data":{},"meta":}

MeasureColumn ==
  /\ pc = "measure" /\ i <= Len(row)
  /\ size' = IF Skipped(row[i]) THEN size
             ELSE size + ms_json_enstring_len(row[i].name)
                       + ms_json_enstring_len(row[i].value) + 2
  /\ i' = i + 1
  /\ UNCHANGED <<row, pc, out>>

Allocate ==
  /\ pc = "measure" /\ i > Len(row)
  /\ out' = <<Open>> \o MetaKey \o ms_json_enstring(meta) \o <<Comma>> \o DataKey \o <<Open>>
  /\ pc' = "write" /\ i' = 1
  /\ UNCHANGED <<row, size>>

WriteColumn ==
  /\ pc = "write" /\ i <= Len(row)
  /\ out' = IF Skipped(row[i]) THEN out
            ELSE out \o ms_json_enstring(row[i].name) \o <<Colon>>
                     \o ms_json_enstring(row[i].value) \o <<Comma>>
  /\ i' = i + 1
  /\ UNCHANGED <<row, pc, size>>

(* The last byte, a comma or the brace that opens the data, is replaced by *)
(* a brace.  The second brace is itself replaced by the zero byte.         *)
Finish ==
  /\ pc = "write" /\ i > Len(row)
  /\ out' = [out EXCEPT ![Len(out)] = Close] \o <<0>>
  /\ pc' = "done"
  /\ UNCHANGED <<row, i, size>>

Convert == MeasureColumn \/ Allocate \/ WriteColumn \/ Finish

(* flush_row_info stores a string of C and the memory is freed.            *)
Stored ==
  SubSeq(out, 1, (CHOOSE k \in DOMAIN out : out[k] = 0 /\ \A l \in 1 .. k - 1 : out[l] # 0) - 1)

Free == pc = "done" /\ pc' = "idle" /\ row' = <<>> /\ i' = 1 /\ size' = 0 /\ out' = <<>>

-----------------------------------------------------------------------------
(* What a reader of JSON makes of a text: its strings, without escapes,    *)
(* and the punctuation between them (external: the consumer).              *)
Tokens(text) ==
  LET n == Len(text)
      end[k \in 1 .. n + 2] ==            \* the quote that closes a string
        IF k > n THEN n + 1
        ELSE IF text[k] = Quote THEN k
        ELSE IF text[k] = Backslash THEN end[k + 2] ELSE end[k + 1]
      unescaped[k \in 1 .. n + 2, e \in 1 .. n + 2] ==
        IF k >= e THEN <<>>
        ELSE IF text[k] # Backslash THEN <<text[k]>> \o unescaped[k + 1, e]
        ELSE <<CHOOSE b \in DOMAIN Letter : Letter[b] = text[k + 1]>> \o unescaped[k + 2, e]
      token[k \in 1 .. n + 2] ==
        IF k > n THEN <<>>
        ELSE IF text[k] # Quote THEN <<<<"mark", text[k]>>>> \o token[k + 1]
        ELSE <<<<"string", unescaped[k + 1, end[k + 1]]>>>> \o token[end[k + 1] + 1]
  IN token[1]

(* The tokens of the text the comment in conv_2_json gives (ms_qs.c:239).  *)
Expected(columns) ==
  LET mark(b) == <<"mark", b>>
      string(s) == <<"string", s>>
      used == SelectSeq(columns, LAMBDA column : ~Skipped(column))
      member(c) == <<string(c.name), mark(Colon), string(c.value)>>
      members[k \in 0 .. Len(used)] ==
        IF k = 0 THEN <<>>
        ELSE members[k - 1] \o (IF k = 1 THEN <<>> ELSE <<mark(Comma)>>) \o member(used[k])
  IN <<mark(Open), string(SubSeq(MetaKey, 2, 5)), mark(Colon), string(meta), mark(Comma),
       string(SubSeq(DataKey, 2, 5)), mark(Colon), mark(Open)>>
     \o members[Len(used)] \o <<mark(Close), mark(Close)>>

Strings(columns) ==
  UNION {{columns[c].name, columns[c].value} : c \in {d \in DOMAIN columns : ~Skipped(columns[d])}}
HasByte(columns, S) == \E s \in Strings(columns) : \E k \in DOMAIN s : s[k] \in S

(* The state has its type. *)
TypeOK ==
  /\ pc \in {"idle", "measure", "write", "done"}
  /\ i \in 1 .. Len(row) + 1
  /\ size \in Nat
  /\ \A k \in DOMAIN out : out[k] \in 0 .. 255

(* "calc the total len" (ms_qs.c:245): what is written, its last zero byte *)
(* included, is not more than what was measured, column by column.  The    *)
(* zero byte is the exception: it is counted as 2 bytes and written as 6.  *)
RowFits == ~HasByte(row, {0}) => Len(out) <= size

(* A row that the consumer can read back: a column of it is stored, and it *)
(* has no bytes below 32 other than those with a letter.                   *)
Readable(columns) ==
  Strings(columns) # {} /\ ~HasByte(columns, (0 .. 31) \ DOMAIN Letter)
=============================================================================
