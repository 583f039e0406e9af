------------------------------ MODULE RowFormat ------------------------------
(***************************************************************************)
(* The row format of a MySQL 5.5 binlog, as its master writes it, and the  *)
(* text that stands for a value.  External: nothing here is mysync's code. *)
(* It is what rows_event_handler and the code below it are written for.    *)
(*                                                                         *)
(* A column is a record [sql, type, meta, labels, name]: the name of its   *)
(* SQL type, its type byte and metadata bytes in the table map, the labels *)
(* of an enum or a set, its name.  A cell is a record [bytes, text], or    *)
(* Null.  A text is a tuple that begins with its kind.  Names and labels   *)
(* are sequences of bytes.                                                 *)
(***************************************************************************)
EXTENDS Integers, Sequences, SequencesExt

(* ms_coltype_e (ms_type.h) repeats MySQL's numbers. *)
MY_TYPE ==
  [DECIMAL |-> 0, TINY |-> 1, SHORT |-> 2, LONG |-> 3, FLOAT |-> 4, DOUBLE |-> 5,
   NULL |-> 6, TIMESTAMP |-> 7, LONGLONG |-> 8, INT24 |-> 9, DATE |-> 10, TIME |-> 11,
   DATETIME |-> 12, YEAR |-> 13, NEWDATE |-> 14, VARCHAR |-> 15, BIT |-> 16,
   NEWDECIMAL |-> 246, ENUM |-> 247, SET |-> 248, TINY_BLOB |-> 249,
   MEDIUM_BLOB |-> 250, LONG_BLOB |-> 251, BLOB |-> 252, VAR_STRING |-> 253,
   STRING |-> 254, GEOMETRY |-> 255]

Quote == 39
Null == [bytes |-> <<>>, text |-> <<"null">>]

Byte == 0 .. 255

(* The n low bytes of an integer, the lowest first; two's complement.      *)
PlaceValue == <<1, 256, 65536, 16777216>>
LEBytes(v, n) == [k \in 1 .. n |-> IF k > 4 THEN (IF v < 0 THEN 255 ELSE 0)
                                   ELSE (v \div PlaceValue[k]) % 256]

(* A number by its bytes, without the zero bytes at its high end.          *)
Stripped(bytes) ==
  SubSeq(bytes, 1, SelectLastInSeq(bytes, LAMBDA b : b # 0))

Decimal(v) == IF v < 0 THEN <<"negative", Stripped(LEBytes(-v, 4))>>
                       ELSE <<"number", Stripped(LEBytes(v, 4))>>

-----------------------------------------------------------------------------
(* Cells of the column types. *)

Integer(v, width) == [bytes |-> LEBytes(v, width), text |-> Decimal(v)]
Timestamp(v)  == [bytes |-> LEBytes(v, 4), text |-> <<"seconds", Stripped(LEBytes(v, 4))>>]
Year(y)       == [bytes |-> <<IF y = 0 THEN 0 ELSE y - 1900>>, text |-> <<"year", y>>]
Date(y, m, d) == [bytes |-> LEBytes(512 * y + 32 * m + d, 3), text |-> <<"date", y, m, d>>]
Time(sign, H, M, S) == [bytes |-> LEBytes(sign * (10000 * H + 100 * M + S), 3),
                        text  |-> <<"time", sign, H, M, S>>]
Bit(v, width) == [bytes |-> Reverse(LEBytes(v, width)), text |-> Decimal(v)]

(* The eight bytes of the number YYYYMMDDhhmmss = ymd * 10^6 + hms.        *)
Million == 1000000

Datetime(ymd, hms) ==
  LET digits == LEBytes(ymd, 8)
      sum[k \in 0 .. 8] == IF k = 0 THEN hms * 256
                           ELSE digits[k] * Million + (sum[k - 1] \div 256)
  IN [bytes |-> [k \in 1 .. 8 |-> sum[k] % 256], text |-> <<"datetime", ymd, hms>>]

(* A power of two, by its exponent. *)
Double(sign, e) ==
  LET biased == e + 1023
  IN [bytes |-> <<0, 0, 0, 0, 0, 0, (biased % 16) * 16, 128 * sign + (biased \div 16)>>,
      text  |-> <<"double", sign, e>>]

(* A string or blob behind its length in n bytes. *)
Counted(chars, n) == [bytes |-> LEBytes(Len(chars), n) \o chars, text |-> <<"chars", chars>>]

(* Bytes whose text mysync does not claim to make. *)
Opaque(bytes) == [bytes |-> bytes, text |-> <<"opaque">>]

(* An enum is the number of its label, 0 for the value '' of an error.     *)
EnumOf(labels, k) == [bytes |-> LEBytes(k, IF Len(labels) < 256 THEN 1 ELSE 2),
                      text  |-> <<"labels", IF k = 0 THEN <<>> ELSE <<labels[k]>>>>]

(* A bit for each number from 1 on, set for those in S, in n bytes.        *)
Bitmap(S, n) ==
  [b \in 1 .. n |->
     LET bit(k) == IF 8 * (b - 1) + k \in S THEN 1 ELSE 0
     IN bit(1) + 2 * bit(2) + 4 * bit(3) + 8 * bit(4)
        + 16 * bit(5) + 32 * bit(6) + 64 * bit(7) + 128 * bit(8)]

Bytes(n) == (n + 7) \div 8

(* The labels whose numbers are in S, in their order. *)
Labels(labels, S) ==
  LET chosen[k \in 0 .. Len(labels)] ==
        IF k = 0 THEN <<>>
        ELSE IF k \in S THEN Append(chosen[k - 1], labels[k]) ELSE chosen[k - 1]
  IN chosen[Len(labels)]

(* A set is a bit for each of its labels, in 1, 2, 3, 4 or 8 bytes.        *)
SetOf(labels, S) ==
  [bytes |-> Bitmap(S, IF Len(labels) > 32 THEN 8 ELSE Bytes(Len(labels))),
   text  |-> <<"labels", Labels(labels, S)>>]

-----------------------------------------------------------------------------
(* Columns. *)

Column(sql, type, meta) == [sql |-> sql, type |-> type, meta |-> meta, labels |-> <<>>, name |-> <<97>>]

(* A CHAR of so many bytes: above 255 two bits of the length are folded    *)
(* into the byte of the type.                                              *)
CharColumn(length) ==
  Column("char", MY_TYPE.STRING,
         <<IF length < 256 THEN MY_TYPE.STRING ELSE MY_TYPE.STRING - 16 * (length \div 256),
           length % 256>>)

LabelColumn(sql, type, labels, width) ==
  [Column(sql, MY_TYPE.STRING, <<type, width>>) EXCEPT !.labels = labels]

FixedSize ==
  [type \in {MY_TYPE.TINY, MY_TYPE.YEAR, MY_TYPE.SHORT, MY_TYPE.INT24, MY_TYPE.DATE,
            MY_TYPE.TIME, MY_TYPE.LONG, MY_TYPE.TIMESTAMP, MY_TYPE.LONGLONG,
            MY_TYPE.DATETIME} |->
     IF type \in {MY_TYPE.TINY, MY_TYPE.YEAR} THEN 1
     ELSE IF type = MY_TYPE.SHORT THEN 2
     ELSE IF type \in {MY_TYPE.INT24, MY_TYPE.DATE, MY_TYPE.TIME} THEN 3
     ELSE IF type \in {MY_TYPE.LONG, MY_TYPE.TIMESTAMP} THEN 4 ELSE 8]

MaxLabels == 65535

(* The metadata a master gives for a column of each type. *)
IsColumn(c) ==
  /\ c.meta \in Seq(Byte) /\ c.name \in Seq(Byte) /\ c.labels \in Seq(Seq(Byte))
  /\ Len(c.labels) <= MaxLabels
  /\ \/ c.type \in DOMAIN FixedSize /\ c.meta = <<>>
     \/ c.type = MY_TYPE.FLOAT /\ c.meta = <<4>>
     \/ c.type = MY_TYPE.DOUBLE /\ c.meta = <<8>>
     \/ c.type \in {MY_TYPE.BLOB, MY_TYPE.GEOMETRY} /\ \E n \in 1 .. 4 : c.meta = <<n>>
     \/ c.type = MY_TYPE.VARCHAR /\ Len(c.meta) = 2
     \/ /\ c.type = MY_TYPE.NEWDECIMAL
        /\ \E precision \in 1 .. 65 : \E scale \in 0 .. precision : c.meta = <<precision, scale>>
     \/ c.type = MY_TYPE.BIT /\ \E bits \in 1 .. 64 : c.meta = <<bits % 8, bits \div 8>>
     \/ c.type = MY_TYPE.STRING /\ \E length \in 0 .. 1023 : c.meta = CharColumn(length).meta
     \/ /\ c.type = MY_TYPE.STRING
        /\ \E width \in 1 .. 8 : c.meta \in {<<MY_TYPE.ENUM, width>>, <<MY_TYPE.SET, width>>}

(* What is counted by its first n bytes. *)
IsCounted(bytes, n) ==
  LET length == Len(bytes) - n
  IN /\ length >= 0 /\ length \div PlaceValue[n] < 256
     /\ \A k \in 1 .. n : bytes[k] = LEBytes(length, n)[k]

(* Bytes of so many digits of a decimal: nine take four.                   *)
DecimalSize(digits) == 4 * (digits \div 9) + <<0, 1, 1, 2, 2, 3, 3, 4, 4>>[(digits % 9) + 1]

(* The bytes of a cell of the column, as long as their type has them.      *)
HasSize(c, bytes) ==
  CASE c.type \in DOMAIN FixedSize -> Len(bytes) = FixedSize[c.type]
    [] c.type \in {MY_TYPE.FLOAT, MY_TYPE.DOUBLE} -> Len(bytes) = c.meta[1]
    [] c.type \in {MY_TYPE.BLOB, MY_TYPE.GEOMETRY} -> IsCounted(bytes, c.meta[1])
    [] c.type = MY_TYPE.VARCHAR -> IsCounted(bytes, IF c.meta[2] = 0 THEN 1 ELSE 2)
    [] c.type = MY_TYPE.NEWDECIMAL ->
         Len(bytes) = DecimalSize(c.meta[1] - c.meta[2]) + DecimalSize(c.meta[2])
    [] c.type = MY_TYPE.BIT -> Len(bytes) = Bytes(c.meta[1] + 8 * c.meta[2])
    [] c.type = MY_TYPE.STRING ->
         IF c.meta[1] \in {MY_TYPE.ENUM, MY_TYPE.SET} THEN Len(bytes) = c.meta[2]
         ELSE IsCounted(bytes, IF c.meta[1] = MY_TYPE.STRING THEN 1 ELSE 2)

(* The type of an enum or set as SHOW COLUMNS gives it, ('x','y'): the     *)
(* labels in quotes, a quote in a label written twice.                     *)
ShownType(labels) ==
  LET shown(label) == FlattenSeq([k \in DOMAIN label |->
                        IF label[k] = Quote THEN <<Quote, Quote>> ELSE <<label[k]>>])
  IN <<40>> \o FlattenSeq([k \in DOMAIN labels |->
       <<Quote>> \o shown(labels[k]) \o (IF k = Len(labels) THEN <<Quote>> ELSE <<Quote, 44>>)])
     \o <<41>>

-----------------------------------------------------------------------------
(* A rows event.  An image is a sequence with a cell for each column; an   *)
(* update has an image from before and one from after each change.         *)

Nulls(row) == {i \in DOMAIN row : row[i] = Null}

Image(row) == Bitmap(Nulls(row), Bytes(Len(row))) \o FlattenSeq([i \in DOMAIN row |-> row[i].bytes])

(* The event of a kind, "write", "update" or "delete", with these images:  *)
(* its bytes behind the header, which say that all columns are there, the  *)
(* metadata of its table map, and where each image and column begins.      *)
RowsEvent(kind, table, rows) ==
  LET n == Len(table)
      present == Bitmap(1 .. n, Bytes(n))
      header == IF kind = "update" THEN present \o present ELSE present
      image == [r \in DOMAIN rows |-> Image(rows[r])]
      start[r \in 1 .. Len(rows)] ==
        IF r = 1 THEN Len(header) ELSE start[r - 1] + Len(image[r - 1])
      column(row) ==
        LET at[i \in 1 .. n + 1] ==
              IF i = 1 THEN Len(present) ELSE at[i - 1] + Len(row[i - 1].bytes)
        IN at
      passed[i \in 1 .. n + 1] == IF i = 1 THEN 0 ELSE passed[i - 1] + Len(table[i - 1].meta)
  IN [kind |-> kind, table |-> table, rows |-> rows,
      bytes     |-> header \o FlattenSeq(image),
      metadata  |-> FlattenSeq([i \in 1 .. n |-> table[i].meta]),
      start     |-> start,
      at        |-> [r \in DOMAIN rows |-> column(rows[r])],
      passed    |-> passed]

(* An image has the value of a column, or Null, for each column.           *)
IsImage(table, row) ==
  /\ row \in Seq(ToSet(row)) /\ Len(row) = Len(table)
  /\ \A i \in DOMAIN row :
       \/ row[i] = Null
       \/ row[i].bytes \in Seq(Byte) /\ HasSize(table[i], row[i].bytes)

IsRowsEvent(e) ==
  /\ e = RowsEvent(e.kind, e.table, e.rows)
  /\ e.kind \in {"write", "update", "delete"}
  /\ e.table \in Seq(ToSet(e.table)) /\ Len(e.table) > 0
  /\ \A i \in DOMAIN e.table : IsColumn(e.table[i])
  /\ e.rows \in Seq(ToSet(e.rows))
  /\ \A r \in DOMAIN e.rows : IsImage(e.table, e.rows[r])
=============================================================================
