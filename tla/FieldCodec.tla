----------------------------- MODULE FieldCodec -----------------------------
(***************************************************************************)
(* How mysync takes fields out of a row (ms_type.c, and build_cols_mask,   *)
(* cols_pre_tune, cols_tune in ms_binlog.c).  Functions without state.     *)
(*                                                                         *)
(* A pointer into an event is the sequence of bytes that begins there.     *)
(* Bytes beyond the event are whatever lies there: they are taken as 0,    *)
(* because no definition below is applied to what comes after them.        *)
(* Integers are given by their bytes, which do not overflow.  The buffers  *)
(* of texts are modelled where a text may not fit (time, double), and not  *)
(* for a BIT of 41 to 48 bits.                                             *)
(***************************************************************************)
EXTENDS RowFormat

At(p, k) == IF k <= Len(p) THEN p[k] ELSE 0

(* uint2korr, uint3korr, uint4korr. *)
Korr(p, n) ==
  LET byte(k) == IF k <= n THEN At(p, k) ELSE 0
  IN byte(1) + 256 * byte(2) + 65536 * byte(3) + 16777216 * byte(4)

(* 2^32 - 1: longer than any event. *)
NoSize == 2147483647

(* Faulty: a GEOMETRY has no metadata. *)
metadata_size_no_geometry(type) ==
  CASE type \in {MY_TYPE.FLOAT, MY_TYPE.DOUBLE, MY_TYPE.BLOB} -> 1
    [] type \in {MY_TYPE.VARCHAR, MY_TYPE.BIT, MY_TYPE.NEWDECIMAL,
                 MY_TYPE.VAR_STRING, MY_TYPE.STRING} -> 2
    [] OTHER -> 0

calc_metadata_size(type) ==
  CASE type \in {MY_TYPE.FLOAT, MY_TYPE.DOUBLE, MY_TYPE.BLOB, MY_TYPE.GEOMETRY} -> 1
    [] type \in {MY_TYPE.VARCHAR, MY_TYPE.BIT, MY_TYPE.NEWDECIMAL,
                 MY_TYPE.VAR_STRING, MY_TYPE.STRING} -> 2
    [] OTHER -> 0

(* The metadata of two bytes holds two numbers. *)
Low(mt)  == mt % 256
High(mt) == mt \div 256

(* Bytes of a part of a decimal: four for nine digits.                     *)
DigitBytes(n) == 4 * (n \div 9) + (((n % 9) + 1) \div 2)

(* The bytes a field takes in the row. *)
calc_field_size(type, p, mt) ==
  CASE type \in {MY_TYPE.VAR_STRING, MY_TYPE.DECIMAL, MY_TYPE.FLOAT, MY_TYPE.DOUBLE} -> mt
    [] type = MY_TYPE.NEWDECIMAL -> DigitBytes(Low(mt) - High(mt)) + DigitBytes(High(mt))
    [] type \in {MY_TYPE.SET, MY_TYPE.ENUM, MY_TYPE.STRING} ->
         IF Low(mt) \in {MY_TYPE.SET, MY_TYPE.ENUM} THEN High(mt)
         ELSE IF High(mt) < 256 THEN At(p, 1) + 1 ELSE Korr(p, 2)
    [] type \in {MY_TYPE.YEAR, MY_TYPE.TINY} -> 1
    [] type = MY_TYPE.SHORT -> 2
    [] type \in {MY_TYPE.INT24, MY_TYPE.NEWDATE, MY_TYPE.DATE, MY_TYPE.TIME} -> 3
    [] type \in {MY_TYPE.LONG, MY_TYPE.TIMESTAMP} -> 4
    [] type \in {MY_TYPE.LONGLONG, MY_TYPE.DATETIME} -> 8
    [] type = MY_TYPE.NULL -> 0
    [] type = MY_TYPE.BIT -> High(mt) + (IF Low(mt) > 0 THEN 1 ELSE 0)
    [] type = MY_TYPE.VARCHAR -> IF mt > 255 THEN 2 + Korr(p, 2) ELSE 1 + Korr(p, 1)
    [] type \in {MY_TYPE.TINY_BLOB, MY_TYPE.MEDIUM_BLOB, MY_TYPE.LONG_BLOB,
                 MY_TYPE.BLOB, MY_TYPE.GEOMETRY} ->
         IF mt \in 1 .. 4 THEN mt + Korr(p, mt) ELSE 0
    [] OTHER -> NoSize

(* The bit of number i, counted from 1, of the bytes at p. *)
Mask == <<1, 2, 4, 8, 16, 32, 64, 128>>
IsSet(p, i) == (At(p, (i + 7) \div 8) \div Mask[((i - 1) % 8) + 1]) % 2 = 1

-----------------------------------------------------------------------------
(* build_cols_mask: the columns whose bit is set, and the bytes it moves   *)
(* on.  Above 48 columns (or when the number of bytes is 0 as a uint8_t)   *)
(* every bit is set and it does not move.                                  *)
build_cols_mask(p, n) ==
  LET l == ((n + 7) \div 8) % 256
  IN IF l \in 1 .. 6
     THEN [bits |-> {i \in 1 .. n : IsSet(p, i)},
           skip |-> l]
     ELSE [bits |-> 1 .. n, skip |-> 0]

Field(type, p, len) == [type |-> type, at |-> p, len |-> len, null |-> FALSE]
NullField == [type |-> MY_TYPE.NULL, at |-> <<>>, len |-> 0, null |-> TRUE]
Skip(p, n) == SubSeq(p, n + 1, Len(p))
Chars(d) == [k \in 1 .. d.len |-> At(d.at, k)]

(* The value of a field without its length; what the type of a STRING      *)
(* really is stands in its metadata.                                       *)
cols_pre_tune(type, p, flen, mt) ==
  CASE type = MY_TYPE.STRING /\ Low(mt) = MY_TYPE.STRING ->
         Field(Low(mt), Skip(p, 1), flen - 1)    \* High(mt) is never above 255
    [] type = MY_TYPE.STRING /\ Low(mt) \in {MY_TYPE.ENUM, MY_TYPE.SET} ->
         Field(Low(mt), p, High(mt))
    [] type = MY_TYPE.STRING /\ Low(mt) \notin {MY_TYPE.STRING, MY_TYPE.ENUM, MY_TYPE.SET} ->
         NullField
    [] type = MY_TYPE.VARCHAR ->
         IF mt < 256 THEN Field(type, Skip(p, 1), Korr(p, 1))
                     ELSE Field(type, Skip(p, 2), Korr(p, 2))
    [] type = MY_TYPE.BLOB ->
         IF mt \in 1 .. 4 THEN Field(type, Skip(p, mt), Korr(p, mt)) ELSE NullField
    [] OTHER -> Field(type, p, flen)

-----------------------------------------------------------------------------
(* The texts.  Each is the set of what may become of a field: a text, or   *)
(* how the process ends or does not go on.                                 *)

Asserts == <<"assertion fails">>   \* of ms_array_get, ms_strndup or ms_str_null
Dies    == <<"memory overrun, or a loop without end">>

(* The bits of a number of one to four bytes; any, of which a few are      *)
(* taken, for another length: n is then not initialised.                   *)
Bits(d) ==
  IF d.len \in 1 .. 4
  THEN {{i \in 1 .. 8 * d.len : IsSet(d.at, i)}}
  ELSE {{}, {1}, {2}}

(* Faulty: labels are counted from 0. *)
tune_as_enum_next(d, labels) ==
  LET n == Korr(d.at, d.len) + 1
  IN {IF n \in DOMAIN labels THEN <<"labels", <<labels[n]>>>> ELSE Asserts}

(* ms_array_get asserts that the label exists, for 0 as well, ms_strndup   *)
(* that it is not empty.                                                   *)
tune_as_enum(d, labels) ==
  LET n == Korr(d.at, d.len)
      known == n \in DOMAIN labels /\ labels[n] # <<>>
  IN {IF known THEN <<"labels", <<labels[n]>>>> ELSE Asserts}

(* An empty set makes a length of -1, a bit above the labels runs into the *)
(* assertion of ms_array_get, and with bit 32 the loops never end.  One    *)
(* empty label makes data of the length 0, at which ms_str_null asserts.   *)
tune_as_set(d, labels) ==
  {IF S = {} \/ 32 \in S THEN Dies
   ELSE IF ~S \subseteq DOMAIN labels \/ Labels(labels, S) = <<<<>>>> THEN Asserts
   ELSE <<"labels", Labels(labels, S)>> :
     S \in Bits(d)}

tune_as_year(d) == <<"year", At(d.at, 1) + 1900>>

(* The number divided by 10^6, byte by byte from the highest.              *)
tune_as_datetime(d) ==
  LET divided[k \in 0 .. 8] ==
        IF k = 0 THEN <<0, 0>>
        ELSE LET before == divided[k - 1]
                 n == before[2] * 256 + At(d.at, 9 - k)
             IN <<before[1] * 256 + (n \div Million), n % Million>>
      qr == divided[8]
  IN <<"datetime", qr[1], qr[2]>>

(* The number is read as unsigned.  The buffer has room for hours of two   *)
(* digits: of three, the last digit of the seconds is lost.                *)
tune_as_time(d) ==
  LET t == Korr(d.at, 3)
      H == t \div 10000
      S == t % 100
      fits == H < 100
  IN <<IF fits THEN "time" ELSE "time cut",
       1, H, (t % 10000) \div 100, IF fits THEN S ELSE S \div 10>>

tune_as_date(d) ==
  LET t == Korr(d.at, 3) IN <<"date", t \div 512, (t \div 32) % 16, t % 32>>

tune_as_timestamp(d) == <<"seconds", Stripped([k \in 1 .. 4 |-> At(d.at, k)])>>

(* tune_as_int and tune_as_uint: unsigned and the lowest byte first, eight *)
(* bytes for six, 0 for other lengths.                                     *)
tune_as_int(d) ==
  CASE d.len \in 1 .. 4 -> <<"number", Stripped(Chars(d))>>
    [] d.len = 6 -> <<"number", Stripped([k \in 1 .. 8 |-> At(d.at, k)])>>
    [] OTHER -> <<"number", <<>>>>

(* "%f" of a power of two in a buffer of 32 bytes; the length is that of   *)
(* the whole text all the same, so what follows the buffer is part of it.  *)
tune_as_double(d) ==
  LET sign == At(d.at, 8) \div 128
      e == (At(d.at, 8) % 128) * 16 + At(d.at, 7) \div 16 - 1023
      digits == IF e < 0 THEN 1 ELSE (e * 30103) \div 100000 + 1
      fits == sign + digits + 7 < 32
  IN <<IF fits THEN "double" ELSE "double cut", sign, e>>

cols_tune(d, labels) ==
  IF d.null THEN {Null.text}
  ELSE CASE d.type = MY_TYPE.ENUM      -> tune_as_enum(d, labels)
         [] d.type = MY_TYPE.SET       -> tune_as_set(d, labels)
         [] d.type = MY_TYPE.YEAR      -> {tune_as_year(d)}
         [] d.type = MY_TYPE.DATETIME  -> {tune_as_datetime(d)}
         [] d.type = MY_TYPE.TIMESTAMP -> {tune_as_timestamp(d)}
         [] d.type = MY_TYPE.TIME      -> {tune_as_time(d)}
         [] d.type = MY_TYPE.DATE      -> {tune_as_date(d)}
         [] d.type \in {MY_TYPE.BIT, MY_TYPE.DECIMAL, MY_TYPE.TINY, MY_TYPE.SHORT,
                        MY_TYPE.LONG, MY_TYPE.LONGLONG} -> {tune_as_int(d)}
         [] d.type = MY_TYPE.DOUBLE    -> {tune_as_double(d)}
         [] OTHER                      -> {<<"chars", Chars(d)>>}

(* strstr: the first quote from place k on, or the end of the string.      *)
QuoteFrom(s, k) ==
  CHOOSE q \in k .. Len(s) + 1 :
    (q > Len(s) \/ s[q] = Quote) /\ \A l \in k .. q - 1 : s[l] # Quote


(* The labels sync_one_table_info finds in the type of a column: what      *)
(* stands between a first and a second quote.                              *)
enum_labels(shown) ==
  LET n == Len(shown)
      from[k \in 1 .. n + 1] ==
        LET pos1 == QuoteFrom(shown, k)
            pos2 == QuoteFrom(shown, pos1 + 1)
        IN IF pos1 > n \/ pos2 > n THEN <<>>
           ELSE <<SubSeq(shown, pos1 + 1, pos2 - 1)>> \o from[pos2 + 1]
  IN from[1]
=============================================================================
