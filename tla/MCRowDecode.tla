---------------------------- MODULE MCRowDecode ----------------------------
(***************************************************************************)
(* Rows events for TLC.  A kind of column is the column with some cells of *)
(* it; the first of them can be decoded.                                   *)
(***************************************************************************)
EXTENDS RowDecode

K(col, values) == [column |-> col, values |-> values]

XYZ == <<<<120>>, <<121, 34>>, <<122>>>>
Ten == [k \in 1 .. 10 |-> <<108, 96 + k>>]

Quoted == <<<<105, 39, 115>>, <<110, 111>>>>   \* 'i''s','no'
Numbered(n) == [k \in 1 .. n |-> <<96 + k>>]

(* The columns of example/example.sql, in its order. *)
ExampleColumns ==
  <<K(Column("int", MY_TYPE.LONG, <<>>), <<Integer(0, 4), Integer(70000, 4), Integer(-1, 4)>>),
    K(Column("datetime", MY_TYPE.DATETIME, <<>>),
      <<Datetime(20140131, 235959), Datetime(99991231, 1), Datetime(0, 0)>>),
    K(Column("date", MY_TYPE.DATE, <<>>), <<Date(2014, 12, 31), Date(0, 0, 0)>>),
    K(Column("time", MY_TYPE.TIME, <<>>),
      <<Time(1, 99, 59, 58), Time(1, 0, 0, 0), Time(1, 100, 0, 7), Time(-1, 1, 2, 3)>>),
    K(Column("timestamp", MY_TYPE.TIMESTAMP, <<>>), <<Timestamp(1400000000), Timestamp(0)>>),
    K(Column("year", MY_TYPE.YEAR, <<>>), <<Year(1901), Year(2155), Year(0)>>),
    K(Column("double", MY_TYPE.DOUBLE, <<8>>),
      <<Double(0, 79), Double(1, 0), Double(0, -1022), Double(1, 79)>>),
    K(Column("mediumtext", MY_TYPE.BLOB, <<3>>), <<Counted(<<>>, 3), Counted(<<65, 0, 34>>, 3)>>),
    K(LabelColumn("enum", MY_TYPE.ENUM, XYZ, 1),
      <<EnumOf(XYZ, 1), EnumOf(XYZ, 3), EnumOf(XYZ, 0)>>),
    K(LabelColumn("set", MY_TYPE.SET, XYZ, 1),
      <<SetOf(XYZ, {2}), SetOf(XYZ, {1, 3}), SetOf(XYZ, {})>>),
    K(CharColumn(96), <<Counted(<<>>, 1), Counted(<<66, 67>>, 1)>>),
    K(Column("varchar", MY_TYPE.VARCHAR, <<192, 0>>), <<Counted(<<>>, 1), Counted(<<7, 68>>, 1)>>),
    K(Column("blob", MY_TYPE.BLOB, <<2>>), <<Counted(<<>>, 2), Counted(<<255>>, 2)>>),
    K(Column("bit", MY_TYPE.BIT, <<1, 0>>), <<Bit(0, 1), Bit(1, 1)>>)>>

(* Others, whose places in the row differ. *)
OtherColumns ==
  <<K(Column("varchar", MY_TYPE.VARCHAR, <<0, 1>>), <<Counted(<<>>, 2), Counted(<<69, 1>>, 2)>>),
    K(CharColumn(255), <<Counted(<<70>>, 1)>>),
    K(LabelColumn("set", MY_TYPE.SET, Ten, 2), <<SetOf(Ten, {1, 9, 10})>>),
    K(Column("tinyblob", MY_TYPE.BLOB, <<1>>), <<Counted(<<71>>, 1)>>),
    K(Column("longblob", MY_TYPE.BLOB, <<4>>), <<Counted(<<72>>, 4)>>),
    K(Column("geometry", MY_TYPE.GEOMETRY, <<4>>), <<Counted(<<73, 74>>, 4)>>),
    K(Column("tinyint", MY_TYPE.TINY, <<>>), <<Integer(127, 1)>>),
    K(Column("smallint", MY_TYPE.SHORT, <<>>), <<Integer(-2, 2)>>),
    K(Column("mediumint", MY_TYPE.INT24, <<>>), <<Integer(-3, 3)>>),
    K(Column("bigint", MY_TYPE.LONGLONG, <<>>), <<Integer(-4, 8)>>),
    K(Column("float", MY_TYPE.FLOAT, <<4>>), <<Opaque(<<0, 0, 128, 63>>)>>),
    K(Column("decimal", MY_TYPE.NEWDECIMAL, <<10, 2>>), <<Opaque(<<128, 0, 0, 1, 50>>)>>),
    K(Column("decimal", MY_TYPE.NEWDECIMAL, <<30, 13>>),
      <<Opaque([k \in 1 .. 14 |-> k])>>),
    K(Column("bit", MY_TYPE.BIT, <<0, 1>>), <<Bit(200, 1)>>)>>

(* Columns of which some values, or all, are not decoded: a BIT of two     *)
(* bytes, quotes in labels, an empty label, many labels, a long CHAR, from *)
(* which on the walk is off its way.                                       *)
OddColumns ==
  <<K(Column("bit", MY_TYPE.BIT, <<1, 1>>), <<Bit(258, 2), Bit(1, 2)>>),
    K(LabelColumn("enum", MY_TYPE.ENUM, Quoted, 1), <<EnumOf(Quoted, 2), EnumOf(Quoted, 1)>>),
    K(LabelColumn("enum", MY_TYPE.ENUM, <<<<120>>, <<>>>>, 1), <<EnumOf(XYZ, 1)>>),
    K(LabelColumn("set", MY_TYPE.SET, Numbered(32), 4),
      <<SetOf(Numbered(32), {1, 31}), SetOf(Numbered(32), {32})>>),
    K(LabelColumn("set", MY_TYPE.SET, Numbered(33), 8), <<SetOf(Numbered(33), {1})>>),
    K(CharColumn(300), <<Counted(<<75>>, 2)>>)>>

Pool == ExampleColumns \o OtherColumns
Few == {Pool[k] : k \in {1, 9, 12, 21}}
LastColumn == K(Column("int", MY_TYPE.LONG, <<>>), <<Integer(5, 4)>>)

Table(kinds) == [k \in DOMAIN kinds |-> kinds[k].column]
Some(kind) == kind.values[1]

(* Two columns of any kinds, null or not, and an int behind them; a second *)
(* image behind that.                                                      *)
Two(first, second) ==
  LET last == Some(LastColumn)
      d == Some(second)
  IN {RowsEvent("write", Table(<<first, second, LastColumn>>),
                <<<<c, d, last>>, <<Null, d, Null>>>>) : c \in ToSet(first.values) \cup {Null}}
Pairs == UNION {Two(Pool[a], Pool[b]) : a, b \in DOMAIN Pool}
Odd == UNION {Two(OddColumns[a], b) \cup Two(b, OddColumns[a]) : a \in DOMAIN OddColumns, b \in Few}

(* The whole example table, with images of every number and kind. *)
FullImage == [k \in DOMAIN ExampleColumns |-> Some(ExampleColumns[k])]
Sparse(S) == [k \in DOMAIN ExampleColumns |-> IF k \in S THEN FullImage[k] ELSE Null]
Images == {FullImage, Sparse({}), Sparse({9, 14}), Sparse({1, 8})}
Example ==
  {RowsEvent("write", Table(ExampleColumns), <<a, b, a>>) : a, b \in Images}
  \cup {RowsEvent("delete", Table(ExampleColumns), <<a>>) : a \in Images}
  \cup {RowsEvent("update", Table(ExampleColumns), <<a, b>>) : a, b \in Images}

(* n columns of one byte, of which some are null. *)
Wide(n, nulls) ==
  RowsEvent("write", [k \in 1 .. n |-> Column("tinyint", MY_TYPE.TINY, <<>>)],
            <<[k \in 1 .. n |-> IF k \in nulls THEN Null ELSE Integer(k, 1)]>>)

(* A byte of the CHAR is left, and the bitmap of an image is two.          *)
LongChar ==
  RowsEvent("write", <<CharColumn(256)>> \o Wide(8, {}).table,
            <<[k \in 1 .. 9 |-> IF k = 1 THEN Counted(<<>>, 2) ELSE Null]>>)

(* More images than the two low bits of j tell apart. *)
Many ==
  LET table == <<OtherColumns[7].column, ExampleColumns[12].column>>
      row(v) == <<Integer(v, 1), Counted([k \in 1 .. v |-> 64 + v], 1)>>
  IN {RowsEvent(kind, table, [r \in 1 .. n |-> row(r)]) :
        kind \in {"write", "delete", "update"}, n \in {4, 6}}

(* Names and values for conv_2_json: a letter, the bytes with a meaning in *)
(* JSON, one that is escaped by a letter, one that is escaped by its       *)
(* number, one above 127.                                                  *)
Strings2 == UNION {[1 .. n -> {65, 34, 92, 10, 31, 255}] : n \in 0 .. 2}
Strings1 == {s \in Strings2 : Len(s) < 2}
Varchar(name) == [ExampleColumns[12].column EXCEPT !.name = name]
Texty ==
  {RowsEvent("write", <<Varchar(n), Varchar(<<98>>)>>, <<<<Counted(c, 1), d>>>>) :
     n \in {<<97>>, <<34>>, <<92>>, <<>>}, c \in Strings2,
     d \in {Counted(s, 1) : s \in Strings1} \cup {Null}}

Ordinary == Pairs \cup Example \cup Many \cup Texty
              \cup {Wide(48, {}), Wide(48, {1, 48}), Wide(8, {8}), Wide(9, {9}), Wide(49, {})}
              \cup Odd \cup {LongChar}
=============================================================================
