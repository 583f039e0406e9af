------------------------------ MODULE RowDecode ------------------------------
(***************************************************************************)
(* rows_event_handler (ms_binlog.c): the walk over the images of a rows    *)
(* event, field by field, after the header was taken off by                *)
(* write_rows_event_parse or update_rows_event_parse; each image it stores *)
(* goes through conv_2_json (JsonRow) into the queue.                      *)
(*                                                                         *)
(* Nothing in an image says where a field begins: a wrong size, or a wrong *)
(* place in the metadata, turns everything behind it into other values.    *)
(***************************************************************************)
EXTENDS FieldCodec

CONSTANTS
  Events,     \* rows events, made by RowsEvent
  MaxStored   \* bound of the model: the rows of an event that are stored

ASSUME EventsAssumption == \A e \in Events : IsRowsEvent(e)

VARIABLES
  event,
  labels,    \* ci->meta of each column: the labels of an enum or set
  pc,        \* "parse", "row", "column", "done", "asserted", "died",
             \* "beyond" the event
  j,         \* the image, of which only the two low bits are looked at
  i,         \* the column
  data, len, \* how far into the event, and bytes left
  pmeta,     \* how far into the metadata
  used,      \* the columns that are not null in this image
  cells,     \* ti->cols: the text of each column
  began,     \* ghost: where this image began
  jrow, jpc, ji, jsize, jout,   \* conv_2_json, see JsonRow
  queue      \* the texts flush_row_info put

J == INSTANCE JsonRow WITH row <- jrow, pc <- jpc, i <- ji, size <- jsize, out <- jout

given == <<event, labels>>
walk == <<given, pc, j, i, data, len, pmeta, used, cells, began>>
json == <<jrow, jpc, ji, jsize, jout>>
vars == <<walk, json, queue>>

NCols == Len(event.table)
NoCells == [c \in DOMAIN event.table |-> Null.text]

(* sync_one_table_info has the labels before an event of the table is      *)
(* decoded; the assertion of ms_strndup ends the process at an empty one.  *)
EmptyLabel == \E c \in DOMAIN labels : <<>> \in ToSet(labels[c])

Init ==
  /\ event \in Events
  /\ labels = [c \in DOMAIN event.table |-> enum_labels(ShownType(event.table[c].labels))]
  /\ pc = IF EmptyLabel THEN "asserted" ELSE "parse"
  /\ j = 1 /\ i = 1 /\ data = 0 /\ len = 0 /\ pmeta = 0
  /\ used = {} /\ cells = NoCells /\ began = 0
  /\ J!Init /\ queue = <<>>

Here == Skip(event.bytes, data)

(* write_rows_event_parse, which is also that of a delete, and             *)
(* update_rows_event_parse with its two bitmaps.                           *)
Parse ==
  /\ pc = "parse" /\ pc' = "row"
  /\ LET first == build_cols_mask(Here, NCols).skip
         second == build_cols_mask(Skip(Here, first), NCols).skip
     IN data' = IF event.kind = "update" THEN first + second ELSE first
  /\ len' = Len(event.bytes) - data'
  /\ UNCHANGED <<json, queue, given, j, i, pmeta, used, cells, began>>

(* Faulty: the metadata is not read from its begin again.                  *)
NextImageKeepsMeta ==
  /\ pc = "row" /\ jpc = "idle" /\ len > 0
  /\ LET mask == build_cols_mask(Here, NCols) IN
       /\ used' = (1 .. NCols) \ mask.bits
       /\ data' = data + mask.skip /\ len' = len - mask.skip
  /\ began' = data
  /\ i' = 1 /\ cells' = NoCells
  /\ pc' = "column"
  /\ UNCHANGED <<json, queue, given, j, pmeta>>

(* An image begins with the bitmap of its columns that are null.           *)
NextImage ==
  /\ pc = "row" /\ jpc = "idle" /\ len > 0
  /\ LET mask == build_cols_mask(Here, NCols) IN
       /\ mask.skip <= len
       /\ used' = (1 .. NCols) \ mask.bits
       /\ data' = data + mask.skip /\ len' = len - mask.skip
  /\ began' = data
  /\ pmeta' = 0 /\ i' = 1 /\ cells' = NoCells
  /\ pc' = "column"
  /\ UNCHANGED <<json, queue, given, j>>

(* The bitmap is more than is left: len wraps and the loop goes on far     *)
(* beyond the event, where this model does not follow it.                  *)
MaskBeyond ==
  /\ pc = "row" /\ jpc = "idle" /\ len > 0
  /\ build_cols_mask(Here, NCols).skip > len
  /\ pc' = "beyond"
  /\ UNCHANGED <<json, queue, given, j, i, data, len, pmeta, used, cells, began>>

EventEnds ==
  /\ pc = "row" /\ jpc = "idle" /\ len = 0
  /\ pc' = "done"
  /\ UNCHANGED <<json, queue, given, j, i, data, len, pmeta, used, cells, began>>

(* j & flag: flag is 2 for an update and 3 otherwise.                      *)
Selected == IF event.kind = "update" THEN j \in {2, 3} ELSE j # 0

Type == event.table[i].type
Metasize == calc_metadata_size(Type)
Meta == Korr(Skip(event.metadata, pmeta), Metasize)

(* A field that is null has metadata, but takes no bytes.                  *)
PassNull ==
  /\ pc = "column" /\ i <= NCols /\ i \notin used
  /\ pmeta' = pmeta + Metasize
  /\ i' = i + 1
  /\ UNCHANGED <<json, queue, given, pc, j, data, len, used, cells, began>>

(* A field: its size, its text if the image is selected.  A size that is   *)
(* more than is left makes len wrap as well.                               *)
ReadField ==
  /\ pc = "column" /\ i <= NCols /\ i \in used
  /\ LET size == calc_field_size(Type, Here, Meta) IN
       /\ \E text \in IF Selected
                      THEN cols_tune(cols_pre_tune(Type, Here, size, Meta), labels[i])
                      ELSE {Null.text} :
            /\ cells' = IF size > len THEN cells ELSE [cells EXCEPT ![i] = text]
            /\ pc' = CASE text = Dies -> "died"
                       [] text = Asserts -> "asserted"
                       [] size > len -> "beyond"
                       [] OTHER -> "column"
       /\ IF size > len THEN UNCHANGED <<data, len>>
                        ELSE data' = data + size /\ len' = len - size
  /\ pmeta' = pmeta + Metasize /\ i' = i + 1
  /\ UNCHANGED <<json, queue, given, j, used, began>>

(* The bytes of a text.  Those of numbers and times are never escaped:     *)
(* one digit stands for them.                                              *)
Bytestring(text) ==
  CASE text[1] = "chars"  -> text[2]
    [] text[1] = "labels" -> FlattenSeq([k \in DOMAIN text[2] |->
                               IF k = 1 THEN text[2][1] ELSE <<J!Comma>> \o text[2][k]])
    [] OTHER              -> <<48>>

(* ti->cols as conv_2_json is given it. *)
ColumnsOf(texts) ==
  [c \in DOMAIN event.table |-> [name  |-> event.table[c].name,
                                 null  |-> texts[c] = Null.text,
                                 value |-> Bytestring(texts[c])]]

(* An image that is selected is made into JSON; the loop waits for it.     *)
ImageEnds ==
  /\ pc = "column" /\ i > NCols
  /\ j' = (j + 1) % 4
  /\ pc' = "row"
  /\ IF Selected THEN J!Call(ColumnsOf(cells)) ELSE UNCHANGED json
  /\ UNCHANGED <<queue, given, i, data, len, pmeta, used, cells, began>>

Convert == J!Convert /\ UNCHANGED <<walk, queue>>

FlushRow ==
  /\ Len(queue) < MaxStored
  /\ J!Free /\ queue' = Append(queue, J!Stored) /\ UNCHANGED walk

Next == Parse \/ NextImage \/ MaskBeyond \/ EventEnds \/ PassNull \/ ReadField
          \/ ImageEnds \/ Convert \/ FlushRow

Spec == Init /\ [][Next]_vars

-----------------------------------------------------------------------------
(* The tables the walk is right for.  Above 48 columns build_cols_mask     *)
(* takes no bytes off and finds all columns null: images without columns   *)
(* are stored for ever.  Of the length of a CHAR of more than 255 bytes,   *)
(* which has two bytes, calc_field_size reads one.                         *)
Narrow == NCols <= 48
ShortChars ==
  \A c \in DOMAIN event.table :
    event.table[c].type = MY_TYPE.STRING =>
      event.table[c].meta[1] \in {MY_TYPE.STRING, MY_TYPE.ENUM, MY_TYPE.SET}
Followed == Narrow /\ ShortChars

(* The fields that end the process: an enum that is none of its labels (0, *)
(* MySQL's '' of an error), a set that is not of its labels, and one that  *)
(* has no label, has the 32nd or is of more than tune_as_set can hold.     *)
IsField(r, c, type) ==
  event.table[c].type = MY_TYPE.STRING /\ event.table[c].meta[1] = type /\ event.rows[r][c] # Null
NoEnum ==
  \E r \in DOMAIN event.rows : \E c \in DOMAIN event.table :
    LET all == event.table[c].labels
    IN /\ IsField(r, c, MY_TYPE.ENUM)
       /\ \A k \in DOMAIN all : event.rows[r][c].bytes # EnumOf(all, k).bytes
InSet(column, cell) == {k \in DOMAIN column.labels : IsSet(cell.bytes, k)}
NoSet ==
  \E r \in DOMAIN event.rows : \E c \in DOMAIN event.table :
    LET column == event.table[c]
        cell == event.rows[r][c]
    IN /\ IsField(r, c, MY_TYPE.SET)
       /\ cell.bytes # SetOf(column.labels, InSet(column, cell)).bytes
OddSet ==
  \E r \in DOMAIN event.rows : \E c \in DOMAIN event.table :
    LET column == event.table[c]
        S == InSet(column, event.rows[r][c])
    IN /\ IsField(r, c, MY_TYPE.SET)
       /\ Len(column.labels) > 32 \/ 32 \in S \/ S = {}

(* The years of a DATE, and a DATETIME as YYYYMMDD and hhmmss.             *)
Years == 0 .. 9999
DayNumbers == 0 .. 99991231
TimeNumbers == 0 .. 235959

(* The values for which mysync has the text they have: the integers that   *)
(* are not negative, a BIT of one byte, times of less than 100 hours,      *)
(* doubles "%f" prints in 32 bytes, enums and sets of up to 32 labels, not *)
(* empty and without quotes in the labels.                                 *)
HasText(column, cell) ==
  LET type == column.type
      meta == column.meta
      text == cell.text
      IsString(n) == text[2] \in Seq(Byte) /\ cell = Counted(text[2], n)
      WithoutQuote == \A k \in DOMAIN column.labels : Quote \notin ToSet(column.labels[k])
  IN \/ /\ type \in {MY_TYPE.TINY, MY_TYPE.SHORT, MY_TYPE.LONG}
        /\ text = <<"number", Stripped(cell.bytes)>>
     \/ /\ type = MY_TYPE.BIT /\ Len(cell.bytes) = 1
        /\ text = <<"number", Stripped(cell.bytes)>>
     \/ type = MY_TYPE.TIMESTAMP /\ text = <<"seconds", Stripped(cell.bytes)>>
     \/ type = MY_TYPE.YEAR /\ text[2] \in 1901 .. 2155 /\ cell = Year(text[2])
     \/ /\ type = MY_TYPE.DATE
        /\ text[2] \in Years /\ text[3] \in 0 .. 12 /\ text[4] \in 0 .. 31
        /\ cell = Date(text[2], text[3], text[4])
     \/ /\ type = MY_TYPE.TIME
        /\ text[3] \in 0 .. 99 /\ text[4] \in 0 .. 59 /\ text[5] \in 0 .. 59
        /\ cell = Time(1, text[3], text[4], text[5])
     \/ /\ type = MY_TYPE.DATETIME
        /\ text[2] \in DayNumbers /\ text[3] \in TimeNumbers
        /\ cell = Datetime(text[2], text[3])
     \/ /\ type = MY_TYPE.DOUBLE
        /\ \/ text[2] = 0 /\ text[3] \in -1022 .. 79
           \/ text[2] = 1 /\ text[3] \in -1022 .. 76
        /\ cell = Double(text[2], text[3])
     \/ type = MY_TYPE.VARCHAR /\ IsString(IF meta[2] = 0 THEN 1 ELSE 2)
     \/ type = MY_TYPE.BLOB /\ IsString(meta[1])
     \/ type = MY_TYPE.STRING /\ meta[1] = MY_TYPE.STRING /\ IsString(1)
     \/ /\ type = MY_TYPE.STRING /\ meta[1] = MY_TYPE.ENUM /\ WithoutQuote
        /\ \E k \in DOMAIN column.labels : cell = EnumOf(column.labels, k)
     \/ /\ type = MY_TYPE.STRING /\ meta[1] = MY_TYPE.SET /\ WithoutQuote
        /\ Len(column.labels) <= 32
        /\ LET S == InSet(column, cell)
           IN S # {} /\ 32 \notin S /\ cell = SetOf(column.labels, S)

(* The state has its type. *)
TypeOK ==
  /\ pc \in {"parse", "row", "column", "done", "asserted", "died", "beyond"}
  /\ j \in 0 .. 3 /\ i \in 1 .. NCols + 1
  /\ {data, len, began} \subseteq 0 .. Len(event.bytes)
  /\ pmeta \in 0 .. Len(event.metadata)
  /\ used \subseteq 1 .. NCols
  /\ DOMAIN cells = 1 .. NCols /\ DOMAIN labels = 1 .. NCols
  /\ J!TypeOK

(* Each field is read where the master wrote it, with the metadata of its  *)
(* column, for every size, null or not, of the fields before it: there is  *)
(* an image of which the walk has done exactly the columns before i.       *)
Aligned ==
  Followed /\ pc = "column" =>
    \E r \in DOMAIN event.rows :
      /\ began = event.start[r] /\ data = began + event.at[r][i]
      /\ len = Len(event.bytes) - data
      /\ pmeta = event.passed[i]


(* What ends the process or takes the walk beyond the event.  An assertion *)
(* (core/ms_string.c:51, core/ms_array.c:80) fails only for an empty label *)
(* in the type of a column or for a field that is none of its labels, the  *)
(* memory is overrun only for a set that is empty or has a label from the  *)
(* 32nd on, and the walk leaves the event only for a table that is too     *)
(* wide or has a long CHAR.                                                *)
FailsOnlyForCause ==
  Followed =>
    /\ pc = "asserted" => EmptyLabel \/ NoEnum \/ NoSet
    /\ pc = "died" => NoSet \/ OddSet
    /\ pc # "beyond"

(* "calc the total len" (ms_qs.c:245): the memory conv_2_json asks for is  *)
(* enough for what it writes (see JsonRow).                                *)
RowFits == J!RowFits

(* The images to store: all of an insert or delete, those from after the   *)
(* change of an update.                                                    *)
ToStore == SelectSeq([r \in DOMAIN event.rows |-> r],
                     LAMBDA r : event.kind = "update" => r % 2 = 0)
Texts(row) == [c \in DOMAIN row |-> row[c].text]

(* "save them with json" (README.md:7), from the bytes of the master to    *)
(* the queue, for images of the values mysync gets right: one text for     *)
(* each image to store, in their order; a consumer that adds the brace the *)
(* text lacks reads from it the names and values of the columns that are   *)
(* not null, and nothing else.  Not for events of more than one change for *)
(* an update and three images otherwise, see EveryRowStored in Replication.*)
QueueReadsBack ==
  Followed /\ pc = "done" /\ Len(event.rows) < (IF event.kind = "update" THEN 3 ELSE 4) =>
    /\ Len(queue) = Len(ToStore)
    /\ \A q \in DOMAIN queue :
         LET image == event.rows[ToStore[q]]
             columns == ColumnsOf(Texts(image))
         IN /\ \A c \in DOMAIN image : image[c] = Null \/ HasText(event.table[c], image[c])
            /\ J!Readable(columns)
            => J!Tokens(queue[q] \o <<J!Close>>) = J!Expected(columns)
=============================================================================
