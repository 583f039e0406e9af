------------------------------ MODULE TableMap ------------------------------
(***************************************************************************)
(* How mysync knows which table, and which columns, a rows event is about  *)
(* (table_map_event_handler and rows_event_handler in ms_binlog.c,         *)
(* sync_one_table_info in ms_net.c, ms_table_info_map_get in ms_info.c).   *)
(*                                                                         *)
(* A rows event carries a table id only.  The TABLE_MAP event before it    *)
(* ties the id to a name; for a watched table mysync puts its table info   *)
(* into entry id % ti_map_prime of ti_map.  Column names are not in the    *)
(* binlog: they are asked of the master when the number of columns is not  *)
(* the known one.                                                          *)
(***************************************************************************)
EXTENDS Integers, Sequences, FiniteSets

CONSTANTS
  Table,            \* the master's tables
  Watched,          \* those in the configuration
  Version,          \* versions 1, 2, .. of a table's definition
  NCols, MetaLen,   \* their number of columns and length of metadata
  ti_map_prime,
  IdSpace,          \* table ids reach ms_table_info_map_get modulo this
  MaxId,            \* bound: table ids the master gives out
  MaxStream,        \* bound: events mysync is behind
  None              \* no table: an empty entry of ti_map

ASSUME WatchedAssumption == Watched \subseteq Table /\ None \notin Table
ASSUME VersionAssumption ==
  /\ Version \subseteq Nat \ {0} /\ 1 \in Version
  /\ NCols \in [Version -> Nat \ {0}] /\ MetaLen \in [Version -> Nat]
ASSUME SizesAssumption ==
  /\ ti_map_prime \in Nat \ {0} /\ IdSpace \in Nat \ {0}
  /\ MaxId \in Nat /\ MaxStream \in Nat

VARIABLES
  id,        \* master: the table id of each table, 0 before it is opened
  ver,       \* master: the version of each table
  lastId,    \* master: the last id given out
  stream,    \* events mysync has not handled
  cols,      \* ti->cols: the version the columns were read from, their
             \* number, and whether all was read
  stale,     \* what of ti->cols holds whatever lay there before: "none",
             \* "meta" (of columns that are no enum or set), "all" (data too)
  meta,      \* ti->meta: its length and whether it has data
  ti_map,
  status,    \* "runs", or the assertion that ended the process
  early      \* ghost: the tables whose columns were read from a definition
             \* that the table map in hand was too old for

vars == <<id, ver, lastId, stream, cols, stale, meta, ti_map, status, early>>
master == <<id, ver, lastId>>

TypeMap(t) == [type |-> "map", table |-> t, id |-> id[t], ver |-> ver[t]]
TypeRows(t) == [type |-> "rows", table |-> t, id |-> id[t], ver |-> ver[t]]

(* run_prepare: the columns of all watched tables are read before the dump *)
(* begins, into arrays that nobody clears and that may lie where the name  *)
(* hash was built; ti_map is empty.                                        *)
Init ==
  /\ id = [t \in Table |-> 0] /\ ver = [t \in Table |-> 1] /\ lastId = 0
  /\ stream = <<>>
  /\ cols = [t \in Watched |-> [ver |-> 1, n |-> NCols[1], whole |-> TRUE]]
  /\ stale \in [Watched -> {"none", "all"}]
  /\ meta = [t \in Watched |-> [len |-> 0, data |-> FALSE]]
  /\ ti_map = [s \in 0 .. ti_map_prime - 1 |-> None]
  /\ status = "runs"
  /\ early = {}

-----------------------------------------------------------------------------
(* The master (external).  What it does when mysync has ended is not       *)
(* followed.                                                               *)

(* A table is opened, or opened again after a flush: it gets a new id.     *)
OpenTable(t) ==
  /\ status = "runs" /\ lastId < MaxId
  /\ lastId' = lastId + 1 /\ id' = [id EXCEPT ![t] = lastId']
  /\ UNCHANGED <<ver, stream, cols, stale, meta, ti_map, status, early>>

(* An open table is altered, at whatever place of the binlog mysync is.    *)
AlterTable(t) ==
  /\ status = "runs" /\ id[t] # 0
  /\ \E v \in Version \ {ver[t]} : ver' = [ver EXCEPT ![t] = v]
  /\ id' = [id EXCEPT ![t] = 0]
  /\ UNCHANGED <<lastId, stream, cols, stale, meta, ti_map, status, early>>

(* A statement that changes rows of the tables of ts: all table maps come  *)
(* first, then the rows.                                                   *)
Statement(ts) ==
  /\ status = "runs"
  /\ \A k \in DOMAIN ts : id[ts[k]] # 0
  /\ Len(stream) + 2 * Len(ts) <= MaxStream
  /\ stream' = stream \o [k \in DOMAIN ts |-> TypeMap(ts[k])]
                      \o [k \in DOMAIN ts |-> TypeRows(ts[k])]
  /\ UNCHANGED <<master, cols, stale, meta, ti_map, status, early>>

-----------------------------------------------------------------------------
Handling(type) == status = "runs" /\ stream # <<>> /\ Head(stream).type = type

(* ms_str_deinit asserts that a string has data exactly when it has a      *)
(* length.                                                                 *)
StrSound(s) == s.data <=> s.len # 0

(* The number of columns in ti->cols. *)
KnownCols(t) == cols[t].n

(* Faulty: the columns are read again only when more are needed.           *)
ResyncForMore(t) ==
  /\ Handling("map") /\ Head(stream).table = t /\ t \in Watched
  /\ KnownCols(t) < NCols[Head(stream).ver]

(* The table map in hand is that of t, a watched table, with n columns     *)
(* where ti->cols has another number: the columns are read again.          *)
Resync(t) ==
  /\ Handling("map") /\ Head(stream).table = t /\ t \in Watched
  /\ KnownCols(t) # NCols[Head(stream).ver]

(* Faulty: a table that is not watched gets an entry.                      *)
MapUnwatched ==
  /\ Handling("map") /\ Head(stream).table \notin Watched
  /\ ti_map' = [ti_map EXCEPT ![Head(stream).id % ti_map_prime] = Head(stream).table]
  /\ stream' = Tail(stream)
  /\ UNCHANGED <<master, cols, stale, meta, status, early>>

(* A table map of a table that is not watched is not looked at.            *)
IgnoreTableMap ==
  /\ Handling("map") /\ Head(stream).table \notin Watched
  /\ stream' = Tail(stream)
  /\ UNCHANGED <<master, cols, stale, meta, ti_map, status, early>>

(* A definition other than the event's is read: mysync is behind an ALTER  *)
(* TABLE.                                                                  *)
Early(t) == ver[t] # Head(stream).ver

(* Faulty: the entry is set although the columns could not be read.        *)
SyncFailsMapped(t) ==
  /\ Resync(t)
  /\ cols' = [cols EXCEPT ![t] = [ver |-> ver[t], n |-> 0, whole |-> FALSE]]
  /\ ti_map' = [ti_map EXCEPT ![Head(stream).id % ti_map_prime] = t]
  /\ stream' = Tail(stream)
  /\ UNCHANGED <<master, stale, meta, status, early>>

(* sync_one_table_info cannot reach the master, or has no memory for a     *)
(* label of one of the columns: the handler returns with the columns that  *)
(* were read so far and ti_map as it was.                                  *)
SyncFails(t) ==
  /\ Resync(t)
  /\ \E n \in 0 .. NCols[ver[t]], st \in {"none", "all"} :
       /\ n = 0 => st = "none"
       /\ cols' = [cols EXCEPT ![t] = [ver |-> ver[t], n |-> n, whole |-> FALSE]]
       /\ stale' = [stale EXCEPT ![t] = st]
  /\ early' = IF Early(t) THEN early \cup {t} ELSE early
  /\ stream' = Tail(stream)
  /\ UNCHANGED <<master, meta, ti_map, status>>

(* No memory for the array of columns runs into the assertion of           *)
(* sync_one_table_info, none for a column is not looked at.                *)
SyncAborts(t) ==
  /\ Resync(t)
  /\ status' = "no memory for columns"
  /\ stream' = Tail(stream)
  /\ UNCHANGED <<master, cols, stale, meta, ti_map, early>>

(* Faulty: the entry is set only when the columns are read again.          *)
TableMapEventOnce(t) ==
  /\ Handling("map") /\ Head(stream).table = t /\ t \in Watched
  /\ meta' = [meta EXCEPT ![t] = [len |-> MetaLen[Head(stream).ver], data |-> TRUE]]
  /\ IF Resync(t)
     THEN /\ cols' = [cols EXCEPT ![t] =
                        [ver |-> ver[t], n |-> NCols[ver[t]], whole |-> TRUE]]
          /\ ti_map' = [ti_map EXCEPT ![Head(stream).id % ti_map_prime] = t]
     ELSE UNCHANGED <<cols, ti_map>>
  /\ stream' = Tail(stream)
  /\ UNCHANGED <<master, stale, status, early>>

(* The columns a table map finds or reads.  They are read as the master    *)
(* defines them now, into an array that may lie in memory used before and  *)
(* is not cleared.                                                         *)
ColumnsOf(t) ==
  IF Resync(t)
  THEN /\ cols' = [cols EXCEPT ![t] =
                     [ver |-> ver[t], n |-> NCols[ver[t]], whole |-> TRUE]]
       /\ \E st \in {"none", "all"} : stale' = [stale EXCEPT ![t] = st]
       /\ early' = IF Early(t) THEN early \cup {t} ELSE early \ {t}
  ELSE /\ UNCHANGED <<cols, stale>>
       /\ early' = IF cols[t].ver = Head(stream).ver THEN early \ {t} ELSE early

(* table_map_event_handler, when the columns need not be read or are.  The *)
(* metadata is reallocated when its length changes, which gives it data    *)
(* even for length 0.  Then a type is stored for each column of the event, *)
(* which asserts that there are as many, and the entry of ti_map is set.   *)
TableMapEvent(t) ==
  /\ Handling("map") /\ Head(stream).table = t /\ t \in Watched
  /\ ColumnsOf(t)
  /\ LET e == Head(stream)
         realloc == meta[t].len # MetaLen[e.ver]
     IN IF realloc /\ ~StrSound(meta[t])
        THEN status' = "assert in ms_str_deinit" /\ UNCHANGED <<meta, ti_map>>
        ELSE /\ meta' = IF realloc
                        THEN [meta EXCEPT ![t] = [len |-> MetaLen[e.ver], data |-> TRUE]]
                        ELSE meta
             /\ IF NCols[e.ver] > cols'[t].n
                THEN status' = "assert in ms_array_get" /\ UNCHANGED ti_map
                ELSE /\ ti_map' = [ti_map EXCEPT ![e.id % ti_map_prime] = t]
                     /\ UNCHANGED status
  /\ stream' = Tail(stream)
  /\ UNCHANGED master

(* No memory for the metadata: the handler returns with ti_map as it was.  *)
MetadataFails(t) ==
  /\ Handling("map") /\ Head(stream).table = t /\ t \in Watched
  /\ meta[t].len # MetaLen[Head(stream).ver] /\ StrSound(meta[t])
  /\ ColumnsOf(t)
  /\ meta' = [meta EXCEPT ![t] = [len |-> 0, data |-> FALSE]]
  /\ stream' = Tail(stream)
  /\ UNCHANGED <<master, ti_map, status>>

(* Before the columns are read again the old ones are freed, data and meta *)
(* included, which runs into whatever lay in memory that was not cleared.  *)
FreeColumnsAborts(t) ==
  /\ Resync(t) /\ stale[t] # "none" /\ KnownCols(t) # 0
  /\ status' = "stale memory used"
  /\ stream' = Tail(stream)
  /\ UNCHANGED <<master, cols, stale, meta, ti_map, early>>

(* ms_table_info_map_get takes the id as a uint32_t: the entry it looks    *)
(* at.                                                                     *)
ms_table_info_map_get(table_id) == (table_id % IdSpace) % ti_map_prime

(* rows_event_handler finds no table info and returns. *)
DropRows ==
  /\ Handling("rows")
  /\ ti_map[ms_table_info_map_get(Head(stream).id)] = None
  /\ stream' = Tail(stream)
  /\ UNCHANGED <<master, cols, stale, meta, ti_map, status, early>>

(* rows_event_handler decodes the rows with the table info it finds.  It   *)
(* asserts that every column of the event has an entry; for each it frees  *)
(* the data of the row before, which may be what lay in memory before, and *)
(* reads the metadata, which may be missing.                               *)
DecodeRows ==
  /\ Handling("rows")
  /\ LET e == Head(stream)
         t == ti_map[ms_table_info_map_get(e.id)]
     IN /\ t # None
        /\ IF NCols[e.ver] > KnownCols(t)
           THEN status' = "assert in ms_array_get" /\ UNCHANGED stale
           ELSE \/ /\ stale' = [stale EXCEPT ![t] = IF @ = "all" THEN "meta" ELSE @]
                   /\ UNCHANGED status
                \/ /\ stale[t] = "all"
                   /\ status' = "stale memory used" /\ UNCHANGED stale
                \/ /\ ~meta[t].data /\ MetaLen[e.ver] # 0
                   /\ status' = "no metadata" /\ UNCHANGED stale
  /\ stream' = Tail(stream)
  /\ UNCHANGED <<master, cols, meta, ti_map, early>>

Next ==
  \/ \E t \in Table : OpenTable(t) \/ AlterTable(t)
  \/ \E t \in Table : Statement(<<t>>)
  \/ \E t, u \in Table : t # u /\ Statement(<<t, u>>)
  \/ IgnoreTableMap
  \/ \E t \in Watched :
       \/ SyncFails(t) \/ SyncAborts(t) \/ FreeColumnsAborts(t)
       \/ TableMapEvent(t) \/ MetadataFails(t)
  \/ DropRows
  \/ DecodeRows

Spec == Init /\ [][Next]_vars

-----------------------------------------------------------------------------
BinlogEvent == [type : {"map", "rows"}, table : Table, id : 1 .. MaxId, ver : Version]

(* The state has its type. *)
TypeOK ==
  /\ id \in [Table -> 0 .. MaxId] /\ ver \in [Table -> Version]
  /\ lastId \in 0 .. MaxId
  /\ stream \in Seq(BinlogEvent) /\ Len(stream) <= MaxStream
  /\ cols \in [Watched -> [ver : Version, n : Nat, whole : BOOLEAN]]
  /\ stale \in [Watched -> {"none", "meta", "all"}]
  /\ meta \in [Watched -> [len : Nat, data : BOOLEAN]]
  /\ ti_map \in [0 .. ti_map_prime - 1 -> Watched \cup {None}]
  /\ status \in {"runs", "assert in ms_array_get", "assert in ms_str_deinit",
                 "stale memory used", "no memory for columns", "no metadata"}
  /\ early \subseteq Watched

(* The entry that the rows event in hand is looked up in. *)
Found == ti_map[ms_table_info_map_get(Head(stream).id)]

(* Its rows are about to be decoded. *)
Decodes == Handling("rows") /\ Found # None /\ NCols[Head(stream).ver] <= KnownCols(Found)

(* "find table_info from ti_map, based table_id" (ms_info.c:82): a rows    *)
(* event is decoded as rows of the table it is about.                      *)
DecodedAsItself == Decodes => Found = Head(stream).table

(* Another table id given out so far shares the entry that is looked at.   *)
Collides(table_id) ==
  \E i \in 1 .. lastId :
    i # table_id /\ i % ti_map_prime = ms_table_info_map_get(table_id)

(* What is left of it, whatever reads of columns fail and break off and    *)
(* however tables are altered: only a collision of ids has rows decoded as *)
(* rows of another table.  Without one, and unless the columns were read   *)
(* when mysync was behind an ALTER TABLE, exactly as many columns are      *)
(* known as the rows have, and they are those of another definition only   *)
(* if that has as many columns or its read broke off.                      *)
MisdecodedOnlyForCause ==
  LET e == Head(stream)
      known == cols[e.table]
  IN Decodes /\ ~Collides(e.id) =>
       /\ Found = e.table
       /\ \/ e.table \in early
          \/ /\ known.n = NCols[e.ver]
             /\ known.whole => NCols[known.ver] = NCols[e.ver]

(* Rows of a watched table are dropped only after a failed read of that    *)
(* table's columns, without memory for its metadata, and for ids beyond 32 *)
(* bits.                                                                   *)
WatchedDroppedOnlyAfterFailedSync ==
  LET e == Head(stream)
  IN Handling("rows") /\ e.table \in Watched /\ Found = None =>
       ~cols[e.table].whole \/ ~meta[e.table].data \/ e.id >= IdSpace

(* The assertion of ms_array_get (core/ms_array.c:80) fails for a column   *)
(* of a table map only when mysync is behind an ALTER TABLE, and for one   *)
(* of a rows event only where ids collide or the columns were read then: a *)
(* read of the columns that failed or broke off is no cause.               *)
IndexOutOfRangeOnlyForCause ==
  [][status # status' /\ status' = "assert in ms_array_get" =>
       LET e == Head(stream) IN
         IF e.type = "map" THEN Early(e.table)
         ELSE Collides(e.id) \/ e.table \in early]_vars
=============================================================================
