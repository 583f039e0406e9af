----------------------------- MODULE Replication -----------------------------
(***************************************************************************)
(* The data path of mysync: the master's binlog is read through a dump     *)
(* session, each event is dispatched (ms_event.c), the row images of rows  *)
(* events of a watched table are stored one by one together with the       *)
(* binlog position (rows_event_handler, flush_row_info), and after a lost  *)
(* connection, a reload or a crash the dump is asked for again from the    *)
(* stored position (sync_binlog_info).                                     *)
(*                                                                         *)
(* The ring in which rows are stored is HttpsqsQueue's subject, the loop   *)
(* with its signals and connection states RunLoop's, and the choice of the *)
(* table a rows event belongs to TableMap's.  Here one watched table is    *)
(* enough: what matters is which images reach the store, in which order,   *)
(* against which position.                                                 *)
(***************************************************************************)
EXTENDS Integers, Sequences

CONSTANTS
  Binlog,      \* all the master will ever write: a sequence of events
  LongBits,    \* width of unsigned long, the type of packet_error
  MaxFaults,   \* bound: lost connections, reloads and crashes
  NoPos        \* the database holds no binlog position

(* kind: what event_dispatch tells apart.  "map" is a TABLE_MAP_EVENT of   *)
(* the watched table, "commit" any event that ends a transaction and       *)
(* "other" any other event that only moves the position.                   *)
(* file, end: the binlog file the event is in and log_pos of its header.   *)
(* images: the row images in it (an update carries two for each row).      *)
Kind == {"map", "write", "update", "delete", "commit", "other", "rotate"}
RowsKind == {"write", "update", "delete"}
Event == [kind : Kind, file : Nat \ {0}, end : Nat \ {0}, images : Nat]

Position == [name : Nat, pos : Nat]
PosLess(p, q) == p.name < q.name \/ (p.name = q.name /\ p.pos < q.pos)
EndOf(i) == [name |-> Binlog[i].file, pos |-> Binlog[i].end]

ASSUME BinlogAssumption ==
  /\ Binlog \in Seq(Event)
  /\ \A i, k \in DOMAIN Binlog : i < k => PosLess(EndOf(i), EndOf(k))
  /\ \A i \in DOMAIN Binlog : Binlog[i].kind \in RowsKind => Binlog[i].images > 0
  /\ \A i \in DOMAIN Binlog : (Binlog[i].kind = "rotate" /\ i < Len(Binlog)) =>
       Binlog[i + 1].file = Binlog[i].file + 1
(* The master writes a TABLE_MAP event before the rows events of a         *)
(* statement, in the same transaction.                                     *)
ASSUME TableMapAssumption ==
  \A i \in DOMAIN Binlog : Binlog[i].kind \in RowsKind =>
    \E m \in 1 .. i - 1 : /\ Binlog[m].kind = "map"
                         /\ \A k \in m .. i : Binlog[k].kind \notin {"commit", "rotate"}
ASSUME LongBitsAssumption == LongBits \in {32, 64}
ASSUME MaxFaultsAssumption == MaxFaults \in Nat
ASSUME NoPosAssumption == NoPos \notin Position

VARIABLES
  written,   \* how many events the master has written
  phase,     \* mysync: "down", "loop", "rows" (inside rows_event_handler)
  at,        \* mi->binlog_name and mi->binlog_pos
  mapped,    \* the watched table's entry in mi->ti_map is set
  conn,      \* is_connected
  feed,      \* the dump session: what the master sends next
  ev, j,     \* the rows event being handled and the image it is at
  db,        \* the database: binlog position and stored images
  first,     \* ghost: the position of the very first start
  cut,       \* ghost: rows events after which mysync was restarted
  faults

vars == <<written, phase, at, mapped, conn, feed, ev, j, db, first, cut, faults>>

Init ==
  /\ written = 0
  /\ phase = "down"
  /\ at = NoPos
  /\ mapped = FALSE /\ conn = FALSE
  /\ feed = [pre |-> "none", next |-> 1, from |-> NoPos]
  /\ ev = 0 /\ j = 0
  /\ db = [at |-> NoPos, rows |-> <<>>]
  /\ first = NoPos /\ cut = {} /\ faults = 0

(* The image is one that rows_event_handler stores: j & flag, with flag 2  *)
(* for updates and 3 for inserts and deletes.                              *)
Selected(kind, n) ==
  IF kind = "update" THEN n % 4 \in {2, 3} ELSE n % 4 # 0

-----------------------------------------------------------------------------
(* The master (external).                                                  *)

(* A transaction goes to the binlog as a whole. *)
MasterWrites ==
  /\ \E w \in written + 1 .. Len(Binlog) :
       /\ Binlog[w].kind \in {"commit", "rotate"}
       /\ \A i \in written + 1 .. w - 1 : Binlog[i].kind \notin {"commit", "rotate"}
       /\ written' = w
  /\ UNCHANGED <<phase, at, mapped, conn, feed, ev, j, db, first, cut, faults>>

(* SHOW MASTER STATUS: the end of the binlog. *)
MasterStatus ==
  IF written = 0 THEN [name |-> 1, pos |-> 0]
  ELSE IF Binlog[written].kind = "rotate"
       THEN [name |-> Binlog[written].file + 1, pos |-> 0]
       ELSE EndOf(written)

(* A dump from p sends a ROTATE event that names p, the file's format      *)
(* description and then every event that ends after p.                     *)
DumpFrom(p) ==
  \E n \in 1 .. Len(Binlog) + 1 :
    /\ \A i \in DOMAIN Binlog : i >= n <=> PosLess(p, EndOf(i))
    /\ feed' = [pre |-> "rotate", next |-> n, from |-> p]

(* In the file called name, with event n to come, the session sends that   *)
(* event, or first the ROTATE and the format description of its file.      *)
FeedIn(name, n) ==
  IF n <= Len(Binlog) /\ Binlog[n].file # name
  THEN [pre |-> "rotate", next |-> n,
        from |-> [name |-> Binlog[n].file, pos |-> 0]]
  ELSE [pre |-> "none", next |-> n, from |-> [name |-> name, pos |-> 0]]
FeedAfter(i) == FeedIn(Binlog[i].file, i + 1)

-----------------------------------------------------------------------------
(* sync_binlog_info: the stored position if there is one, the master's     *)
(* otherwise, which is stored at once; then the dump request, which can    *)
(* fail.                                                                   *)
SyncBinlogInfo(ok) ==
  LET p == IF db.at = NoPos THEN MasterStatus ELSE db.at IN
    /\ at' = p
    /\ db' = [db EXCEPT !.at = p]
    /\ first' = IF db.at = NoPos THEN p ELSE first
    /\ conn' = ok
    /\ IF ok THEN DumpFrom(p) ELSE UNCHANGED feed

(* The rows event the stored position is at the end of.  A run that starts *)
(* from there sees neither the rest of it nor its table map.               *)
Cut == {i \in DOMAIN Binlog : Binlog[i].kind \in RowsKind /\ EndOf(i) = db.at}

(* main and run_prepare, from the command line.  A failure ends the        *)
(* process, whatever sync_binlog_info has stored by then.                  *)
Start(ok) ==
  /\ phase = "down"
  /\ SyncBinlogInfo(ok)
  /\ phase' = IF ok THEN "loop" ELSE "down"
  /\ mapped' = FALSE
  /\ UNCHANGED <<written, ev, j, cut, faults>>

(* run_loop sees ms_reload between two events: a new mysync_info_t, with   *)
(* an empty ti_map, and run_prepare again.                                 *)
Reload(ok) ==
  /\ phase = "loop" /\ faults < MaxFaults
  /\ SyncBinlogInfo(ok)
  /\ phase' = IF ok THEN "loop" ELSE "down"
  /\ mapped' = FALSE
  /\ cut' = cut \cup Cut
  /\ faults' = faults + 1
  /\ UNCHANGED <<written, ev, j>>

(* The process ends, between any two calls that reach the disk.            *)
Crash ==
  /\ phase # "down" /\ faults < MaxFaults
  /\ phase' = "down" /\ conn' = FALSE /\ mapped' = FALSE /\ at' = NoPos
  /\ ev' = 0 /\ j' = 0
  /\ cut' = cut \cup Cut
  /\ faults' = faults + 1
  /\ UNCHANGED <<written, feed, db, first>>

(* master_save_read compares a uint32_t with packet_error: an error or a   *)
(* timeout clears is_connected only where unsigned long has 32 bits.       *)
(* Where it has more, mysync reads on from a session that sends no more.   *)
SeesReadError == LongBits = 32
SessionDead == feed' = [feed EXCEPT !.pre = "dead"] /\ UNCHANGED conn
ReadReturnsError ==
  IF SeesReadError THEN conn' = FALSE /\ UNCHANGED feed ELSE SessionDead

(* Faulty: an end packet does not clear is_connected either.               *)
ReadFailsUnnoticed ==
  /\ phase = "loop" /\ conn /\ faults < MaxFaults
  /\ SessionDead
  /\ faults' = faults + 1
  /\ UNCHANGED <<written, phase, at, mapped, ev, j, db, first, cut>>

(* master_save_read gets an error, or an end packet, which it notices in   *)
(* any case; what the master had sent and mysync not read is lost.         *)
ReadFails ==
  /\ phase = "loop" /\ conn /\ faults < MaxFaults
  /\ \/ ReadReturnsError
     \/ conn' = FALSE /\ UNCHANGED feed
  /\ faults' = faults + 1
  /\ UNCHANGED <<written, phase, at, mapped, ev, j, db, first, cut>>

(* The read timeout of connect_to_master ends a session that is idle; a    *)
(* dead one gives an error with each read.                                 *)
ReadTimesOut ==
  /\ phase = "loop" /\ conn
  /\ feed.pre = "dead" \/ (feed.pre = "none" /\ feed.next > written)
  /\ ReadReturnsError
  /\ UNCHANGED <<written, phase, at, mapped, ev, j, db, first, cut, faults>>

(* Faulty: a reconnect forgets the table map.                              *)
ReconnectForgets(ok) ==
  /\ phase = "loop" /\ ~conn
  /\ SyncBinlogInfo(ok)
  /\ mapped' = FALSE
  /\ UNCHANGED <<written, phase, ev, j, cut, faults>>

(* event_handler without a connection: reconnect_to_master.  ti_map stays. *)
(* A connect that fails changes nothing.                                   *)
Reconnect(ok) ==
  /\ phase = "loop" /\ ~conn
  /\ SyncBinlogInfo(ok)
  /\ UNCHANGED <<written, phase, mapped, ev, j, cut, faults>>

-----------------------------------------------------------------------------
(* event_handler with a connection: one event is read and dispatched.      *)

(* The ROTATE a session begins a file with.  Its header has log_pos 0, its *)
(* body the place the session is at.                                       *)
FakeRotate ==
  /\ phase = "loop" /\ conn /\ feed.pre = "rotate"
  /\ at' = feed.from
  /\ feed' = [feed EXCEPT !.pre = "format"]
  /\ UNCHANGED <<written, phase, mapped, conn, ev, j, db, first, cut, faults>>

(* The format description that follows it has log_pos 0 as well.           *)
FormatDescription ==
  /\ phase = "loop" /\ conn /\ feed.pre = "format"
  /\ at' = [at EXCEPT !.pos = 0]
  /\ feed' = FeedIn(feed.from.name, feed.next)
  /\ UNCHANGED <<written, phase, mapped, conn, ev, j, db, first, cut, faults>>

(* event_dispatch of the event that is next in the binlog. *)
CanRead == phase = "loop" /\ conn /\ feed.pre = "none" /\ feed.next <= written

DispatchOther ==
  /\ CanRead /\ Binlog[feed.next].kind \in {"commit", "other"}
  /\ at' = [at EXCEPT !.pos = Binlog[feed.next].end]
  /\ feed' = FeedAfter(feed.next)
  /\ UNCHANGED <<written, phase, mapped, conn, ev, j, db, first, cut, faults>>

(* rotate_event: the name is replaced; nothing is stored until the next    *)
(* row is.                                                                 *)
DispatchRotate ==
  /\ CanRead /\ Binlog[feed.next].kind = "rotate"
  /\ at' = [name |-> at.name + 1, pos |-> 0]
  /\ feed' = FeedAfter(feed.next)
  /\ UNCHANGED <<written, phase, mapped, conn, ev, j, db, first, cut, faults>>

DispatchTableMap ==
  /\ CanRead /\ Binlog[feed.next].kind = "map"
  /\ at' = [at EXCEPT !.pos = Binlog[feed.next].end]
  /\ mapped' = TRUE
  /\ feed' = FeedAfter(feed.next)
  /\ UNCHANGED <<written, phase, conn, ev, j, db, first, cut, faults>>

(* Faulty: the position is not set from the header of a rows event.        *)
DispatchRowsOldPosition ==
  /\ CanRead /\ Binlog[feed.next].kind \in RowsKind
  /\ IF mapped THEN phase' = "rows" /\ ev' = feed.next /\ j' = 1
               ELSE UNCHANGED <<phase, ev, j>>
  /\ feed' = FeedAfter(feed.next)
  /\ UNCHANGED <<written, at, mapped, conn, db, first, cut, faults>>

(* rows_event_handler returns at once if ti_map has no entry.              *)
DispatchRows ==
  /\ CanRead /\ Binlog[feed.next].kind \in RowsKind
  /\ at' = [at EXCEPT !.pos = Binlog[feed.next].end]
  /\ IF mapped THEN phase' = "rows" /\ ev' = feed.next /\ j' = 1
               ELSE UNCHANGED <<phase, ev, j>>
  /\ feed' = FeedAfter(feed.next)
  /\ UNCHANGED <<written, mapped, conn, db, first, cut, faults>>

(* Faulty: the row is stored without the position; one turn too many.      *)
HandleImageNoFlush ==
  /\ phase = "rows"
  /\ IF Selected(Binlog[ev].kind, j)
     THEN db' = [db EXCEPT !.rows = Append(@, <<ev, j>>)]
     ELSE UNCHANGED db
  /\ IF j = Binlog[ev].images
     THEN phase' = "loop" /\ ev' = 0 /\ j' = 0
     ELSE j' = j + 1 /\ UNCHANGED <<phase, ev>>
  /\ UNCHANGED <<written, at, mapped, conn, feed, first, cut, faults>>
HandleImageTooMany ==
  /\ phase = "rows"
  /\ IF j > Binlog[ev].images
     THEN phase' = "loop" /\ ev' = 0 /\ j' = 0
     ELSE j' = j + 1 /\ UNCHANGED <<phase, ev>>
  /\ UNCHANGED <<written, at, mapped, conn, feed, db, first, cut, faults>>

(* One turn of its loop: a selected image is stored together with the      *)
(* position, which is the end of the event already after its first image.  *)
HandleImage ==
  /\ phase = "rows"
  /\ IF Selected(Binlog[ev].kind, j)
     THEN db' = [at |-> at, rows |-> Append(db.rows, <<ev, j>>)]
     ELSE UNCHANGED db
  /\ IF j = Binlog[ev].images
     THEN phase' = "loop" /\ ev' = 0 /\ j' = 0
     ELSE j' = j + 1 /\ UNCHANGED <<phase, ev>>
  /\ UNCHANGED <<written, at, mapped, conn, feed, first, cut, faults>>

ReadEvent ==
  \/ FakeRotate
  \/ FormatDescription
  \/ DispatchOther
  \/ DispatchRotate
  \/ DispatchTableMap
  \/ DispatchRows

Next ==
  \/ MasterWrites
  \/ \E ok \in BOOLEAN : Start(ok) \/ Reload(ok) \/ Reconnect(ok)
  \/ Crash
  \/ ReadFails
  \/ ReadTimesOut
  \/ ReadEvent
  \/ HandleImage

Spec == Init /\ [][Next]_vars

(* Between faults the process keeps turning its loop, and the master       *)
(* accepts a connection and a dump request in the end.                     *)
Fairness ==
  /\ WF_vars(ReadEvent)
  /\ WF_vars(HandleImage)
  /\ WF_vars(Reconnect(TRUE))

FairSpec == Spec /\ Fairness

-----------------------------------------------------------------------------
(* The state has its type. *)
TypeOK ==
  /\ written \in 0 .. Len(Binlog)
  /\ phase \in {"down", "loop", "rows"}
  /\ at \in Position \cup {NoPos}
  /\ mapped \in BOOLEAN /\ conn \in BOOLEAN
  /\ feed \in [pre : {"none", "rotate", "format", "dead"}, next : 1 .. Len(Binlog) + 1,
               from : Position \cup {NoPos}]
  /\ IF phase = "rows"
     THEN ev \in DOMAIN Binlog /\ j \in 1 .. Binlog[ev].images
     ELSE ev = 0 /\ j = 0
  /\ db \in [at : Position \cup {NoPos}, rows : Seq((DOMAIN Binlog) \X Nat)]
  /\ first \in Position \cup {NoPos}
  /\ cut \subseteq DOMAIN Binlog
  /\ faults \in 0 .. MaxFaults

(* The images a rows event owes the store. *)
ImagesOf(i) == {n \in 1 .. Binlog[i].images : Selected(Binlog[i].kind, n)}
Stored == {db.rows[k] : k \in DOMAIN db.rows}
Owed(i) == Binlog[i].kind \in RowsKind /\ first # NoPos /\ PosLess(first, EndOf(i))

(* Rows are stored in binlog order and none twice, however often the       *)
(* connection is lost, the configuration reloaded or the process killed:   *)
(* each new dump starts where the store ends.                              *)
RowsInBinlogOrder ==
  \A a, b \in DOMAIN db.rows : a < b =>
    \/ db.rows[a][1] < db.rows[b][1]
    \/ db.rows[a][1] = db.rows[b][1] /\ db.rows[a][2] < db.rows[b][2]

(* i and k are rows events after the same TABLE_MAP event. *)
SameTableMap(i, k) == i <= k /\ \A m \in i .. k : Binlog[m].kind # "map"

(* A lost connection loses no row.  A row that the stored position is      *)
(* behind is stored, unless mysync was restarted or reloaded at a position *)
(* inside the event, or inside the run of rows events under one table map. *)
LossOnlyWhereCut ==
  \A i \in DOMAIN Binlog :
    Owed(i) /\ PosLess(EndOf(i), db.at) =>
      \/ \A n \in ImagesOf(i) : <<i, n>> \in Stored
      \/ \E c \in cut : SameTableMap(c, i)

(* The stored position never goes back, across rotations as well: between  *)
(* events the position in memory is at times the new file's name with an   *)
(* old offset or 0, and none of these is ever stored.                      *)
PositionOnlyAdvances ==
  [][db.at # NoPos => db'.at = db.at \/ PosLess(db.at, db'.at)]_vars

(* Where unsigned long has 32 bits, all that the master has written is     *)
(* stored in the end, unless the process is down or a restart has cut it   *)
(* off.  Where it has 64, a read error is not noticed (SeesReadError) and  *)
(* what is written afterwards waits for a reload or a restart.             *)
CaughtUp ==
  \A i \in 1 .. written :
    Owed(i) => \/ \A n \in ImagesOf(i) : <<i, n>> \in Stored
               \/ \E c \in cut : SameTableMap(c, i)
CatchesUp == <>[](phase = "down" \/ CaughtUp)

(* README.md:7: mysync receives the binlog from the master and saves it in *)
(* tokyocabinet.  Every row of an insert or a delete and the new image of  *)
(* every updated row that the stored position is behind is stored.         *)
RowImage(i, n) == Binlog[i].kind = "update" => n % 2 = 0
EveryRowStored ==
  \A i \in DOMAIN Binlog : \A n \in 1 .. Binlog[i].images :
    Owed(i) /\ RowImage(i, n) /\ PosLess(EndOf(i), db.at) => <<i, n>> \in Stored
=============================================================================
