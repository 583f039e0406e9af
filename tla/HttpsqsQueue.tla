---------------------------- MODULE HttpsqsQueue ----------------------------
(***************************************************************************)
(* The row queue that mysync keeps for one watched table in the            *)
(* TokyoCabinet database (ms_qs.c): a ring of MaxQueue records "dt:1" ..   *)
(* "dt:MaxQueue", the write position "dt:putpos" and the read position     *)
(* "dt:getpos".                                                            *)
(*                                                                         *)
(* mysync writes through the page cache of its own TCBDB handle (`cache`); *)
(* what is on disk (`file`) changes only in tcbdbsync.  The consumer, a    *)
(* process of its own (httpsqs), reads the file and moves getpos.  Because *)
(* the database is opened with BDBONOLCK, mysync may work with an old page *)
(* that holds an old getpos (`seen_get`), and may write that page back     *)
(* over the consumer's newer one.                                          *)
(***************************************************************************)
EXTENDS Integers, Sequences, FiniteSets

CONSTANTS
  MaxQueue,    \* dt:maxqueue
  MaxRows,     \* bound: rows the master has for this table
  EventEnd,    \* for each row the last one of its rows event
  MaxFaults,   \* bound: crashes, reloads and failed writes
  Nothing      \* no record stored under a key

ASSUME MaxQueueAssumption == MaxQueue \in Nat \ {0}
ASSUME BoundsAssumption == MaxRows \in Nat /\ MaxFaults \in Nat
ASSUME NothingAssumption == Nothing \notin Nat

(* Rows are told apart by their place in the binlog, one file of it.       *)
Row == 1 .. MaxRows

(* The rows of an event follow each other. *)
ASSUME EventAssumption ==
  /\ EventEnd \in [Row -> Row]
  /\ \A r \in Row :
       r <= EventEnd[r] /\ \A s \in r .. EventEnd[r] : EventEnd[s] = EventEnd[r]

Slot == 0 .. MaxQueue

(* A record key: one past the ring is reached when a write fails.          *)
Key == 0 .. MaxQueue + 1

VARIABLES
  cache,       \* the database as mysync sees it
  file,        \* the database on disk
  getpos,      \* dt:getpos as the consumer sees it
  seen_get,    \* dt:getpos as mysync sees it
  pc,          \* where flush_row_info is
  row,         \* the row rows_event_handler hands to flush_row_info
  pos,         \* what httpsqs_now_putpos returned
  out,         \* the record the consumer read last
  taken,       \* ghost: how many accepted rows the consumer is past
  seen_taken,  \* ghost: the same for seen_get
  unmarked,    \* ghost: stored rows whose position could not be written
  cut,         \* ghost: rows a crash left out in the middle of their event
  faults       \* crashes, reloads and failed writes so far

ghosts == <<unmarked, cut>>
vars == <<cache, file, getpos, seen_get, pc, row, pos, out, taken,
          seen_taken, ghosts, faults>>

(* putpos and rec are the records of the ring, done is the binlog position *)
(* (my_binlog_name and my_binlog_pos), as the number of the last row it    *)
(* covers: mi->binlog_pos is where the event in hand ends.  last, log,     *)
(* holes and unqueued are ghosts: the row the position was written with;   *)
(* the rows that got a place in the ring, in order; the places in log      *)
(* whose record could not be written; the rows that got no place, because  *)
(* the ring was full or the new putpos could not be written.               *)
Database ==
  [putpos : Slot, rec : [Key -> Row \cup {Nothing}], done : 0 .. MaxRows,
   last : 0 .. MaxRows, log : Seq(Row), holes : SUBSET Nat, unqueued : SUBSET Row]

Init ==
  /\ cache = [putpos |-> 0, rec |-> [s \in Key |-> Nothing], done |-> 0,
              last |-> 0, log |-> <<>>, holes |-> {}, unqueued |-> {}]
  /\ file = cache
  /\ getpos = 0 /\ seen_get = 0
  /\ pc = "idle" /\ row = 1 /\ pos = 0
  /\ out = Nothing
  /\ taken = 0 /\ seen_taken = 0
  /\ unmarked = {} /\ cut = {}
  /\ faults = 0

-----------------------------------------------------------------------------
(* Faulty forms of httpsqs_now_putpos, which the runs must tell from it:   *)
(* without the test for having caught up with the consumer; without the    *)
(* wrap; with the test for a ring never read from for every ring, or not   *)
(* for one that was read from once.                                        *)
putposNoCatchUp(put, get) ==
  LET p == put + 1 IN
    IF p > MaxQueue THEN (IF get <= 1 THEN 0 ELSE 1) ELSE p
putposNoWrap(put, get) ==
  LET p == put + 1 IN IF p = get \/ (get <= 1 /\ p > MaxQueue) THEN 0 ELSE p
putposNeverWraps(put, get) ==
  LET p == put + 1 IN IF p = get \/ p > MaxQueue THEN 0 ELSE p
putposReadOnce(put, get) ==
  LET p == put + 1 IN
    IF p = get \/ (get = 0 /\ p > MaxQueue) THEN 0
    ELSE IF p > MaxQueue THEN 1 ELSE p

(* httpsqs_now_putpos: the position it returns when the write position is  *)
(* put and the read position get.  0 says that the queue is full.          *)
now_putpos(put, get) ==
  LET p == put + 1 IN
    IF p = get THEN 0
    ELSE IF get <= 1 /\ p > MaxQueue THEN 0
    ELSE IF p > MaxQueue THEN 1
    ELSE p

(* flush_row_info, first call: claim a position and publish it as putpos.  *)
NowPutpos ==
  /\ pc = "idle" /\ row <= MaxRows
  /\ pos' = now_putpos(cache.putpos, seen_get)
  /\ cache' = IF pos' = 0
              THEN [cache EXCEPT !.unqueued = @ \cup {row}]
              ELSE [cache EXCEPT !.putpos = pos', !.log = Append(@, row)]
  /\ pc' = "row"
  /\ UNCHANGED <<file, getpos, seen_get, row, out, taken, seen_taken, ghosts,
                 faults>>

(* tcbdbput2 of the new putpos fails.  The position is returned all the    *)
(* same; at the end of the ring it is the one past the end.                *)
PutposFails ==
  /\ pc = "idle" /\ row <= MaxRows /\ faults < MaxFaults
  /\ now_putpos(cache.putpos, seen_get) # 0
  /\ pos' = cache.putpos + 1
  /\ cache' = [cache EXCEPT !.unqueued = @ \cup {row}]
  /\ pc' = "row"
  /\ faults' = faults + 1
  /\ UNCHANGED <<file, getpos, seen_get, row, out, taken, seen_taken, ghosts>>

(* flush_row_info, second call: the row is stored under the position,      *)
(* which may be 0.                                                         *)
PutRow ==
  /\ pc = "row"
  /\ cache' = [cache EXCEPT !.rec[pos] = row]
  /\ pc' = "sync"
  /\ UNCHANGED <<file, getpos, seen_get, row, pos, out, taken, seen_taken,
                 ghosts, faults>>

(* The row about to be stored has the last place of the log.               *)
Claimed == pc = "row" /\ pos # 0 /\ pos = cache.putpos

(* tcbdbput2 of the row fails: flush_row_info returns -1 before            *)
(* flush_binlog_info and rows_event_handler goes on with the next row.     *)
PutRowFails ==
  /\ pc = "row" /\ faults < MaxFaults
  /\ cache' = IF Claimed
              THEN [cache EXCEPT !.holes = @ \cup {Len(cache.log)}]
              ELSE cache
  /\ pc' = "idle" /\ row' = row + 1
  /\ faults' = faults + 1
  /\ UNCHANGED <<file, getpos, seen_get, pos, out, taken, seen_taken, ghosts>>

(* tcbdbsync or tcbdbclose writes all changed pages, the one with the read *)
(* position possibly among them.                                           *)
WriteBack ==
  /\ file' = cache'
  /\ \/ UNCHANGED <<getpos, taken>>
     \/ getpos' = seen_get /\ taken' = seen_taken

(* Faulty: the position is written after tcbdbsync.                        *)
SyncBeforePosition ==
  /\ pc = "sync"
  /\ cache' = [cache EXCEPT !.done = EventEnd[row], !.last = row]
  /\ file' = cache
  /\ pc' = "idle" /\ row' = row + 1
  /\ UNCHANGED <<getpos, seen_get, pos, out, taken, seen_taken, ghosts, faults>>

(* flush_binlog_info: the position after the row's event, then tcbdbsync.  *)
FlushBinlogInfo ==
  /\ pc = "sync"
  /\ cache' = [cache EXCEPT !.done = EventEnd[row], !.last = row]
  /\ WriteBack
  /\ pc' = "idle" /\ row' = row + 1
  /\ UNCHANGED <<seen_get, pos, out, seen_taken, ghosts, faults>>

(* tcbdbput2 of the position fails, which nobody looks at: the row is      *)
(* synced with an older position.                                          *)
PositionFails ==
  /\ pc = "sync" /\ faults < MaxFaults
  /\ UNCHANGED cache
  /\ WriteBack
  /\ pc' = "idle" /\ row' = row + 1
  /\ unmarked' = unmarked \cup {row}
  /\ faults' = faults + 1
  /\ UNCHANGED <<seen_get, pos, out, seen_taken, cut>>

(* tcbdbsync fails, which nobody looks at, after the position was written  *)
(* or could not be.                                                        *)
SyncFails ==
  /\ pc = "sync" /\ faults < MaxFaults
  /\ \/ cache' = [cache EXCEPT !.done = EventEnd[row], !.last = row] /\ UNCHANGED unmarked
     \/ UNCHANGED cache /\ unmarked' = unmarked \cup {row}
  /\ pc' = "idle" /\ row' = row + 1
  /\ faults' = faults + 1
  /\ UNCHANGED <<file, getpos, seen_get, pos, out, taken, seen_taken, cut>>

(* mysync reads the page with the read position from disk again.           *)
RefreshGetpos ==
  /\ seen_get' = getpos /\ seen_taken' = taken
  /\ UNCHANGED <<cache, file, getpos, pc, row, pos, out, taken, ghosts, faults>>

(* rows_event_handler has returned: event_dispatch handles an event to its *)
(* end before the session or the program does anything else.               *)
BetweenEvents ==
  pc = "idle" /\ (row - 1 \in Row => EventEnd[row - 1] = row - 1)

(* A new dump session: load_binlog_info finds the position in the cache    *)
(* and the master sends everything after it once more.                     *)
Reconnect ==
  /\ BetweenEvents
  /\ row' = cache.done + 1
  /\ UNCHANGED <<cache, file, getpos, seen_get, pc, pos, out, taken, seen_taken,
                 ghosts, faults>>

(* A reload: qs_db_deinit closes the database, run_prepare opens it again. *)
Reload ==
  /\ BetweenEvents /\ faults < MaxFaults
  /\ UNCHANGED <<cache, pc, pos, out, ghosts>>
  /\ WriteBack
  /\ seen_get' = getpos' /\ seen_taken' = taken'
  /\ row' = cache.done + 1
  /\ faults' = faults + 1

(* The rows of the event a position was written with that came after.      *)
AfterLast(d) == d.last + 1 .. d.done

(* The process ends without closing the database (a crash, a signal: the   *)
(* code closes it in no other place than a reload) and is started again.   *)
(* The position on disk is the end of an event: what followed the row it   *)
(* was written with in that event is passed over.                          *)
CrashAndRestart ==
  /\ faults < MaxFaults
  /\ cache' = file
  /\ seen_get' = getpos /\ seen_taken' = taken
  /\ pc' = "idle" /\ row' = file.done + 1 /\ pos' = 0
  /\ cut' = cut \cup AfterLast(file)
  /\ faults' = faults + 1
  /\ UNCHANGED <<file, getpos, out, taken, unmarked>>

-----------------------------------------------------------------------------
(* The position the consumer reads after get.                              *)
next_getpos(get) == IF get < MaxQueue THEN get + 1 ELSE 1

Get ==
  /\ getpos # file.putpos
  /\ getpos' = next_getpos(getpos)
  /\ out' = file.rec[getpos']
  /\ taken' = taken + 1
  /\ UNCHANGED <<cache, file, seen_get, pc, row, pos, seen_taken, ghosts, faults>>

Next ==
  \/ NowPutpos
  \/ PutposFails
  \/ PutRow
  \/ PutRowFails
  \/ FlushBinlogInfo
  \/ PositionFails
  \/ SyncFails
  \/ RefreshGetpos
  \/ Reconnect
  \/ Reload
  \/ CrashAndRestart
  \/ Get

Spec == Init /\ [][Next]_vars

(* mysync's own steps and the consumer's go on; nothing makes mysync       *)
(* refresh its page, nothing has to fail.                                  *)
Fairness ==
  /\ WF_vars(NowPutpos)
  /\ WF_vars(PutRow)
  /\ WF_vars(FlushBinlogInfo)
  /\ WF_vars(Get)

FairSpec == Spec /\ Fairness

-----------------------------------------------------------------------------
(* The queue's state has its type.                                         *)
TypeOK ==
  /\ cache \in Database
  /\ file \in Database
  /\ getpos \in Slot /\ seen_get \in Slot
  /\ pc \in {"idle", "row", "sync"}
  /\ row \in 1 .. MaxRows + 1
  /\ pos \in Key
  /\ out \in Row \cup {Nothing}
  /\ taken \in Nat /\ seen_taken \in Nat
  /\ unmarked \subseteq Row /\ cut \subseteq Row
  /\ faults \in 0 .. MaxFaults

-----------------------------------------------------------------------------
(* Four cursors move around the ring: n rows lie before a cursor that is   *)
(* at record p.                                                            *)
Cursor(n, p) == n \in Nat /\ p \in Slot /\ (n = 0 <=> p = 0)

(* The cursor (m, q) is the cursor (n, p) or ahead of it by m - n records, *)
(* at most once past the end of the ring.                                  *)
Ahead(m, q, n, p) == n <= m /\ q - p \in {m - n, m - n - MaxQueue}

(* The bound between the last row in the ring and the row the consumer is, *)
(* or was seen, at: a ring that was ever read from keeps one record free.  *)
Fits(m, n) == m - n <= IF n = 0 THEN MaxQueue ELSE MaxQueue - 1

(* seen_get, getpos, the putpos on disk and mysync's putpos follow each    *)
(* other.                                                                  *)
RingInv ==
  /\ Cursor(seen_taken, seen_get)
  /\ Cursor(taken, getpos)
  /\ Cursor(Len(file.log), file.putpos)
  /\ Cursor(Len(cache.log), cache.putpos)
  /\ Ahead(taken, getpos, seen_taken, seen_get)
  /\ Ahead(Len(file.log), file.putpos, seen_taken, seen_get)
  /\ Ahead(Len(cache.log), cache.putpos, seen_taken, seen_get)
  /\ taken <= Len(file.log) /\ Len(file.log) <= Len(cache.log)
  /\ Fits(Len(cache.log), seen_taken)

(* A row about to be stored has the last place of the log, or none and a   *)
(* key under which nothing waits.                                          *)
ClaimInv ==
  /\ pc # "idle" => row \in Row
  /\ Claimed => /\ Len(file.log) < Len(cache.log)
                /\ cache.log[Len(cache.log)] = row
                /\ Len(cache.log) \notin cache.holes
  /\ pc = "row" /\ pos # 0 /\ ~Claimed =>
       pos = cache.putpos + 1 /\ Fits(Len(cache.log) + 1, seen_taken)
  /\ \A k \in cache.holes : k \in 1 .. Len(cache.log)
  /\ \A k \in file.holes : k \in 1 .. Len(file.log)

(* mysync's log continues the one on disk. *)
LogInv ==
  \A k \in 1 .. Len(file.log) :
    cache.log[k] = file.log[k] /\ (k \in cache.holes <=> k \in file.holes)

(* The record written d rows before the one at put. *)
SlotBehind(put, d) == IF d < put THEN put - d ELSE put - d + MaxQueue

(* The records of the rows after the n-th are those of the log, holes and  *)
(* places after the m-th aside.                                            *)
Holds(d, n, m) ==
  \A k \in n + 1 .. m :
    k \notin d.holes => d.rec[SlotBehind(d.putpos, Len(d.log) - k)] = d.log[k]

RecordInv ==
  /\ Holds(file, seen_taken, Len(file.log))
  /\ Holds(cache, seen_taken, IF Claimed THEN Len(cache.log) - 1 ELSE Len(cache.log))

(* The inductive invariant. *)
QueueInv == RingInv /\ ClaimInv /\ LogInv /\ RecordInv

-----------------------------------------------------------------------------
(* A row that waits for the consumer is still under its key: whatever      *)
(* httpsqs_now_putpos hands out, however old the getpos it read and        *)
(* whatever crashed meanwhile, no record is overwritten before the         *)
(* consumer is past it.                                                    *)
UnreadIntact == Holds(file, taken, Len(file.log))

(* The binlog position on disk accounts for the rows on disk.  Every row   *)
(* it covers has a place in the ring or is known to have none, or comes    *)
(* after a stored row in the same event, the last one or the one at which  *)
(* a crash cut the event: the position after the event is stored with its  *)
(* first row.  A row beyond it, and one stored again or out of order, is   *)
(* there only because the unchecked write of a position failed.  So        *)
(* starting again from it passes over no whole event, and repeats nothing  *)
(* unless such a write failed: position and rows become durable together,  *)
(* whatever else fails.                                                    *)
PositionAccountsForRows ==
  LET kept == {k \in DOMAIN file.log : k \notin file.holes} IN
    /\ 1 .. file.done \subseteq {file.log[k] : k \in DOMAIN file.log}
         \cup file.unqueued \cup cut \cup AfterLast(file)
    /\ \A k \in kept : file.log[k] <= file.done \/ file.log[k] \in unmarked
    /\ \A k, l \in kept :
         k < l => file.log[k] < file.log[l] \/ file.log[k] \in unmarked

(* httpsqs_now_putpos refuses a row only if, by the getpos it read, at     *)
(* most one record of the ring was free.                                   *)
RefusedOnlyWhenFull ==
  [][NowPutpos /\ pos' = 0 => Len(cache.log) - seen_taken >= MaxQueue - 1]_vars

(* The consumer gets the accepted rows, in order, with at most MaxQueue    *)
(* waiting: the ring implements the bounded log.                           *)
Hole == 0
visible == [k \in DOMAIN file.log |-> IF k \in file.holes THEN Hole ELSE file.log[k]]
Waiting == INSTANCE BoundedLog WITH Capacity <- MaxQueue, log <- visible
ImplementsBoundedLog == Waiting!Spec

(* Every row on disk is handed out in the end: put and get never look      *)
(* equal while a row waits.                                                *)
EveryRowHandedOut ==
  \A k \in Row : Len(file.log) >= k ~> taken >= k
=============================================================================
