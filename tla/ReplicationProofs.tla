-------------------------- MODULE ReplicationProofs --------------------------
(***************************************************************************)
(* Proofs about the data path, for every binlog and number of faults.      *)
(***************************************************************************)
EXTENDS Replication, TLAPS

-----------------------------------------------------------------------------
(* The inductive invariant.                                                *)

(* The stored position is at the end of event i or past it. *)
Reached(i) == db.at # NoPos /\ ~PosLess(db.at, EndOf(i))

(* Nothing of event i is missing, or a restart explains what is.           *)
Settled(i) ==
  \/ \A n \in ImagesOf(i) : <<i, n>> \in Stored
  \/ \E c \in cut : SameTableMap(c, i)

(* The place between two transactions, where no table map is in force.     *)
Boundary(p) ==
  \E w \in 0 .. Len(Binlog) :
    /\ w = 0 \/ Binlog[w].kind \in {"commit", "rotate"}
    /\ \A i \in DOMAIN Binlog : i > w <=> PosLess(p, EndOf(i))

(* The dump session has every event to come that the stored position has   *)
(* not reached, and mysync knows the file the next event is in.            *)
SessionInv ==
  /\ phase # "down" => at \in Position /\ db.at # NoPos
  /\ phase = "rows" => conn /\ mapped
  /\ conn =>
       /\ phase # "down"
       /\ feed.from \in Position
       /\ feed.pre = "format" => at.name = feed.from.name
       /\ feed.pre = "none" /\ feed.next <= Len(Binlog) =>
            at.name = Binlog[feed.next].file
       /\ \A i \in DOMAIN Binlog : i >= feed.next => PosLess(db.at, EndOf(i))

(* The rows event in hand: the position in memory is its end, and exactly  *)
(* the images before j have been dealt with.                               *)
HandlingInv ==
  phase = "rows" =>
    /\ Binlog[ev].kind \in RowsKind
    /\ at = EndOf(ev)
    /\ feed.next = ev + 1
    /\ db.at = at \/ PosLess(db.at, at)
    /\ \A k \in DOMAIN db.rows :
         \/ db.rows[k][1] < ev
         \/ db.rows[k][1] = ev /\ db.rows[k][2] < j
    /\ \A n \in 1 .. j - 1 : Selected(Binlog[ev].kind, n) => <<ev, n>> \in Stored

(* The rows in the store are of events the stored position has reached.    *)
StoreInv ==
  /\ RowsInBinlogOrder
  /\ \A k \in DOMAIN db.rows : Reached(db.rows[k][1])

(* The stored position began between two transactions, and has since been  *)
(* the end of a rows event.                                                *)
PlaceInv ==
  /\ written = 0 \/ Binlog[written].kind \in {"commit", "rotate"}
  /\ first = NoPos <=> db.at = NoPos
  /\ first # NoPos => Boundary(first)
  /\ db.at = first \/ \E e \in DOMAIN Binlog : Binlog[e].kind \in RowsKind /\ EndOf(e) = db.at

(* As long as this run of the process has met no table map, it is still at *)
(* the place it was started from: that place is recorded in cut, unless it *)
(* is between two transactions.                                            *)
CutInv ==
  /\ phase = "down" \/ ~mapped =>
       \/ db.at = first
       \/ \E c \in cut : Binlog[c].kind \in RowsKind /\ EndOf(c) = db.at
  /\ conn /\ ~mapped =>
       \A m \in DOMAIN Binlog :
         m < feed.next /\ PosLess(db.at, EndOf(m)) => Binlog[m].kind # "map"

(* What the stored position has reached, and what the session has sent, is *)
(* settled, but for the event in hand.                                     *)
LossInv ==
  \A i \in DOMAIN Binlog :
    Owed(i) /\ ~(phase = "rows" /\ i = ev) =>
      /\ Reached(i) => Settled(i)
      /\ conn /\ i < feed.next => Settled(i)

OrderInv == TypeOK /\ SessionInv /\ HandlingInv /\ StoreInv
IInv == OrderInv /\ PlaceInv /\ CutInv /\ LossInv
-----------------------------------------------------------------------------
(* Positions and the binlog, apart from any state.                         *)

LEMMA BinlogTypes ==
  /\ Len(Binlog) \in Nat
  /\ DOMAIN Binlog = 1 .. Len(Binlog)
  /\ \A i \in DOMAIN Binlog :
       /\ Binlog[i] \in Event /\ EndOf(i) \in Position
       /\ Binlog[i].file \in Nat \ {0} /\ Binlog[i].end \in Nat \ {0}
       /\ EndOf(i).name = Binlog[i].file /\ EndOf(i).pos = Binlog[i].end
<1>1. Len(Binlog) \in Nat /\ DOMAIN Binlog = 1 .. Len(Binlog)
  BY BinlogAssumption
<1>2. ASSUME NEW i \in DOMAIN Binlog PROVE Binlog[i] \in Event
  BY <1>1, BinlogAssumption
<1>3. ASSUME NEW i \in DOMAIN Binlog PROVE EndOf(i) \in Position
  BY <1>2 DEF Event, EndOf, Position
<1>4. ASSUME NEW i \in DOMAIN Binlog
      PROVE  /\ Binlog[i].file \in Nat \ {0} /\ Binlog[i].end \in Nat \ {0}
             /\ EndOf(i).name = Binlog[i].file /\ EndOf(i).pos = Binlog[i].end
  BY <1>2 DEF Event, EndOf
<1>5. QED
  BY <1>1, <1>2, <1>3, <1>4

(* Positions are totally ordered. *)
LEMMA PositionOrder ==
  ASSUME NEW p \in Position, NEW q \in Position
  PROVE  /\ p = q \/ PosLess(p, q) \/ PosLess(q, p)
         /\ ~(PosLess(p, q) /\ PosLess(q, p))
         /\ ~PosLess(p, p)
<1>1. (p.name = q.name /\ p.pos = q.pos) => p = q
  BY DEF Position
<1>2. QED
  BY <1>1 DEF Position, PosLess

LEMMA PositionTransitive ==
  ASSUME NEW p \in Position, NEW q \in Position, NEW r \in Position
  PROVE  /\ PosLess(p, q) /\ PosLess(q, r) => PosLess(p, r)
         /\ PosLess(p, q) /\ ~PosLess(r, q) => PosLess(p, r)
         /\ ~PosLess(q, p) /\ PosLess(q, r) => PosLess(p, r)
         /\ ~PosLess(q, p) /\ ~PosLess(r, q) => ~PosLess(r, p)
BY DEF Position, PosLess

(* Events end in the order they are written. *)
LEMMA EndOrder ==
  ASSUME NEW i \in DOMAIN Binlog, NEW k \in DOMAIN Binlog
  PROVE  /\ i < k <=> PosLess(EndOf(i), EndOf(k))
         /\ EndOf(i) = EndOf(k) => i = k
<1>1. i \in Int /\ k \in Int /\ EndOf(i) \in Position /\ EndOf(k) \in Position
  BY BinlogTypes
<1>2. /\ i < k => PosLess(EndOf(i), EndOf(k))
      /\ k < i => PosLess(EndOf(k), EndOf(i))
  BY BinlogAssumption
<1>3. i = k => ~PosLess(EndOf(i), EndOf(k))
  BY <1>1, PositionOrder
<1>4. EndOf(i) = EndOf(k) => ~PosLess(EndOf(i), EndOf(k)) /\ ~PosLess(EndOf(k), EndOf(i))
  BY <1>1, PositionOrder
<1>5. QED
  BY <1>1, <1>2, <1>3, <1>4, PositionOrder

(* A position is in front of the events from n on. *)
LEMMA InFront ==
  ASSUME NEW p \in Position, NEW n \in DOMAIN Binlog,
         ~PosLess(EndOf(n), p)
  PROVE  \A i \in DOMAIN Binlog : i >= n + 1 => PosLess(p, EndOf(i))
<1> SUFFICES ASSUME NEW i \in DOMAIN Binlog, i >= n + 1 PROVE PosLess(p, EndOf(i))
  OBVIOUS
<1>1. PosLess(EndOf(n), EndOf(i))
  BY EndOrder, BinlogTypes
<1>2. QED
  BY <1>1, BinlogTypes, PositionTransitive

Feed == [pre : {"none", "rotate", "format", "dead"}, next : 1 .. Len(Binlog) + 1,
         from : Position]

LEMMA FeedInIs ==
  ASSUME NEW name \in Nat, NEW n \in 1 .. Len(Binlog) + 1
  PROVE  /\ FeedIn(name, n) \in Feed
         /\ FeedIn(name, n).next = n
         /\ FeedIn(name, n).pre # "format"
         /\ FeedIn(name, n).pre = "none" /\ n <= Len(Binlog) => Binlog[n].file = name
<1>1. n <= Len(Binlog) => Binlog[n].file \in Nat
  BY BinlogTypes DEF Event
<1>2. QED
  BY <1>1, BinlogTypes DEF FeedIn, Feed, Position

LEMMA FeedAfterIs ==
  ASSUME NEW i \in DOMAIN Binlog
  PROVE  /\ FeedAfter(i) \in Feed
         /\ FeedAfter(i).next = i + 1
         /\ FeedAfter(i).pre # "format"
         /\ FeedAfter(i).pre = "none" /\ i + 1 <= Len(Binlog) =>
              Binlog[i + 1].file = Binlog[i].file
<1>1. Binlog[i].file \in Nat /\ i + 1 \in 1 .. Len(Binlog) + 1
  BY BinlogTypes DEF Event
<1>2. QED
  BY <1>1, FeedInIs DEF FeedAfter

(* The master's position is between two transactions, in front of all it   *)
(* has still to write.                                                     *)
LEMMA MasterStatusIs ==
  ASSUME written \in 0 .. Len(Binlog),
         written = 0 \/ Binlog[written].kind \in {"commit", "rotate"}
  PROVE  MasterStatus \in Position /\ Boundary(MasterStatus)
<1> DEFINE S == MasterStatus
<1>1. written \in Nat /\ (written # 0 => written \in DOMAIN Binlog)
  BY BinlogTypes
<1>2. S \in Position
  BY <1>1, BinlogTypes DEF MasterStatus, Position, Event
<1>3. ASSUME NEW i \in DOMAIN Binlog PROVE i > written <=> PosLess(S, EndOf(i))
  <2>1. CASE written = 0
    BY <2>1, BinlogTypes DEF MasterStatus, PosLess
  <2>2. CASE written # 0 /\ Binlog[written].kind = "rotate"
    <3>1. S = [name |-> Binlog[written].file + 1, pos |-> 0]
      BY <2>2 DEF MasterStatus
    <3>2. ASSUME i > written PROVE PosLess(S, EndOf(i))
      <4>1. written + 1 \in DOMAIN Binlog /\ Binlog[written + 1].file = Binlog[written].file + 1
        BY <1>1, <2>2, <3>2, BinlogTypes, BinlogAssumption, SMTT(20)
      <4>2. i = written + 1 \/ PosLess(EndOf(written + 1), EndOf(i))
        BY <1>1, <3>2, <4>1, BinlogTypes, EndOrder
      <4>3. PosLess(S, EndOf(written + 1))
        BY <3>1, <4>1, BinlogTypes DEF PosLess
      <4>4. QED
        BY <1>2, <4>1, <4>2, <4>3, BinlogTypes, PositionTransitive
    <3>3. ASSUME i <= written PROVE ~PosLess(S, EndOf(i))
      <4>1. i = written \/ PosLess(EndOf(i), EndOf(written))
        BY <1>1, <2>2, <3>3, BinlogTypes, EndOrder
      <4>2. PosLess(EndOf(written), S)
        BY <1>1, <2>2, <3>1, BinlogTypes DEF PosLess
      <4>3. QED
        BY <1>1, <1>2, <2>2, <4>1, <4>2, BinlogTypes, PositionTransitive, PositionOrder
    <3>4. QED
      BY <1>1, <3>2, <3>3, BinlogTypes
  <2>3. CASE written # 0 /\ Binlog[written].kind # "rotate"
    <3>1. S = EndOf(written)
      BY <2>3 DEF MasterStatus
    <3>2. QED
      BY <1>1, <2>3, <3>1, BinlogTypes, EndOrder
  <2>4. QED
    BY <2>1, <2>2, <2>3
<1>4. QED
  BY <1>2, <1>3 DEF Boundary

-----------------------------------------------------------------------------
(* What the actions share.                                                 *)

SyncTo == IF db.at = NoPos THEN MasterStatus ELSE db.at

LEMMA SyncIs ==
  ASSUME TypeOK, PlaceInv, NEW ok \in BOOLEAN, SyncBinlogInfo(ok)
  PROVE  /\ SyncTo \in Position /\ SyncTo # NoPos
         /\ at' = SyncTo
         /\ db' = [at |-> SyncTo, rows |-> db.rows]
         /\ IF db.at = NoPos THEN first' = SyncTo /\ Boundary(SyncTo)
                             ELSE first' = first /\ SyncTo = db.at
         /\ conn' = ok
         /\ IF ok
            THEN /\ feed' \in Feed /\ feed'.pre = "rotate"
                 /\ \A i \in DOMAIN Binlog : i >= feed'.next <=> PosLess(SyncTo, EndOf(i))
            ELSE feed' = feed
<1>1. MasterStatus \in Position /\ Boundary(MasterStatus)
  BY MasterStatusIs DEF TypeOK, PlaceInv
<1>2. SyncTo \in Position /\ SyncTo # NoPos
  BY <1>1, NoPosAssumption DEF SyncTo, TypeOK
<1>3. /\ at' = SyncTo
      /\ db' = [db EXCEPT !.at = SyncTo]
      /\ first' = (IF db.at = NoPos THEN SyncTo ELSE first)
      /\ conn' = ok
      /\ IF ok THEN DumpFrom(SyncTo) ELSE UNCHANGED feed
  BY DEF SyncBinlogInfo, SyncTo
<1>4. db' = [at |-> SyncTo, rows |-> db.rows]
  BY <1>3 DEF TypeOK
<1>5. ok => /\ feed' \in Feed /\ feed'.pre = "rotate"
            /\ \A i \in DOMAIN Binlog : i >= feed'.next <=> PosLess(SyncTo, EndOf(i))
  BY <1>2, <1>3 DEF DumpFrom, Feed
<1>6. QED
  BY <1>1, <1>2, <1>3, <1>4, <1>5 DEF SyncTo

(* An event that is read: its file is known, so the header's log_pos makes *)
(* the position in memory the end of the event.                            *)
LEMMA ReadIs ==
  ASSUME TypeOK, SessionInv, CanRead
  PROVE  /\ feed.next \in DOMAIN Binlog
         /\ at \in Position /\ at.name = Binlog[feed.next].file
         /\ [at EXCEPT !.pos = Binlog[feed.next].end] = EndOf(feed.next)
         /\ db.at \in Position /\ PosLess(db.at, EndOf(feed.next))
         /\ \A i \in DOMAIN Binlog : i >= feed.next + 1 => PosLess(db.at, EndOf(i))
<1>1. feed.next \in DOMAIN Binlog /\ feed.next \in Nat /\ feed.next <= Len(Binlog)
  BY BinlogTypes DEF CanRead, TypeOK
<1>2. at \in Position /\ at.name = Binlog[feed.next].file
  BY <1>1 DEF CanRead, SessionInv
<1>3. [at EXCEPT !.pos = Binlog[feed.next].end] = EndOf(feed.next)
  BY <1>2 DEF Position, EndOf
<1>4. db.at \in Position
  BY DEF CanRead, SessionInv, TypeOK
<1>5. \A i \in DOMAIN Binlog : i >= feed.next => PosLess(db.at, EndOf(i))
  BY DEF CanRead, SessionInv
<1>6. QED
  BY <1>1, <1>2, <1>3, <1>4, <1>5, BinlogTypes

LEMMA TypeFeed == TypeOK => feed.next \in 1 .. Len(Binlog) + 1 /\ feed.next \in Nat
BY BinlogTypes DEF TypeOK

(* A read that fails leaves the place of the session alone. *)
FeedType == [pre : {"none", "rotate", "format", "dead"}, next : 1 .. Len(Binlog) + 1,
             from : Position \cup {NoPos}]
LEMMA ReadErrorIs ==
  ASSUME TypeOK, ReadReturnsError \/ (conn' = FALSE /\ UNCHANGED feed)
  PROVE  /\ conn' \in BOOLEAN /\ (conn' => conn)
         /\ feed' \in FeedType
         /\ feed'.next = feed.next /\ feed'.from = feed.from
         /\ feed'.pre = feed.pre \/ feed'.pre = "dead"
<1>1. conn \in BOOLEAN /\ feed \in FeedType
  BY DEF TypeOK, FeedType
<1>2. CASE conn' = FALSE /\ UNCHANGED feed
  BY <1>1, <1>2
<1>3. CASE SessionDead
  BY <1>1, <1>3 DEF SessionDead, FeedType
<1>4. QED
  BY <1>2, <1>3, Zenon DEF ReadReturnsError

-----------------------------------------------------------------------------
(* The state keeps its type. *)

LEMMA TypeStep == TypeOK /\ SessionInv /\ PlaceInv /\ [Next]_vars => TypeOK'
<1> SUFFICES ASSUME TypeOK, SessionInv, PlaceInv, [Next]_vars PROVE TypeOK'
  OBVIOUS
<1> USE DEF FeedType
<1> DEFINE DbType == [at : Position \cup {NoPos}, rows : Seq((DOMAIN Binlog) \X Nat)]
<1>f. \A f \in Feed : f \in FeedType
  BY DEF Feed
<1>c. Cut \subseteq DOMAIN Binlog
  BY DEF Cut
<1>1. CASE MasterWrites
  BY <1>1, BinlogTypes DEF MasterWrites, TypeOK
<1>s. ASSUME NEW ok \in BOOLEAN, SyncBinlogInfo(ok)
      PROVE  /\ at' \in Position \cup {NoPos} /\ conn' \in BOOLEAN
             /\ first' \in Position \cup {NoPos}
             /\ db' \in DbType
             /\ feed' \in FeedType
  <2>1. db'.rows = db.rows /\ db' = [at |-> SyncTo, rows |-> db.rows]
    BY <1>s, SyncIs
  <2>2. db' \in DbType
    BY <1>s, <2>1, SyncIs DEF TypeOK
  <2>3. feed' \in FeedType
    BY <1>s, <1>f, SyncIs DEF TypeOK
  <2>4. QED
    BY <1>s, <2>2, <2>3, SyncIs DEF TypeOK
<1>2. ASSUME NEW ok \in BOOLEAN, Start(ok) PROVE TypeOK'
  <2>1. SyncBinlogInfo(ok)
    BY <1>2 DEF Start
  <2>2. QED
    BY <1>2, <1>s, <2>1 DEF Start, TypeOK
<1>3. ASSUME NEW ok \in BOOLEAN, Reload(ok) PROVE TypeOK'
  <2>1. SyncBinlogInfo(ok)
    BY <1>3 DEF Reload
  <2>2. faults' \in 0 .. MaxFaults /\ cut' \subseteq DOMAIN Binlog
    BY <1>3, <1>c, MaxFaultsAssumption DEF Reload, TypeOK
  <2>3. QED
    BY <1>3, <1>s, <2>1, <2>2 DEF Reload, TypeOK
<1>4. ASSUME NEW ok \in BOOLEAN, Reconnect(ok) PROVE TypeOK'
  <2>1. SyncBinlogInfo(ok)
    BY <1>4 DEF Reconnect
  <2>2. QED
    BY <1>4, <1>s, <2>1 DEF Reconnect, TypeOK
<1>5. CASE Crash
  <2>1. faults' \in 0 .. MaxFaults /\ cut' \subseteq DOMAIN Binlog
    BY <1>5, <1>c, MaxFaultsAssumption DEF Crash, TypeOK
  <2>2. QED
    BY <1>5, <2>1 DEF Crash, TypeOK
<1>6. CASE ReadFails
  <2>1. faults' \in 0 .. MaxFaults
    BY <1>6, MaxFaultsAssumption DEF ReadFails, TypeOK
  <2>2. conn' \in BOOLEAN /\ feed' \in FeedType
    BY <1>6, ReadErrorIs DEF ReadFails
  <2>3. QED
    BY <1>6, <2>1, <2>2 DEF ReadFails, TypeOK, FeedType
<1>7. CASE ReadTimesOut
  <2>1. conn' \in BOOLEAN /\ feed' \in FeedType
    BY <1>7, ReadErrorIs DEF ReadTimesOut
  <2>2. QED
    BY <1>7, <2>1 DEF ReadTimesOut, TypeOK, FeedType
<1>8. CASE FakeRotate
  <2>1. at' \in Position /\ feed' \in FeedType
    BY <1>8 DEF FakeRotate, SessionInv, TypeOK
  <2>2. QED
    BY <1>8, <2>1 DEF FakeRotate, TypeOK
<1>9. CASE FormatDescription
  <2>1. at' \in Position
    BY <1>9 DEF FormatDescription, SessionInv, Position
  <2>2. feed' \in FeedType
    <3>1. feed.from.name \in Nat /\ feed.next \in 1 .. Len(Binlog) + 1
      BY <1>9 DEF FormatDescription, SessionInv, TypeOK, Position
    <3>2. QED
      BY <1>9, <1>f, <3>1, FeedInIs DEF FormatDescription
  <2>3. QED
    BY <1>9, <2>1, <2>2 DEF FormatDescription, TypeOK
<1>10. CASE DispatchOther
  <2>1. CanRead /\ at' = [at EXCEPT !.pos = Binlog[feed.next].end] /\ feed' = FeedAfter(feed.next)
    BY <1>10 DEF DispatchOther
  <2>2. at' \in Position /\ feed' \in FeedType
    BY <1>f, <2>1, ReadIs, FeedAfterIs, BinlogTypes
  <2>3. QED
    BY <1>10, <2>2 DEF DispatchOther, TypeOK
<1>11. CASE DispatchRotate
  <2>1. CanRead /\ at' = [name |-> at.name + 1, pos |-> 0] /\ feed' = FeedAfter(feed.next)
    BY <1>11 DEF DispatchRotate
  <2>2. feed' \in FeedType
    BY <1>f, <2>1, ReadIs, FeedAfterIs
  <2>3. at' \in Position
    BY <2>1, ReadIs DEF Position
  <2>4. QED
    BY <1>11, <2>2, <2>3 DEF DispatchRotate, TypeOK
<1>12. CASE DispatchTableMap
  <2>1. CanRead /\ at' = [at EXCEPT !.pos = Binlog[feed.next].end] /\ feed' = FeedAfter(feed.next)
    BY <1>12 DEF DispatchTableMap
  <2>2. at' \in Position /\ feed' \in FeedType
    BY <1>f, <2>1, ReadIs, FeedAfterIs, BinlogTypes
  <2>3. QED
    BY <1>12, <2>2 DEF DispatchTableMap, TypeOK
<1>13. CASE DispatchRows
  <2>1. CanRead /\ at' = [at EXCEPT !.pos = Binlog[feed.next].end] /\ feed' = FeedAfter(feed.next)
    BY <1>13 DEF DispatchRows
  <2>2. at' \in Position /\ feed' \in FeedType /\ feed.next \in DOMAIN Binlog
    BY <1>f, <2>1, ReadIs, FeedAfterIs, BinlogTypes
  <2>3. 1 \in 1 .. Binlog[feed.next].images
    <3>1. Binlog[feed.next].images > 0
      BY <1>13, <2>2, BinlogAssumption DEF DispatchRows
    <3>2. QED
      BY <2>2, <3>1, BinlogTypes DEF Event
  <2>4. QED
    BY <1>13, <2>2, <2>3 DEF DispatchRows, CanRead, TypeOK
<1>14. CASE HandleImage
  <2>1. ev \in DOMAIN Binlog /\ j \in 1 .. Binlog[ev].images /\ j \in Nat /\ Binlog[ev].images \in Nat
    BY <1>14, BinlogTypes DEF HandleImage, TypeOK, Event
  <2>2. db' \in DbType
    <3>1. db.rows \in Seq((DOMAIN Binlog) \X Nat) /\ <<ev, j>> \in (DOMAIN Binlog) \X Nat
      BY <2>1 DEF TypeOK
    <3>2. Append(db.rows, <<ev, j>>) \in Seq((DOMAIN Binlog) \X Nat)
      BY <3>1
    <3>3. [at |-> at, rows |-> Append(db.rows, <<ev, j>>)] \in DbType
      BY <3>2 DEF TypeOK
    <3>4. db \in DbType
      BY DEF TypeOK
    <3>5. QED
      BY <1>14, <3>3, <3>4 DEF HandleImage
  <2>3. IF phase' = "rows" THEN ev' \in DOMAIN Binlog /\ j' \in 1 .. Binlog[ev'].images
                           ELSE ev' = 0 /\ j' = 0
    BY <1>14, <2>1 DEF HandleImage
  <2>4. phase' \in {"down", "loop", "rows"}
    BY <1>14 DEF HandleImage
  <2>5. QED
    BY <1>14, <2>2, <2>3, <2>4 DEF HandleImage, TypeOK
<1>15. CASE UNCHANGED vars
  BY <1>15 DEF vars, TypeOK
<1>16. QED
  BY <1>1, <1>2, <1>3, <1>4, <1>5, <1>6, <1>7, <1>8, <1>9, <1>10, <1>11, <1>12,
     <1>13, <1>14, <1>15 DEF Next, ReadEvent

-----------------------------------------------------------------------------
(* The session keeps up with the stored position. *)

LEMMA SessionStep ==
  TypeOK /\ SessionInv /\ HandlingInv /\ PlaceInv /\ [Next]_vars => SessionInv'
<1> SUFFICES ASSUME TypeOK, SessionInv, HandlingInv, PlaceInv, [Next]_vars
             PROVE SessionInv'
  OBVIOUS
<1>s. ASSUME NEW ok \in BOOLEAN, SyncBinlogInfo(ok),
             phase' # "rows", ok => phase' # "down"
      PROVE SessionInv'
  <2>1. at' \in Position /\ db'.at = SyncTo /\ db'.at # NoPos /\ conn' = ok
    BY <1>s, SyncIs
  <2>2. ok => /\ feed'.from \in Position /\ feed'.pre = "rotate"
              /\ \A i \in DOMAIN Binlog : i >= feed'.next => PosLess(db'.at, EndOf(i))
    BY <1>s, <2>1, SyncIs DEF Feed
  <2>3. QED
    BY <1>s, <2>1, <2>2 DEF SessionInv
<1>d. ASSUME CanRead, feed' = FeedAfter(feed.next), db' = db, conn' = conn, phase' # "down",
             phase' = "rows" => mapped',
             \/ at' = [at EXCEPT !.pos = Binlog[feed.next].end]
             \/ /\ Binlog[feed.next].kind = "rotate"
                /\ at' = [name |-> at.name + 1, pos |-> 0]
      PROVE SessionInv'
  <2> DEFINE i == feed.next
  <2>1. /\ i \in DOMAIN Binlog /\ at \in Position /\ at.name = Binlog[i].file
        /\ \A m \in DOMAIN Binlog : m >= i + 1 => PosLess(db.at, EndOf(m))
    BY <1>d, ReadIs
  <2>2. at' \in Position
    BY <1>d, <2>1, ReadIs, BinlogTypes DEF Position
  <2>3. /\ feed'.from \in Position /\ feed'.pre # "format" /\ feed'.next = i + 1
        /\ feed'.pre = "none" /\ i + 1 <= Len(Binlog) => Binlog[i + 1].file = Binlog[i].file
    BY <1>d, <2>1, FeedAfterIs DEF Feed
  <2>4. ASSUME feed'.pre = "none", feed'.next <= Len(Binlog) PROVE at'.name = Binlog[feed'.next].file
    <3>1. Binlog[i + 1].file = Binlog[i].file
      BY <2>3, <2>4
    <3>2. Binlog[i].kind # "rotate"
      <4>1. i < Len(Binlog) /\ Binlog[i].file \in Nat
        BY <2>1, <2>3, <2>4, BinlogTypes
      <4>2. QED
        BY <2>1, <3>1, <4>1, BinlogAssumption
    <3>3. at'.name = at.name
      BY <1>d, <2>1, <3>2 DEF Position
    <3>4. QED
      BY <2>1, <2>3, <3>1, <3>3
  <2>5. conn /\ db.at # NoPos
    BY <1>d DEF CanRead, SessionInv
  <2>6. QED
    BY <1>d, <2>1, <2>2, <2>3, <2>4, <2>5 DEF SessionInv
<1>1. CASE MasterWrites
  BY <1>1 DEF MasterWrites, SessionInv
<1>2. ASSUME NEW ok \in BOOLEAN, Start(ok) PROVE SessionInv'
  BY <1>2, <1>s DEF Start
<1>3. ASSUME NEW ok \in BOOLEAN, Reload(ok) PROVE SessionInv'
  BY <1>3, <1>s DEF Reload
<1>4. ASSUME NEW ok \in BOOLEAN, Reconnect(ok) PROVE SessionInv'
  BY <1>4, <1>s DEF Reconnect
<1>5. CASE Crash
  BY <1>5 DEF Crash, SessionInv
<1>6. CASE ReadFails
  BY <1>6, ReadErrorIs DEF ReadFails, SessionInv
<1>7. CASE ReadTimesOut
  BY <1>7, ReadErrorIs DEF ReadTimesOut, SessionInv
<1>8. CASE FakeRotate
  <2>1. feed'.pre = "format" /\ feed'.next = feed.next /\ feed'.from = feed.from
    BY <1>8 DEF FakeRotate, TypeOK
  <2>2. QED
    BY <1>8, <2>1 DEF FakeRotate, SessionInv
<1>9. CASE FormatDescription
  <2>1. at.name = feed.from.name /\ at \in Position /\ feed.from \in Position
    BY <1>9 DEF FormatDescription, SessionInv
  <2>2. at' \in Position /\ at'.name = feed.from.name
    BY <1>9, <2>1 DEF FormatDescription, Position
  <2>3. /\ feed' \in Feed /\ feed'.next = feed.next /\ feed'.pre # "format"
        /\ feed'.pre = "none" /\ feed.next <= Len(Binlog) =>
             Binlog[feed.next].file = feed.from.name
    BY <1>9, <2>1, TypeFeed, FeedInIs DEF FormatDescription, Position
  <2>4. QED
    BY <1>9, <2>2, <2>3 DEF FormatDescription, SessionInv, Feed
<1>10. CASE DispatchOther
  BY <1>10, <1>d DEF DispatchOther, CanRead
<1>11. CASE DispatchRotate
  BY <1>11, <1>d DEF DispatchRotate, CanRead
<1>12. CASE DispatchTableMap
  BY <1>12, <1>d DEF DispatchTableMap, CanRead
<1>13. CASE DispatchRows
  BY <1>13, <1>d DEF DispatchRows, CanRead
<1>14. CASE HandleImage
  <2>1. conn /\ mapped /\ at \in Position /\ db.at # NoPos
    BY <1>14 DEF HandleImage, SessionInv
  <2>2. phase' # "down" /\ (phase' = "rows" => phase = "rows")
    BY <1>14 DEF HandleImage
  <2>3. db'.at = db.at \/ db'.at = at
    BY <1>14 DEF HandleImage
  <2>4. ASSUME NEW i \in DOMAIN Binlog, i >= feed.next PROVE PosLess(at, EndOf(i))
    <3>1. ev \in DOMAIN Binlog /\ at = EndOf(ev) /\ feed.next = ev + 1
      BY <1>14 DEF HandleImage, HandlingInv, TypeOK
    <3>2. ~PosLess(EndOf(ev), EndOf(ev))
      BY <3>1, BinlogTypes, EndOrder
    <3>3. QED
      BY <2>4, <3>1, <3>2, BinlogTypes, InFront
  <2>5. db'.at # NoPos /\ \A i \in DOMAIN Binlog : i >= feed.next => PosLess(db'.at, EndOf(i))
    BY <2>1, <2>3, <2>4, NoPosAssumption DEF SessionInv
  <2>6. QED
    BY <1>14, <2>1, <2>2, <2>5 DEF HandleImage, SessionInv
<1>15. CASE UNCHANGED vars
  BY <1>15 DEF vars, SessionInv
<1>16. QED
  BY <1>1, <1>2, <1>3, <1>4, <1>5, <1>6, <1>7, <1>8, <1>9, <1>10, <1>11, <1>12,
     <1>13, <1>14, <1>15 DEF Next, ReadEvent

-----------------------------------------------------------------------------
(* The rows in the store, and those of the event in hand. *)

(* What an image adds to the store, if anything. *)
LEMMA StoreOfImage ==
  ASSUME TypeOK, SessionInv, HandlingInv, HandleImage
  PROVE  /\ ev \in DOMAIN Binlog /\ at = EndOf(ev) /\ j \in Nat
         /\ db.at \in Position /\ db'.at \in {db.at, at}
         /\ db.rows \in Seq((DOMAIN Binlog) \X Nat)
         /\ IF Selected(Binlog[ev].kind, j)
            THEN db' = [at |-> EndOf(ev), rows |-> Append(db.rows, <<ev, j>>)]
            ELSE db' = db
<1>1. ev \in DOMAIN Binlog /\ at = EndOf(ev) /\ j \in Nat
  BY BinlogTypes DEF HandleImage, HandlingInv, TypeOK
<1>2. db.at \in Position
  BY DEF HandleImage, SessionInv, TypeOK
<1>3. QED
  BY <1>1, <1>2 DEF HandleImage, TypeOK

LEMMA StoredGrows ==
  ASSUME TypeOK, SessionInv, HandlingInv, HandleImage
  PROVE  /\ Stored \subseteq Stored'
         /\ Selected(Binlog[ev].kind, j) => <<ev, j>> \in Stored'
<1>1. CASE Selected(Binlog[ev].kind, j)
  <2>1. db'.rows = Append(db.rows, <<ev, j>>) /\ db.rows \in Seq((DOMAIN Binlog) \X Nat)
    BY <1>1, StoreOfImage
  <2>2. \A k \in DOMAIN db.rows : k \in DOMAIN db'.rows /\ db'.rows[k] = db.rows[k]
    BY <2>1
  <2>3. Len(db.rows) + 1 \in DOMAIN db'.rows /\ db'.rows[Len(db.rows) + 1] = <<ev, j>>
    BY <2>1
  <2>4. QED
    BY <2>2, <2>3 DEF Stored
<1>2. CASE ~Selected(Binlog[ev].kind, j)
  BY <1>2, StoreOfImage DEF Stored
<1>3. QED
  BY <1>1, <1>2

(* The rows after an image, one by one. *)
LEMMA RowsOfImage ==
  ASSUME TypeOK, SessionInv, HandlingInv, HandleImage, NEW k \in DOMAIN db'.rows
  PROVE  \/ k \in DOMAIN db.rows /\ db'.rows[k] = db.rows[k]
         \/ /\ Selected(Binlog[ev].kind, j) /\ k = Len(db.rows) + 1
            /\ db'.rows[k] = <<ev, j>>
<1>1. CASE Selected(Binlog[ev].kind, j)
  <2>1. db'.rows = Append(db.rows, <<ev, j>>) /\ db.rows \in Seq((DOMAIN Binlog) \X Nat)
    BY <1>1, StoreOfImage
  <2>2. QED
    BY <1>1, <2>1
<1>2. CASE ~Selected(Binlog[ev].kind, j)
  BY <1>2, StoreOfImage
<1>3. QED
  BY <1>1, <1>2

LEMMA HandlingStep ==
  TypeOK /\ SessionInv /\ HandlingInv /\ StoreInv /\ [Next]_vars => HandlingInv'
<1> SUFFICES ASSUME TypeOK, SessionInv, HandlingInv, StoreInv, [Next]_vars, phase' = "rows"
             PROVE HandlingInv'
  BY DEF HandlingInv
<1>1. CASE UNCHANGED <<phase, ev, j, at, feed, db>>
  BY <1>1 DEF HandlingInv, Stored
<1>2. CASE DispatchRows
  <2> DEFINE i == feed.next
  <2>1. CanRead /\ i \in DOMAIN Binlog /\ phase = "loop"
    BY <1>2, ReadIs DEF DispatchRows, CanRead
  <2>2. ev' = i /\ j' = 1 /\ db' = db /\ Binlog[i].kind \in RowsKind
    BY <1>2, <2>1 DEF DispatchRows
  <2>3. at' = EndOf(i) /\ feed'.next = i + 1
    BY <1>2, <2>1, ReadIs, FeedAfterIs DEF DispatchRows
  <2>4. PosLess(db.at, EndOf(i)) /\ db.at \in Position
    BY <2>1, ReadIs
  <2>5. ASSUME NEW k \in DOMAIN db.rows PROVE db.rows[k][1] < i
    <3> DEFINE e == db.rows[k][1]
    <3>1. e \in DOMAIN Binlog /\ ~PosLess(db.at, EndOf(e))
      BY BinlogTypes DEF StoreInv, Reached, TypeOK
    <3>2. PosLess(EndOf(e), EndOf(i))
      BY <2>1, <2>4, <3>1, BinlogTypes, PositionTransitive
    <3>3. QED
      BY <2>1, <3>1, <3>2, EndOrder
  <2>6. QED
    BY <2>2, <2>3, <2>4, <2>5 DEF HandlingInv
<1>3. CASE HandleImage
  <2>1. ev' = ev /\ j' = j + 1 /\ at' = at /\ feed' = feed /\ phase = "rows"
    BY <1>3 DEF HandleImage
  <2>2. j \in Nat /\ ev \in DOMAIN Binlog /\ ev \in Nat
    BY <1>3, StoreOfImage, BinlogTypes
  <2>3. db'.at = at \/ PosLess(db'.at, at)
    BY <1>3, <2>1, StoreOfImage DEF HandlingInv
  <2>4. ASSUME NEW k \in DOMAIN db'.rows
        PROVE  db'.rows[k][1] < ev \/ (db'.rows[k][1] = ev /\ db'.rows[k][2] < j + 1)
    <3>1. CASE k \in DOMAIN db.rows /\ db'.rows[k] = db.rows[k]
      <4>1. db.rows[k] \in (DOMAIN Binlog) \X Nat
        BY <3>1 DEF TypeOK
      <4>2. db.rows[k][2] \in Nat
        BY <4>1
      <4>3. QED
        BY <2>1, <2>2, <3>1, <4>2 DEF HandlingInv
    <3>2. CASE db'.rows[k] = <<ev, j>>
      BY <2>2, <3>2
    <3>3. QED
      BY <1>3, <3>1, <3>2, RowsOfImage
  <2>5. ASSUME NEW n \in 1 .. j, Selected(Binlog[ev].kind, n) PROVE <<ev, n>> \in Stored'
    <3>1. n \in 1 .. j - 1 \/ n = j
      BY <2>2
    <3>2. QED
      BY <1>3, <2>1, <2>5, <3>1, StoredGrows DEF HandlingInv
  <2>6. 1 .. j' - 1 = 1 .. j
    BY <2>1, <2>2
  <2>7. QED
    BY <2>1, <2>3, <2>4, <2>5, <2>6 DEF HandlingInv
<1>4. QED
  BY <1>1, <1>2, <1>3
     DEF Next, ReadEvent, MasterWrites, Start, Reload, Reconnect, Crash, ReadFails,
         ReadTimesOut, FakeRotate, FormatDescription, DispatchOther, DispatchRotate,
         DispatchTableMap, CanRead, vars

LEMMA StoreStep ==
  TypeOK /\ SessionInv /\ HandlingInv /\ StoreInv /\ PlaceInv /\ [Next]_vars => StoreInv'
<1> SUFFICES ASSUME TypeOK, SessionInv, HandlingInv, StoreInv, PlaceInv, [Next]_vars
             PROVE StoreInv'
  OBVIOUS
<1>1. CASE UNCHANGED db
  BY <1>1 DEF StoreInv, RowsInBinlogOrder, Reached
<1>2. ASSUME NEW ok \in BOOLEAN, SyncBinlogInfo(ok) PROVE StoreInv'
  <2>1. db'.rows = db.rows /\ (db.at # NoPos => db'.at = db.at)
    BY <1>2, SyncIs
  <2>2. QED
    BY <2>1 DEF StoreInv, RowsInBinlogOrder, Reached
<1>3. CASE HandleImage
  <2>1. /\ ev \in DOMAIN Binlog /\ at = EndOf(ev) /\ j \in Nat /\ ev \in Nat
        /\ EndOf(ev) \in Position /\ db.at \in Position
        /\ db.at = at \/ PosLess(db.at, at)
        /\ db.rows \in Seq((DOMAIN Binlog) \X Nat)
    BY <1>3, StoreOfImage, BinlogTypes DEF HandlingInv, HandleImage
  <2>2. ~PosLess(db'.at, db.at) /\ db'.at \in Position
    BY <1>3, <2>1, StoreOfImage, PositionOrder
  <2>3. ASSUME NEW a \in DOMAIN db'.rows, NEW b \in DOMAIN db'.rows, a < b
        PROVE  \/ db'.rows[a][1] < db'.rows[b][1]
               \/ db'.rows[a][1] = db'.rows[b][1] /\ db'.rows[a][2] < db'.rows[b][2]
    <3>1. CASE b \in DOMAIN db.rows /\ db'.rows[b] = db.rows[b]
      <4>1. a \in DOMAIN db.rows /\ db'.rows[a] = db.rows[a]
        BY <1>3, <2>1, <2>3, <3>1, RowsOfImage
      <4>2. QED
        BY <2>3, <3>1, <4>1 DEF StoreInv, RowsInBinlogOrder
    <3>2. CASE b = Len(db.rows) + 1 /\ db'.rows[b] = <<ev, j>>
      <4>1. a \in DOMAIN db.rows /\ db'.rows[a] = db.rows[a]
        BY <1>3, <2>1, <2>3, <3>2, RowsOfImage
      <4>2. db.rows[a][1] < ev \/ (db.rows[a][1] = ev /\ db.rows[a][2] < j)
        BY <1>3, <4>1 DEF HandlingInv, HandleImage
      <4>3. QED
        BY <3>2, <4>1, <4>2
    <3>3. QED
      BY <1>3, <3>1, <3>2, RowsOfImage
  <2>4. ASSUME NEW k \in DOMAIN db'.rows
        PROVE  db'.at # NoPos /\ ~PosLess(db'.at, EndOf(db'.rows[k][1]))
    <3>1. CASE k \in DOMAIN db.rows /\ db'.rows[k] = db.rows[k]
      <4> DEFINE e == db.rows[k][1]
      <4>1. e \in DOMAIN Binlog
        BY <2>1, <3>1
      <4>2. ~PosLess(db.at, EndOf(e))
        BY <3>1 DEF StoreInv, Reached
      <4>3. QED
        BY <2>1, <2>2, <3>1, <4>1, <4>2, BinlogTypes, PositionTransitive, NoPosAssumption
    <3>2. CASE Selected(Binlog[ev].kind, j) /\ db'.rows[k] = <<ev, j>>
      <4>1. db'.at = EndOf(ev)
        BY <1>3, <3>2, StoreOfImage
      <4>2. QED
        BY <2>1, <3>2, <4>1, PositionOrder, NoPosAssumption
    <3>3. QED
      BY <1>3, <3>1, <3>2, RowsOfImage
  <2>5. QED
    BY <2>3, <2>4 DEF StoreInv, RowsInBinlogOrder, Reached
<1>4. QED
  BY <1>1, <1>2, <1>3
     DEF Next, ReadEvent, MasterWrites, Start, Reload, Reconnect, Crash, ReadFails,
         ReadTimesOut, FakeRotate, FormatDescription, DispatchOther, DispatchRotate,
         DispatchTableMap, DispatchRows, vars

-----------------------------------------------------------------------------
(* Where the stored position is, and what a restart there cuts off. *)

LEMMA PlaceStep ==
  TypeOK /\ SessionInv /\ HandlingInv /\ PlaceInv /\ [Next]_vars => PlaceInv'
<1> SUFFICES ASSUME TypeOK, SessionInv, HandlingInv, PlaceInv, [Next]_vars
             PROVE PlaceInv'
  OBVIOUS
<1>1. CASE UNCHANGED <<written, db, first>>
  BY <1>1 DEF PlaceInv
<1>2. CASE MasterWrites
  BY <1>2 DEF MasterWrites, PlaceInv
<1>3. ASSUME NEW ok \in BOOLEAN, SyncBinlogInfo(ok), written' = written PROVE PlaceInv'
  <2>1. CASE db.at = NoPos
    <3>1. first' = SyncTo /\ db'.at = SyncTo /\ SyncTo # NoPos /\ Boundary(SyncTo)
      BY <1>3, <2>1, SyncIs
    <3>2. QED
      BY <1>3, <3>1 DEF PlaceInv, Boundary
  <2>2. CASE db.at # NoPos
    <3>1. first' = first /\ db'.at = db.at
      BY <1>3, <2>2, SyncIs
    <3>2. QED
      BY <1>3, <3>1 DEF PlaceInv
  <2>3. QED
    BY <2>1, <2>2
<1>4. CASE HandleImage
  <2>1. ev \in DOMAIN Binlog /\ at = EndOf(ev) /\ db'.at \in {db.at, at}
        /\ Binlog[ev].kind \in RowsKind /\ at \in Position /\ db.at # NoPos
    BY <1>4, StoreOfImage DEF HandlingInv, HandleImage, SessionInv
  <2>2. db'.at = first \/ \E e \in DOMAIN Binlog : Binlog[e].kind \in RowsKind /\ EndOf(e) = db'.at
    BY <2>1 DEF PlaceInv
  <2>3. db'.at # NoPos
    BY <2>1, NoPosAssumption
  <2>4. written' = written /\ first' = first
    BY <1>4 DEF HandleImage
  <2>5. QED
    BY <2>1, <2>2, <2>3, <2>4 DEF PlaceInv
<1>5. QED
  BY <1>1, <1>2, <1>3, <1>4
     DEF Next, ReadEvent, Start, Reload, Reconnect, Crash, ReadFails,
         ReadTimesOut, FakeRotate, FormatDescription, DispatchOther, DispatchRotate,
         DispatchTableMap, DispatchRows, vars

LEMMA CutStep ==
  TypeOK /\ SessionInv /\ HandlingInv /\ PlaceInv /\ CutInv /\ [Next]_vars => CutInv'
<1> SUFFICES ASSUME TypeOK, SessionInv, HandlingInv, PlaceInv, CutInv, [Next]_vars
             PROVE CutInv'
  OBVIOUS
<1> DEFINE Known == db.at = first \/ \E c \in cut : Binlog[c].kind \in RowsKind /\ EndOf(c) = db.at
           Unmapped == \A m \in DOMAIN Binlog :
             m < feed.next /\ PosLess(db.at, EndOf(m)) => Binlog[m].kind # "map"
<1>c. ASSUME cut' = cut \cup Cut, first' = first, db'.at = db.at PROVE Known'
  BY <1>c DEF PlaceInv, Cut
<1>s. ASSUME NEW ok \in BOOLEAN, SyncBinlogInfo(ok)
      PROVE  /\ db.at # NoPos => first' = first /\ db'.at = db.at
             /\ db.at = NoPos => db'.at = first'
             /\ conn' => Unmapped'
  <2>1. ASSUME conn', NEW m \in DOMAIN Binlog, m < feed'.next PROVE ~PosLess(db'.at, EndOf(m))
    <3>1. /\ db'.at = SyncTo
          /\ conn' => feed' \in Feed /\ (m >= feed'.next <=> PosLess(SyncTo, EndOf(m)))
      BY <1>s, SyncIs
    <3>2. feed'.next \in Int /\ m \in Int
      BY <2>1, <3>1, BinlogTypes DEF Feed
    <3>3. QED
      BY <2>1, <3>1, <3>2
  <2>2. QED
    BY <1>s, <2>1, SyncIs
<1>d. ASSUME CanRead, feed' = FeedAfter(feed.next), Binlog[feed.next].kind # "map",
             UNCHANGED <<mapped, conn, db, first, cut>>, phase' # "down"
      PROVE CutInv'
  <2>1. feed.next \in Int /\ feed'.next = feed.next + 1 /\ phase # "down"
    BY <1>d, ReadIs, FeedAfterIs, BinlogTypes DEF CanRead
  <2>2. ASSUME Unmapped PROVE Unmapped'
    BY <1>d, <2>1, <2>2, BinlogTypes
  <2>3. QED
    BY <1>d, <2>1, <2>2 DEF CutInv
<1>1. CASE MasterWrites
  BY <1>1 DEF MasterWrites, CutInv
<1>2. ASSUME NEW ok \in BOOLEAN, Start(ok) PROVE CutInv'
  <2>1. SyncBinlogInfo(ok) /\ cut' = cut /\ phase = "down"
    BY <1>2 DEF Start
  <2>2. Known'
    BY <1>s, <2>1 DEF CutInv
  <2>3. QED
    BY <1>s, <2>1, <2>2 DEF CutInv
<1>3. ASSUME NEW ok \in BOOLEAN, Reload(ok) PROVE CutInv'
  <2>1. SyncBinlogInfo(ok) /\ cut' = cut \cup Cut /\ db.at # NoPos
    BY <1>3 DEF Reload, SessionInv
  <2>2. QED
    BY <1>c, <1>s, <2>1 DEF CutInv
<1>4. ASSUME NEW ok \in BOOLEAN, Reconnect(ok) PROVE CutInv'
  <2>1. SyncBinlogInfo(ok) /\ cut' = cut /\ mapped' = mapped /\ phase' # "down" /\ db.at # NoPos
    BY <1>4 DEF Reconnect, SessionInv
  <2>2. QED
    BY <1>s, <2>1 DEF CutInv
<1>5. CASE Crash
  BY <1>5, <1>c DEF Crash, CutInv
<1>6. CASE ReadFails
  BY <1>6, ReadErrorIs DEF ReadFails, CutInv
<1>7. CASE ReadTimesOut
  BY <1>7, ReadErrorIs DEF ReadTimesOut, CutInv
<1>8. CASE FakeRotate
  <2>1. feed'.next = feed.next
    BY <1>8 DEF FakeRotate, TypeOK
  <2>2. QED
    BY <1>8, <2>1 DEF FakeRotate, CutInv
<1>9. CASE FormatDescription
  <2>1. feed'.next = feed.next
    BY <1>9, TypeFeed, FeedInIs DEF FormatDescription, SessionInv, Position
  <2>2. QED
    BY <1>9, <2>1 DEF FormatDescription, CutInv
<1>10. CASE DispatchOther
  BY <1>10, <1>d DEF DispatchOther, CanRead
<1>11. CASE DispatchRotate
  BY <1>11, <1>d DEF DispatchRotate, CanRead
<1>12. CASE DispatchTableMap
  BY <1>12 DEF DispatchTableMap, CanRead, CutInv
<1>13. CASE DispatchRows
  BY <1>13, <1>d DEF DispatchRows, CanRead, RowsKind
<1>14. CASE HandleImage
  BY <1>14 DEF HandleImage, SessionInv, CutInv
<1>15. CASE UNCHANGED vars
  BY <1>15 DEF vars, CutInv
<1>16. QED
  BY <1>1, <1>2, <1>3, <1>4, <1>5, <1>6, <1>7, <1>8, <1>9, <1>10, <1>11, <1>12,
     <1>13, <1>14, <1>15 DEF Next, ReadEvent

(* A rows event that this run has no table map for follows a restart under *)
(* the same table map.                                                     *)
LEMMA UnmappedIsCut ==
  ASSUME TypeOK, SessionInv, PlaceInv, CutInv, CanRead, ~mapped,
         Binlog[feed.next].kind \in RowsKind
  PROVE  \E c \in cut : SameTableMap(c, feed.next)
<1> DEFINE i == feed.next
<1>1. /\ i \in DOMAIN Binlog /\ i \in Nat
      /\ db.at \in Position /\ PosLess(db.at, EndOf(i))
  BY ReadIs, BinlogTypes
<1>2. \A m \in DOMAIN Binlog : m < i /\ PosLess(db.at, EndOf(m)) => Binlog[m].kind # "map"
  BY DEF CutInv, CanRead
<1>3. db.at = first \/ \E c \in cut : Binlog[c].kind \in RowsKind /\ EndOf(c) = db.at
  BY DEF CutInv
<1>4. ASSUME db.at = first PROVE FALSE
  <2>1. PICK w \in 0 .. Len(Binlog) :
          /\ w = 0 \/ Binlog[w].kind \in {"commit", "rotate"}
          /\ \A k \in DOMAIN Binlog : k > w <=> PosLess(db.at, EndOf(k))
    BY <1>1, <1>4, NoPosAssumption DEF PlaceInv, Boundary
  <2>2. PICK m \in 1 .. i - 1 :
          /\ Binlog[m].kind = "map"
          /\ \A k \in m .. i : Binlog[k].kind \notin {"commit", "rotate"}
    BY <1>1, TableMapAssumption
  <2>3. i > w /\ w \in Nat /\ m \in DOMAIN Binlog /\ m < i
    BY <1>1, <2>1, BinlogTypes
  <2>4. m > w
    <3>1. w # 0 => w \notin m .. i
      BY <2>1, <2>2
    <3>2. QED
      BY <1>1, <2>3, <3>1
  <2>5. QED
    BY <1>2, <2>1, <2>2, <2>3, <2>4
<1>5. ASSUME NEW c \in cut, Binlog[c].kind \in RowsKind, EndOf(c) = db.at
      PROVE  SameTableMap(c, i)
  <2>1. c \in DOMAIN Binlog /\ c \in Nat /\ c < i
    BY <1>1, <1>5, BinlogTypes, EndOrder DEF TypeOK
  <2>2. ASSUME NEW m \in c .. i PROVE Binlog[m].kind # "map"
    <3>1. CASE m \in {c, i}
      BY <1>5, <3>1 DEF RowsKind
    <3>2. CASE m \notin {c, i}
      <4>1. m \in DOMAIN Binlog /\ c < m /\ m < i
        BY <1>1, <2>1, <3>2, BinlogTypes
      <4>2. PosLess(EndOf(c), EndOf(m))
        BY <2>1, <4>1, EndOrder
      <4>3. QED
        BY <1>2, <1>5, <4>1, <4>2
    <3>3. QED
      BY <3>1, <3>2
  <2>3. QED
    BY <1>1, <2>1, <2>2 DEF SameTableMap
<1>6. QED
  BY <1>3, <1>4, <1>5

LEMMA SettledKept ==
  ASSUME NEW i, Settled(i), cut \subseteq cut', Stored \subseteq Stored'
  PROVE  Settled(i)'
BY DEF Settled

LEMMA LossStep == IInv /\ [Next]_vars => LossInv'
<1> SUFFICES ASSUME IInv, [Next]_vars, NEW i \in DOMAIN Binlog,
                    Owed(i)', ~(phase' = "rows" /\ i = ev')
             PROVE  /\ Reached(i)' => Settled(i)'
                    /\ conn' /\ i < feed'.next => Settled(i)'
  BY DEF LossInv
<1> USE DEF IInv, OrderInv
<1>0. i \in Nat /\ EndOf(i) \in Position
  BY BinlogTypes
<1>l. Owed(i) /\ ~(phase = "rows" /\ i = ev) =>
        /\ Reached(i) => Settled(i)
        /\ conn /\ i < feed.next => Settled(i)
  BY DEF LossInv
<1>r. Binlog[i].kind \in RowsKind
  BY DEF Owed
<1>s. ASSUME NEW ok \in BOOLEAN, SyncBinlogInfo(ok), phase # "rows", cut \subseteq cut'
      PROVE  /\ Reached(i)' => Settled(i)'
             /\ conn' /\ i < feed'.next => Settled(i)'
  <2>1. /\ db'.at = SyncTo /\ SyncTo # NoPos /\ db'.rows = db.rows
        /\ conn' /\ i < feed'.next => ~PosLess(SyncTo, EndOf(i))
    <3>1. /\ db'.at = SyncTo /\ SyncTo # NoPos /\ db'.rows = db.rows
          /\ conn' => feed' \in Feed /\ (i >= feed'.next <=> PosLess(SyncTo, EndOf(i)))
      BY <1>s, SyncIs
    <3>2. conn' => feed'.next \in Int
      BY <3>1, BinlogTypes DEF Feed
    <3>3. QED
      BY <1>0, <3>1, <3>2
  <2>2. Reached(i)' => ~PosLess(SyncTo, EndOf(i))
    BY <2>1 DEF Reached
  <2>3. ASSUME ~PosLess(SyncTo, EndOf(i)) PROVE Settled(i)'
    <3>1. db.at # NoPos /\ first' = first
      <4>1. db.at = NoPos => first' = SyncTo
        BY <1>s, SyncIs
      <4>2. db.at # NoPos => first' = first
        BY <1>s, SyncIs
      <4>3. QED
        BY <2>3, <4>1, <4>2 DEF Owed
    <3>2. SyncTo = db.at /\ Owed(i)
      BY <3>1 DEF SyncTo, Owed
    <3>3. Settled(i)
      BY <1>l, <1>s, <2>3, <3>1, <3>2 DEF Reached
    <3>4. Stored \subseteq Stored'
      BY <2>1 DEF Stored
    <3>5. QED
      BY <1>s, <3>3, <3>4, SettledKept
  <2>4. QED
    BY <2>1, <2>2, <2>3
<1>k. ASSUME UNCHANGED <<db, first, cut>>, phase # "rows" \/ (phase' = "rows" /\ ev' = ev),
             conn' /\ i < feed'.next => conn /\ i < feed.next
      PROVE  /\ Reached(i)' => Settled(i)'
             /\ conn' /\ i < feed'.next => Settled(i)'
  <2>1. Owed(i) /\ (Reached(i)' => Reached(i)) /\ Stored' = Stored
    BY <1>k DEF Owed, Reached, Stored
  <2>2. QED
    BY <1>k, <1>l, <2>1, SettledKept
<1>d. ASSUME CanRead, feed' = FeedAfter(feed.next), i # feed.next
      PROVE  conn' /\ i < feed'.next => conn /\ i < feed.next
  <2>1. feed.next \in Int /\ feed'.next = feed.next + 1 /\ conn
    BY <1>d, ReadIs, FeedAfterIs, BinlogTypes DEF CanRead
  <2>2. QED
    BY <1>0, <1>d, <2>1
<1>1. CASE MasterWrites
  BY <1>1, <1>k DEF MasterWrites
<1>2. ASSUME NEW ok \in BOOLEAN, Start(ok)
      PROVE  (Reached(i)' => Settled(i)') /\ (conn' /\ i < feed'.next => Settled(i)')
  BY <1>2, <1>s DEF Start
<1>3. ASSUME NEW ok \in BOOLEAN, Reload(ok)
      PROVE  (Reached(i)' => Settled(i)') /\ (conn' /\ i < feed'.next => Settled(i)')
  BY <1>3, <1>s DEF Reload
<1>4. ASSUME NEW ok \in BOOLEAN, Reconnect(ok)
      PROVE  (Reached(i)' => Settled(i)') /\ (conn' /\ i < feed'.next => Settled(i)')
  BY <1>4, <1>s DEF Reconnect
<1>5. CASE Crash
  <2>1. ~conn' /\ cut \subseteq cut' /\ Cut \subseteq cut' /\ db' = db /\ Owed(i)
    BY <1>5 DEF Crash, Owed
  <2>2. Stored' = Stored
    BY <2>1 DEF Stored
  <2>3. ASSUME Reached(i)' PROVE Settled(i)'
    <3>1. Reached(i)
      BY <2>1, <2>3 DEF Reached
    <3>2. CASE phase = "rows" /\ i = ev
      <4>1. db.at = EndOf(i)
        BY <1>0, <3>1, <3>2, PositionOrder DEF HandlingInv, Reached, TypeOK
      <4>2. i \in cut'
        BY <1>r, <2>1, <4>1 DEF Cut
      <4>3. SameTableMap(i, i)
        BY <1>0, <1>r DEF SameTableMap, RowsKind
      <4>4. QED
        BY <4>2, <4>3 DEF Settled
    <3>3. CASE ~(phase = "rows" /\ i = ev)
      BY <1>l, <2>1, <2>2, <3>1, <3>3, SettledKept
    <3>4. QED
      BY <3>2, <3>3
  <2>4. QED
    BY <2>1, <2>3
<1>6. CASE ReadFails
  BY <1>6, <1>k, ReadErrorIs DEF ReadFails
<1>7. CASE ReadTimesOut
  BY <1>7, <1>k, ReadErrorIs DEF ReadTimesOut
<1>8. CASE FakeRotate
  <2>1. feed'.next = feed.next
    BY <1>8 DEF FakeRotate, TypeOK
  <2>2. QED
    BY <1>8, <1>k, <2>1 DEF FakeRotate
<1>9. CASE FormatDescription
  <2>1. feed'.next = feed.next
    BY <1>9, TypeFeed, FeedInIs DEF FormatDescription, SessionInv, Position
  <2>2. QED
    BY <1>9, <1>k, <2>1 DEF FormatDescription
<1>10. CASE DispatchOther
  <2>1. i # feed.next
    BY <1>10, <1>r DEF DispatchOther, RowsKind
  <2>2. QED
    BY <1>10, <1>d, <1>k, <2>1 DEF DispatchOther, CanRead
<1>11. CASE DispatchRotate
  <2>1. i # feed.next
    BY <1>11, <1>r DEF DispatchRotate, RowsKind
  <2>2. QED
    BY <1>11, <1>d, <1>k, <2>1 DEF DispatchRotate, CanRead
<1>12. CASE DispatchTableMap
  <2>1. i # feed.next
    BY <1>12, <1>r DEF DispatchTableMap, RowsKind
  <2>2. QED
    BY <1>12, <1>d, <1>k, <2>1 DEF DispatchTableMap, CanRead
<1>13. CASE DispatchRows
  <2>1. CanRead /\ phase = "loop" /\ feed' = FeedAfter(feed.next)
        /\ UNCHANGED <<db, first, cut>> /\ Binlog[feed.next].kind \in RowsKind
        /\ (mapped => phase' = "rows" /\ ev' = feed.next)
    BY <1>13 DEF DispatchRows, CanRead
  <2>2. CASE i # feed.next
    BY <1>d, <1>k, <2>1, <2>2
  <2>3. CASE i = feed.next
    <3>1. ~mapped
      BY <2>1, <2>3
    <3>2. \E c \in cut : SameTableMap(c, i)
      BY <2>1, <2>3, <3>1, UnmappedIsCut
    <3>3. QED
      BY <2>1, <3>2 DEF Settled
  <2>4. QED
    BY <2>2, <2>3
<1>14. CASE HandleImage
  <2>1. /\ ev \in DOMAIN Binlog /\ ev \in Nat /\ at = EndOf(ev) /\ EndOf(ev) \in Position
        /\ feed.next = ev + 1 /\ feed' = feed /\ conn /\ Owed(i) /\ phase = "rows"
        /\ db.at \in Position /\ (db.at = at \/ PosLess(db.at, at))
        /\ db'.at \in {db.at, at} /\ cut' = cut
    BY <1>14, StoreOfImage, BinlogTypes DEF HandlingInv, HandleImage, SessionInv, Owed
  <2>2. Reached(i)' => i < feed.next
    <3>1. ~PosLess(EndOf(ev), db'.at)
      BY <2>1, PositionOrder
    <3>2. ASSUME Reached(i)' PROVE ~PosLess(EndOf(ev), EndOf(i))
      BY <1>0, <2>1, <3>1, <3>2, PositionTransitive DEF Reached
    <3>3. QED
      BY <1>0, <2>1, <3>2, EndOrder
  <2>3. ASSUME i < feed.next PROVE Settled(i)'
    <3>1. CASE i # ev
      BY <1>l, <1>14, <2>1, <2>3, <3>1, StoredGrows, SettledKept
    <3>2. CASE i = ev
      <4>1. j = Binlog[ev].images /\ j \in Nat
        BY <1>14, <2>1, <3>2, StoreOfImage DEF HandleImage
      <4>2. ASSUME NEW n \in ImagesOf(i) PROVE <<i, n>> \in Stored'
        <5>1. n \in 1 .. j /\ Selected(Binlog[ev].kind, n)
          BY <3>2, <4>1, <4>2 DEF ImagesOf
        <5>2. CASE n = j
          BY <1>14, <3>2, <5>1, <5>2, StoredGrows
        <5>3. CASE n # j
          <6>1. n \in 1 .. j - 1
            BY <4>1, <5>1, <5>3
          <6>2. <<ev, n>> \in Stored
            BY <2>1, <5>1, <6>1 DEF HandlingInv
          <6>3. QED
            BY <1>14, <3>2, <6>2, StoredGrows
        <5>4. QED
          BY <5>2, <5>3
      <4>3. QED
        BY <4>2 DEF Settled
    <3>3. QED
      BY <3>1, <3>2
  <2>4. QED
    BY <2>1, <2>2, <2>3
<1>15. CASE UNCHANGED vars
  BY <1>15, <1>k DEF vars
<1>16. QED
  BY <1>1, <1>2, <1>3, <1>4, <1>5, <1>6, <1>7, <1>8, <1>9, <1>10, <1>11, <1>12,
     <1>13, <1>14, <1>15 DEF Next, ReadEvent

-----------------------------------------------------------------------------
LEMMA InitInv == Init => IInv
<1> SUFFICES ASSUME Init PROVE IInv
  OBVIOUS
<1>1. TypeOK
  <2>1. feed \in [pre : {"none", "rotate", "format", "dead"}, next : 1 .. Len(Binlog) + 1,
                 from : Position \cup {NoPos}]
    BY BinlogTypes DEF Init
  <2>2. db \in [at : Position \cup {NoPos}, rows : Seq((DOMAIN Binlog) \X Nat)]
    BY DEF Init
  <2>3. written \in 0 .. Len(Binlog) /\ faults \in 0 .. MaxFaults
    BY BinlogTypes, MaxFaultsAssumption DEF Init
  <2>4. QED
    BY <2>1, <2>2, <2>3 DEF Init, TypeOK
<1>2. SessionInv /\ HandlingInv
  BY DEF Init, SessionInv, HandlingInv
<1>3. StoreInv
  BY DEF Init, StoreInv, RowsInBinlogOrder
<1>4. PlaceInv /\ CutInv /\ LossInv
  BY DEF Init, PlaceInv, CutInv, LossInv, Owed
<1>5. QED
  BY <1>1, <1>2, <1>3, <1>4 DEF IInv, OrderInv

LEMMA StepInv == IInv /\ [Next]_vars => IInv'
BY TypeStep, SessionStep, HandlingStep, StoreStep, PlaceStep, CutStep, LossStep
   DEF IInv, OrderInv

LEMMA Invariance == Spec => []IInv
BY InitInv, StepInv, PTL DEF Spec

(* The state keeps its type whatever the master writes and however often   *)
(* the connection, the configuration or the process is lost: mysync never  *)
(* holds a position or asks for an event that is not one of the binlog's.  *)
THEOREM TypeCorrect == Spec => []TypeOK
<1>1. IInv => TypeOK
  BY DEF IInv, OrderInv
<1>2. QED
  BY <1>1, Invariance, PTL

(* flush_row_info: rows are stored in binlog order and none twice, for     *)
(* every binlog and every number of lost connections, reloads and crashes. *)
THEOREM StoredInOrder == Spec => []RowsInBinlogOrder
<1>1. IInv => RowsInBinlogOrder
  BY DEF IInv, OrderInv, StoreInv
<1>2. QED
  BY <1>1, Invariance, PTL

(* sync_binlog_info and flush_row_info: a lost connection loses no row;    *)
(* only a restart or a reload inside an event, or between rows events      *)
(* under one table map, does.                                              *)
THEOREM NoSilentLoss == Spec => []LossOnlyWhereCut
<1>1. IInv => LossOnlyWhereCut
  <2> SUFFICES ASSUME IInv, NEW i \in DOMAIN Binlog, Owed(i), PosLess(EndOf(i), db.at)
               PROVE  Settled(i)
    BY DEF LossOnlyWhereCut, Settled
  <2> USE DEF IInv, OrderInv
  <2>1. db.at \in Position /\ EndOf(i) \in Position /\ i \in Nat
    BY BinlogTypes DEF PlaceInv, Owed, TypeOK
  <2>2. Reached(i)
    BY <2>1, PositionOrder, NoPosAssumption DEF Reached
  <2>3. ~(phase = "rows" /\ i = ev)
    BY <2>1, PositionOrder DEF HandlingInv
  <2>4. QED
    BY <2>2, <2>3 DEF LossInv
<1>2. QED
  BY <1>1, Invariance, PTL

(* The position in the database never goes back, although the one in       *)
(* memory does, at every ROTATE and format description event.              *)
THEOREM PositionAdvances == Spec => PositionOnlyAdvances
<1>1. IInv /\ [Next]_vars => [db.at # NoPos => db'.at = db.at \/ PosLess(db.at, db'.at)]_vars
  <2> SUFFICES ASSUME IInv, Next, db.at # NoPos
               PROVE  db'.at = db.at \/ PosLess(db.at, db'.at)
    OBVIOUS
  <2> USE DEF IInv, OrderInv
  <2>1. ASSUME NEW ok \in BOOLEAN, SyncBinlogInfo(ok) PROVE db'.at = db.at
    BY <2>1, SyncIs
  <2>2. CASE HandleImage
    BY <2>2, StoreOfImage DEF HandlingInv, HandleImage
  <2>3. CASE db' = db
    BY <2>3
  <2>4. QED
    BY <2>1, <2>2, <2>3
       DEF Next, ReadEvent, MasterWrites, Start, Reload, Reconnect, Crash, ReadFails,
           ReadTimesOut, FakeRotate, FormatDescription, DispatchOther, DispatchRotate,
           DispatchTableMap, DispatchRows
<1>2. QED
  BY <1>1, Invariance, PTL DEF Spec, PositionOnlyAdvances
=============================================================================
