--------------------------- MODULE TableMapProofs ---------------------------
(***************************************************************************)
(* What can make rows be dropped, or be decoded as what they are not, and  *)
(* what cannot, proved about TableMap for any tables, definitions and      *)
(* bounds.                                                                 *)
(***************************************************************************)
EXTENDS TableMap, TLAPS

Pending == {stream[k] : k \in DOMAIN stream}

(* An id belongs to one table, *)
IdInv ==
  /\ \A t \in Table : id[t] <= lastId
  /\ \A t, u \in Table : id[t] = id[u] /\ id[t] # 0 => t = u

(* and to one definition of it, also in the events that were not handled   *)
(* yet, in which the ids of a table do not go back.                        *)
StreamInv ==
  /\ \A e \in Pending :
       /\ e.id <= lastId /\ (id[e.table] # 0 => e.id <= id[e.table])
       /\ \A u \in Table : id[u] = e.id => u = e.table /\ ver[u] = e.ver
  /\ \A e, f \in Pending : e.id = f.id => e.table = f.table /\ e.ver = f.ver

OrderInv ==
  \A j, k \in DOMAIN stream :
    j < k /\ stream[j].table = stream[k].table => stream[j].id <= stream[k].id

(* No event of table t is to come, now or later, with an id below i, nor   *)
(* one of another table with the id i.                                     *)
Past(i, t) ==
  /\ \A u \in Table : id[u] # 0 => IF u = t THEN i <= id[u] ELSE i # id[u]
  /\ \A e \in Pending : IF e.table = t THEN i <= e.id ELSE i # e.id

(* An entry of ti_map was set for such an id. *)
HeldInv ==
  \A s \in 0 .. ti_map_prime - 1 :
    ti_map[s] # None =>
      \E i \in 1 .. lastId : i % ti_map_prime = s /\ Past(i, ti_map[s])

(* If table_id is in use for definition v of t and finds t, without a      *)
(* collision, then as many columns are known.                              *)
Known(table_id, t, v) ==
  ti_map[ms_table_info_map_get(table_id)] = t /\ ~Collides(table_id)
    => t \in early \/ cols[t].n = NCols[v]

KnownInv ==
  status = "runs" =>
    /\ \A e \in Pending : e.table \in Watched => Known(e.id, e.table, e.ver)
    /\ \A t \in Watched : id[t] # 0 => Known(id[t], t, ver[t])

WholeInv == \A t \in Watched : cols[t].whole => cols[t].n = NCols[cols[t].ver]

(* Rows are on their way behind the map of their table; once that map was  *)
(* handled, the entry of their id is set, unless the columns could not be  *)
(* read or there is no memory for the metadata.                            *)
MapsBefore(k, t) == {j \in 1 .. k - 1 : stream[j].type = "map" /\ stream[j].table = t}

MapAhead(k) ==
  \E j \in MapsBefore(k, stream[k].table) :
    /\ stream[j].id = stream[k].id
    /\ \A i \in MapsBefore(k, stream[k].table) : i <= j

Reachable(table_id, t) ==
  \/ ti_map[ms_table_info_map_get(table_id)] # None
  \/ ~cols[t].whole \/ ~meta[t].data \/ table_id >= IdSpace

MapDone(k) ==
  /\ MapsBefore(k, stream[k].table) = {}
  /\ Reachable(stream[k].id, stream[k].table)

RowsInv ==
  status = "runs" =>
    \A k \in DOMAIN stream :
      stream[k].type = "rows" /\ stream[k].table \in Watched => MapAhead(k) \/ MapDone(k)

Inv ==
  /\ TypeOK /\ IdInv /\ StreamInv /\ OrderInv /\ HeldInv /\ KnownInv /\ WholeInv

-----------------------------------------------------------------------------
LEMMA PendingHandled ==
  ASSUME NEW S, stream \in Seq(S), stream # <<>>
  PROVE  /\ Head(stream) \in Pending /\ Head(stream) \in S
         /\ Tail(stream) \in Seq(S) /\ Len(Tail(stream)) = Len(stream) - 1
         /\ stream' = Tail(stream) => Pending' \subseteq Pending
<1>1. Len(stream) \in Nat \ {0} /\ 1 \in DOMAIN stream
  OBVIOUS
<1>2. Head(stream) = stream[1] /\ stream[1] \in S
  BY <1>1
<1>3. /\ Tail(stream) \in Seq(S) /\ Len(Tail(stream)) = Len(stream) - 1
      /\ \A k \in DOMAIN Tail(stream) :
           k + 1 \in DOMAIN stream /\ Tail(stream)[k] = stream[k + 1]
  BY <1>1
<1>4. stream' = Tail(stream) => Pending' \subseteq Pending
  BY <1>3 DEF Pending
<1>5. QED
  BY <1>1, <1>2, <1>3, <1>4 DEF Pending

LEMMA PendingTyped ==
  ASSUME stream \in Seq(BinlogEvent)
  PROVE  /\ Pending \subseteq BinlogEvent
         /\ \A e \in Pending :
              e.id \in Nat \ {0} /\ e.table \in Table /\ e.ver \in Version
<1>1. Pending \subseteq BinlogEvent
  BY DEF Pending
<1>2. \A e \in BinlogEvent : e.id \in 1 .. MaxId /\ e.table \in Table /\ e.ver \in Version
  BY DEF BinlogEvent
<1>3. \A k \in 1 .. MaxId : k \in Nat \ {0}
  BY SizesAssumption
<1>4. QED
  BY <1>1, <1>2, <1>3

LEMMA ModRange ==
  ASSUME NEW k \in Nat, NEW n \in Nat \ {0}
  PROVE  k % n \in 0 .. n - 1 /\ k % n \in Nat /\ (k < n => k % n = k)
OBVIOUS

(* Where an id is entered and where it is looked up. *)
LEMMA Slots ==
  ASSUME NEW i \in Nat
  PROVE  /\ i % ti_map_prime \in 0 .. ti_map_prime - 1
         /\ ms_table_info_map_get(i) \in 0 .. ti_map_prime - 1
         /\ i < IdSpace => ms_table_info_map_get(i) = i % ti_map_prime
<1>1. i % IdSpace \in Nat /\ (i < IdSpace => i % IdSpace = i)
  BY SizesAssumption, ModRange
<1> DEFINE j == i % IdSpace
<1>2. j % ti_map_prime \in 0 .. ti_map_prime - 1 /\ i % ti_map_prime \in 0 .. ti_map_prime - 1
  <2> HIDE DEF j
  <2>1. j \in Nat
    BY <1>1 DEF j
  <2>2. QED
    BY <2>1, SizesAssumption, ModRange
<1>3. QED
  BY <1>1, <1>2 DEF ms_table_info_map_get

LEMMA InitInv == Init => Inv /\ RowsInv
<1> SUFFICES ASSUME Init PROVE Inv /\ RowsInv
  OBVIOUS
<1> USE WatchedAssumption, VersionAssumption, SizesAssumption
<1>1. Pending = {} /\ DOMAIN stream = {}
  BY DEF Init, Pending
<1>2. TypeOK
  BY DEF Init, TypeOK
<1>3. IdInv /\ StreamInv /\ OrderInv /\ HeldInv /\ RowsInv
  BY <1>1 DEF Init, IdInv, StreamInv, OrderInv, HeldInv, RowsInv
<1>4. KnownInv /\ WholeInv
  BY <1>1 DEF Init, KnownInv, WholeInv
<1>5. QED
  BY <1>2, <1>3, <1>4 DEF Inv

-----------------------------------------------------------------------------
(* A new id is above all others, and collides with the id of an entry it   *)
(* would find.                                                             *)
LEMMA OpenTableInv ==
  ASSUME Inv, NEW t \in Table, OpenTable(t)
  PROVE  Inv'
<1> USE WatchedAssumption, VersionAssumption, SizesAssumption
<1>t. /\ id \in [Table -> 0 .. MaxId] /\ lastId \in 0 .. MaxId
      /\ stream \in Seq(BinlogEvent) /\ ver \in [Table -> Version]
      /\ ti_map \in [0 .. ti_map_prime - 1 -> Watched \cup {None}]
  BY DEF Inv, TypeOK
<1>1. /\ lastId < MaxId /\ lastId' = lastId + 1
      /\ id' = [id EXCEPT ![t] = lastId + 1]
      /\ UNCHANGED <<ver, stream, cols, stale, meta, ti_map, status, early>>
  BY DEF OpenTable
<1>2. Pending' = Pending
  BY <1>1 DEF Pending
<1>3. TypeOK'
  <2>1. id' \in [Table -> 0 .. MaxId] /\ lastId' \in 0 .. MaxId
    BY <1>t, <1>1
  <2>2. QED
    BY <1>1, <2>1 DEF Inv, TypeOK, BinlogEvent
<1>4. \A u \in Table : id'[u] = IF u = t THEN lastId + 1 ELSE id[u]
  BY <1>t, <1>1
<1>5. IdInv'
  BY <1>t, <1>1, <1>4 DEF Inv, IdInv
<1>6. \A e \in Pending : e.id \in Nat \ {0} /\ e.table \in Table
  BY <1>t, PendingTyped
<1>7. \A e \in Pending : e.id <= lastId /\ e.id # lastId + 1
  BY <1>t, <1>6 DEF Inv, StreamInv
<1>8. StreamInv'
  BY <1>t, <1>1, <1>2, <1>4, <1>6, <1>7 DEF Inv, StreamInv
<1>9. OrderInv'
  BY <1>1 DEF Inv, OrderInv
<1>10. HeldInv'
  <2> SUFFICES ASSUME NEW s \in 0 .. ti_map_prime - 1, ti_map[s] # None
               PROVE  \E i \in 1 .. lastId' : i % ti_map_prime = s /\ Past(i, ti_map[s])'
    BY <1>1 DEF HeldInv
  <2>1. PICK i \in 1 .. lastId : i % ti_map_prime = s /\ Past(i, ti_map[s])
    BY DEF Inv, HeldInv
  <2>2. i \in 1 .. lastId' /\ i < lastId + 1 /\ i \in Nat
    BY <1>t, <1>1
  <2>3. \A u \in Table : id'[u] # 0 => IF u = ti_map[s] THEN i <= id'[u] ELSE i # id'[u]
    BY <1>4, <1>t, <2>1, <2>2 DEF Past
  <2>4. Past(i, ti_map[s])'
    BY <1>1, <1>2, <2>1, <2>3 DEF Past
  <2>5. QED
    BY <2>1, <2>2, <2>4
<1>11. \A i : Collides(i) => Collides(i)'
  BY <1>t, <1>1 DEF Collides, ms_table_info_map_get
<1>12. \A i, u, v : Known(i, u, v) => Known(i, u, v)'
  BY <1>1, <1>11 DEF Known, ms_table_info_map_get
<1>13. ASSUME t \in Watched PROVE Known(lastId, t, ver[t])'
  <2> DEFINE new == lastId + 1
             s == ms_table_info_map_get(new)
  <2>0. lastId' = new /\ new \in Nat
    BY <1>t, <1>1
  <2> SUFFICES ASSUME ti_map[s] = t PROVE \E i \in 1 .. lastId : i # new /\ i % ti_map_prime = s
    <3>1. (\E i \in 1 .. lastId : i # new /\ i % ti_map_prime = s) => Collides(lastId)'
      <4>1. \A i \in 1 .. lastId : i \in 1 .. lastId'
        BY <1>t, <1>1
      <4>2. s = (lastId' % IdSpace) % ti_map_prime
        BY <2>0 DEF ms_table_info_map_get
      <4> HIDE DEF s, new
      <4>3. QED
        BY <2>0, <4>1, <4>2, Zenon DEF Collides, ms_table_info_map_get
    <3>2. QED
      BY <1>1, <2>0, <3>1 DEF Known, ms_table_info_map_get
  <2>1. s \in 0 .. ti_map_prime - 1
    BY <2>0, Slots
  <2>2. PICK i \in 1 .. lastId : i % ti_map_prime = s
    BY <1>13, <2>1 DEF Inv, HeldInv
  <2>3. i # new
    BY <1>t
  <2>4. QED
    BY <2>2, <2>3
<1>14. KnownInv'
  <2> SUFFICES ASSUME status = "runs"
               PROVE  /\ \A e \in Pending : e.table \in Watched => Known(e.id, e.table, e.ver)'
                      /\ \A u \in Watched : id'[u] # 0 => Known(id[u], u, ver[u])'
    BY <1>1, <1>2 DEF KnownInv
  <2>1. ASSUME NEW u \in Watched, id'[u] # 0 PROVE Known(id[u], u, ver[u])'
    <3>1. CASE u = t
      <4>1. id'[u] = lastId'
        BY <1>1, <1>4, <3>1
      <4>2. QED
        BY <1>13, <3>1, <4>1
    <3>2. CASE u # t
      <4>1. id'[u] = id[u] /\ id[u] # 0
        BY <1>4, <2>1, <3>2
      <4>2. Known(id[u], u, ver[u])
        BY <4>1 DEF Inv, KnownInv
      <4>3. QED
        BY <1>1, <1>12, <4>1, <4>2
    <3>3. QED
      BY <3>1, <3>2
  <2>2. QED
    BY <1>12, <2>1 DEF Inv, KnownInv
<1>15. WholeInv'
  BY <1>1 DEF Inv, WholeInv
<1>16. QED
  BY <1>3, <1>5, <1>8, <1>9, <1>10, <1>14, <1>15 DEF Inv

(* The table loses its id. *)
LEMMA AlterTableInv ==
  ASSUME Inv, NEW t \in Table, AlterTable(t)
  PROVE  Inv'
<1> USE WatchedAssumption, VersionAssumption, SizesAssumption
<1>t. /\ id \in [Table -> 0 .. MaxId] /\ lastId \in 0 .. MaxId
      /\ ver \in [Table -> Version] /\ stream \in Seq(BinlogEvent)
  BY DEF Inv, TypeOK
<1>1. /\ id' = [id EXCEPT ![t] = 0]
      /\ UNCHANGED <<lastId, stream, cols, stale, meta, ti_map, status, early>>
  BY DEF AlterTable
<1>2. PICK v \in Version : ver' = [ver EXCEPT ![t] = v]
  BY DEF AlterTable
<1>3. Pending' = Pending /\ \A e \in Pending : e.id \in Nat \ {0} /\ e.table \in Table
  BY <1>t, <1>1, PendingTyped DEF Pending
<1>4. TypeOK'
  <2>1. id' \in [Table -> 0 .. MaxId] /\ ver' \in [Table -> Version]
    BY <1>t, <1>1, <1>2
  <2>2. QED
    BY <1>1, <2>1 DEF Inv, TypeOK, BinlogEvent
<1>5. /\ \A u \in Table : id'[u] = IF u = t THEN 0 ELSE id[u]
      /\ \A u \in Table \ {t} : ver'[u] = ver[u]
  BY <1>t, <1>1, <1>2
<1>6. IdInv'
  BY <1>t, <1>1, <1>5 DEF Inv, IdInv
<1>7. StreamInv'
  BY <1>t, <1>1, <1>3, <1>5 DEF Inv, StreamInv
<1>8. OrderInv' /\ WholeInv'
  BY <1>1 DEF Inv, OrderInv, WholeInv
<1>9. \A i, u : Past(i, u) => Past(i, u)'
  BY <1>1, <1>3, <1>5 DEF Past
<1>10. HeldInv'
  BY <1>1, <1>9 DEF Inv, HeldInv
<1>11. \A i, u, v1 : Known(i, u, v1) => Known(i, u, v1)'
  BY <1>1 DEF Known, Collides, ms_table_info_map_get
<1>12. KnownInv'
  <2> SUFFICES ASSUME status = "runs"
               PROVE  /\ \A e \in Pending : e.table \in Watched => Known(e.id, e.table, e.ver)'
                      /\ \A u \in Watched : id'[u] # 0 => Known(id[u], u, ver[u])'
    BY <1>1, <1>3 DEF KnownInv
  <2>1. ASSUME NEW u \in Watched, id'[u] # 0 PROVE Known(id[u], u, ver[u])'
    <3>1. id'[u] = id[u] /\ id[u] # 0 /\ ver'[u] = ver[u]
      BY <1>5, <2>1
    <3>2. Known(id[u], u, ver[u])
      BY <3>1 DEF Inv, KnownInv
    <3>3. QED
      BY <1>11, <3>1, <3>2
  <2>2. QED
    BY <1>11, <2>1 DEF Inv, KnownInv
<1>13. QED
  BY <1>4, <1>6, <1>7, <1>8, <1>10, <1>12 DEF Inv

-----------------------------------------------------------------------------
LEMMA Joined ==
  ASSUME NEW S, NEW T, NEW a \in Seq(S), NEW b \in Seq(T)
  PROVE  /\ a \o b \in Seq(S \cup T) /\ Len(a \o b) = Len(a) + Len(b)
         /\ DOMAIN (a \o b) = 1 .. Len(a) + Len(b)
         /\ \A k \in 1 .. Len(a) : (a \o b)[k] = a[k]
         /\ \A k \in 1 .. Len(b) : (a \o b)[Len(a) + k] = b[k]
<1>1. a \in Seq(S \cup T) /\ b \in Seq(S \cup T)
  OBVIOUS
<1>2. QED
  BY <1>1

(* A statement sends the maps of its tables before their rows. *)
Layout(ts, n, m) ==
  /\ n \in Nat /\ m \in Nat /\ DOMAIN ts = 1 .. m /\ DOMAIN stream = 1 .. n
  /\ DOMAIN stream' = 1 .. n + m + m
  /\ \A k \in 1 .. n : stream'[k] = stream[k]
  /\ \A k \in 1 .. m : stream'[n + k] = TypeMap(ts[k])
  /\ \A k \in 1 .. m : stream'[n + m + k] = TypeRows(ts[k])
  /\ \A k \in DOMAIN stream' :
       k \in 1 .. n \/ \E l \in 1 .. m : k = n + l \/ k = n + m + l

LEMMA Appended ==
  ASSUME stream \in Seq(BinlogEvent), NEW ts \in Seq(Table), Statement(ts),
         NEW n, n = Len(stream), NEW m, m = Len(ts)
  PROVE  Layout(ts, n, m)
<1> DEFINE maps == [k \in DOMAIN ts |-> TypeMap(ts[k])]
           rows == [k \in DOMAIN ts |-> TypeRows(ts[k])]
<1>1. stream' = stream \o maps \o rows
  BY DEF Statement
<1>2. /\ n \in Nat /\ m \in Nat /\ DOMAIN ts = 1 .. m /\ DOMAIN stream = 1 .. n
      /\ DOMAIN maps = DOMAIN ts /\ DOMAIN rows = DOMAIN ts
      /\ Len(maps) = m /\ Len(rows) = m
      /\ maps \in Seq({TypeMap(ts[k]) : k \in DOMAIN ts})
      /\ rows \in Seq({TypeRows(ts[k]) : k \in DOMAIN ts})
  BY SMTT(20)
<1>3. \A k \in 1 .. m : maps[k] = TypeMap(ts[k]) /\ rows[k] = TypeRows(ts[k])
  BY <1>2
<1> HIDE DEF maps, rows
<1>4. /\ stream \o maps \in Seq(BinlogEvent \cup {TypeMap(ts[k]) : k \in DOMAIN ts})
      /\ Len(stream \o maps) = n + m
      /\ \A k \in 1 .. n : (stream \o maps)[k] = stream[k]
      /\ \A k \in 1 .. m : (stream \o maps)[n + k] = maps[k]
  <2>1. n = Len(stream) /\ Len(maps) = m
    BY <1>2
  <2>2. /\ stream \o maps \in Seq(BinlogEvent \cup {TypeMap(ts[k]) : k \in DOMAIN ts})
        /\ Len(stream \o maps) = Len(stream) + Len(maps)
        /\ \A k \in 1 .. Len(stream) : (stream \o maps)[k] = stream[k]
        /\ \A k \in 1 .. Len(maps) : (stream \o maps)[Len(stream) + k] = maps[k]
    <3>1. maps \in Seq({TypeMap(ts[k]) : k \in DOMAIN ts}) /\ stream \in Seq(BinlogEvent)
      BY <1>2
    <3>2. QED
      BY ONLY <3>1, Joined
  <2>3. QED
    BY ONLY <2>1, <2>2
<1>5. /\ DOMAIN stream' = 1 .. (n + m) + m
      /\ \A k \in 1 .. n + m : stream'[k] = (stream \o maps)[k]
      /\ \A k \in 1 .. m : stream'[(n + m) + k] = rows[k]
  <2> DEFINE front == stream \o maps
  <2>1. front \in Seq(BinlogEvent \cup {TypeMap(ts[k]) : k \in DOMAIN ts})
        /\ Len(front) = n + m /\ stream' = front \o rows
    BY <1>1, <1>4
  <2> HIDE DEF front
  <2>2. rows \in Seq({TypeRows(ts[k]) : k \in DOMAIN ts}) /\ Len(rows) = m
    BY <1>2
  <2>3. /\ DOMAIN (front \o rows) = 1 .. Len(front) + Len(rows)
        /\ \A k \in 1 .. Len(front) : (front \o rows)[k] = front[k]
        /\ \A k \in 1 .. Len(rows) : (front \o rows)[Len(front) + k] = rows[k]
    <3>1. front \in Seq(BinlogEvent \cup {TypeMap(ts[k]) : k \in DOMAIN ts})
      BY ONLY <2>1
    <3>2. rows \in Seq({TypeRows(ts[k]) : k \in DOMAIN ts})
      BY ONLY <2>2
    <3>3. QED
      BY ONLY <3>1, <3>2, Joined
  <2>4. /\ DOMAIN stream' = 1 .. (n + m) + m
        /\ \A k \in 1 .. n + m : stream'[k] = front[k]
        /\ \A k \in 1 .. m : stream'[(n + m) + k] = rows[k]
    BY ONLY <2>1, <2>2, <2>3
  <2>5. QED
    BY <2>4 DEF front
<1>6. \A k \in 1 .. n : k \in 1 .. n + m
  BY <1>2
<1>7. \A k \in 1 .. m : n + k \in 1 .. n + m
  BY <1>2
<1>8. \A k \in 1 .. n + m + m :
        \/ k \in 1 .. n
        \/ \E l \in 1 .. m : k = n + l \/ k = n + m + l
  <2> SUFFICES ASSUME NEW k \in 1 .. n + m + m, k \notin 1 .. n
               PROVE  \E l \in 1 .. m : k = n + l \/ k = n + m + l
    OBVIOUS
  <2>1. CASE k <= n + m
    <3>1. k - n \in 1 .. m /\ k = n + (k - n)
      BY <1>2, <2>1
    <3>2. QED
      BY <3>1
  <2>2. CASE k > n + m
    <3>1. k - n - m \in 1 .. m /\ k = n + m + (k - n - m)
      BY <1>2, <2>2
    <3>2. QED
      BY <3>1
  <2>3. QED
    BY <1>2, <2>1, <2>2
<1>9. QED
  BY <1>2, <1>3, <1>4, <1>5, <1>6, <1>7, <1>8 DEF Layout

LEMMA EventFields ==
  ASSUME TypeOK, NEW t \in Table, id[t] # 0
  PROVE  /\ TypeMap(t).type = "map" /\ TypeRows(t).type = "rows"
         /\ TypeMap(t).table = t /\ TypeRows(t).table = t
         /\ TypeMap(t).id = id[t] /\ TypeRows(t).id = id[t]
         /\ TypeMap(t).ver = ver[t] /\ TypeRows(t).ver = ver[t]
         /\ TypeMap(t) \in BinlogEvent /\ TypeRows(t) \in BinlogEvent
<1>0. id \in [Table -> 0 .. MaxId] /\ ver \in [Table -> Version]
  BY DEF TypeOK
<1>1. id[t] \in 1 .. MaxId /\ ver[t] \in Version
  BY <1>0, SizesAssumption
<1>2. QED
  BY <1>1 DEF TypeMap, TypeRows, BinlogEvent

(* What a statement adds is of the definitions and ids of now. *)
LEMMA StatementInv ==
  ASSUME Inv, NEW ts \in Seq(Table), Statement(ts)
  PROVE  Inv'
<1> USE WatchedAssumption, VersionAssumption, SizesAssumption
<1>t. /\ id \in [Table -> 0 .. MaxId] /\ lastId \in 0 .. MaxId
      /\ ver \in [Table -> Version] /\ stream \in Seq(BinlogEvent) /\ TypeOK
  BY DEF Inv, TypeOK
<1> DEFINE n == Len(stream)
           m == Len(ts)
<1>1. /\ \A k \in DOMAIN ts : id[ts[k]] # 0 /\ ts[k] \in Table
      /\ n + 2 * m <= MaxStream
      /\ UNCHANGED <<id, ver, lastId, cols, stale, meta, ti_map, status, early>>
  BY DEF Statement, master
<1>n. n = Len(stream) /\ m = Len(ts)
  OBVIOUS
<1> HIDE DEF n, m
<1>2. /\ n \in Nat /\ m \in Nat /\ DOMAIN ts = 1 .. m /\ DOMAIN stream = 1 .. n
      /\ DOMAIN stream' = 1 .. n + m + m
      /\ \A k \in 1 .. n : stream'[k] = stream[k]
      /\ \A k \in 1 .. m : stream'[n + k] = TypeMap(ts[k])
      /\ \A k \in 1 .. m : stream'[n + m + k] = TypeRows(ts[k])
      /\ \A k \in DOMAIN stream' :
           k \in 1 .. n \/ \E l \in 1 .. m : k = n + l \/ k = n + m + l
  <2>1. Layout(ts, n, m)
    BY <1>t, <1>n, Appended
  <2>2. QED
    BY <2>1 DEF Layout
<1> DEFINE New(e) == /\ e \in BinlogEvent /\ e.table \in Table /\ e.id = id[e.table]
                     /\ e.id # 0 /\ e.ver = ver[e.table]
<1>3. \A k \in DOMAIN stream' :
        (k \in 1 .. n /\ stream'[k] = stream[k]) \/ (k \notin 1 .. n /\ New(stream'[k]))
  <2> SUFFICES ASSUME NEW k \in DOMAIN stream', k \notin 1 .. n PROVE New(stream'[k])
    BY <1>2
  <2>1. PICK l \in 1 .. m : k = n + l \/ k = n + m + l
    BY <1>2
  <2>2. ts[l] \in Table /\ id[ts[l]] # 0
    BY <1>1, <1>2
  <2>3. stream'[k] = TypeMap(ts[l]) \/ stream'[k] = TypeRows(ts[l])
    BY <1>2, <2>1
  <2>4. QED
    BY <1>t, <2>2, <2>3, EventFields
<1>4. \A e \in Pending' : e \in Pending \/ New(e)
  BY <1>2, <1>3 DEF Pending
<1> HIDE DEF New
<1>5. stream' \in Seq(BinlogEvent) /\ Len(stream') <= MaxStream
  <2>1. \A k \in 1 .. n + m + m : stream'[k] \in BinlogEvent
    BY <1>t, <1>2, <1>3 DEF New
  <2>2. stream' \in Seq(BinlogEvent \cup {TypeMap(ts[k]) : k \in DOMAIN ts}
                         \cup {TypeRows(ts[k]) : k \in DOMAIN ts})
    <3> DEFINE maps == [k \in DOMAIN ts |-> TypeMap(ts[k])]
               rows == [k \in DOMAIN ts |-> TypeRows(ts[k])]
    <3>1. stream' = (stream \o maps) \o rows
      BY DEF Statement
    <3>2. /\ maps \in Seq({TypeMap(ts[k]) : k \in DOMAIN ts})
          /\ rows \in Seq({TypeRows(ts[k]) : k \in DOMAIN ts})
      OBVIOUS
    <3> HIDE DEF maps, rows
    <3>3. stream \o maps \in Seq(BinlogEvent \cup {TypeMap(ts[k]) : k \in DOMAIN ts})
      BY <1>t, <3>2, Joined
    <3>4. QED
      BY <3>1, <3>2, <3>3, Joined
  <2>3. Len(stream') = n + m + m
    BY <1>2, <2>2
  <2>4. stream' \in Seq(BinlogEvent)
    BY <2>1, <2>2, <2>3
  <2>5. QED
    BY <1>1, <1>2, <2>3, <2>4
<1>6. TypeOK'
  BY <1>1, <1>5 DEF Inv, TypeOK, BinlogEvent
<1>7. IdInv'
  BY <1>1 DEF Inv, IdInv
<1>8. \A e \in Pending' : e.id \in Nat /\ e.table \in Table
  <2>1. \A e \in Pending : e.id \in Nat \ {0} /\ e.table \in Table
    BY <1>t, PendingTyped
  <2>2. \A e : New(e) => e.id \in Nat /\ e.table \in Table
    BY <1>t DEF New
  <2>3. QED
    BY <1>4, <2>1, <2>2
<1>9. StreamInv'
  <2>1. ASSUME NEW e \in Pending'
        PROVE  /\ e.id <= lastId /\ (id[e.table] # 0 => e.id <= id[e.table])
               /\ \A u \in Table : id[u] = e.id => u = e.table /\ ver[u] = e.ver
    <3>1. CASE e \in Pending
      BY <3>1 DEF Inv, StreamInv
    <3>2. CASE New(e)
      BY <1>t, <3>2 DEF Inv, IdInv, New
    <3>3. QED
      BY <1>4, <3>1, <3>2
  <2>2. ASSUME NEW e \in Pending', NEW f \in Pending', e.id = f.id
        PROVE  e.table = f.table /\ e.ver = f.ver
    <3>1. CASE e \in Pending /\ f \in Pending
      BY <2>2, <3>1 DEF Inv, StreamInv
    <3>2. CASE New(e)
      BY <2>1, <2>2, <3>2 DEF New
    <3>3. CASE New(f)
      BY <2>1, <2>2, <3>3 DEF New
    <3>4. QED
      BY <1>4, <3>1, <3>2, <3>3
  <2>3. QED
    BY <1>1, <2>1, <2>2 DEF StreamInv
<1>10. OrderInv'
  <2> SUFFICES ASSUME NEW j \in DOMAIN stream', NEW k \in DOMAIN stream', j < k,
                      stream'[j].table = stream'[k].table
               PROVE  stream'[j].id <= stream'[k].id
    BY DEF OrderInv
  <2>1. stream'[j] \in Pending'
    BY DEF Pending
  <2>2. CASE New(stream'[k])
    <3>1. id[stream'[j].table] # 0 /\ stream'[k].id = id[stream'[j].table]
      BY <2>2 DEF New
    <3>2. QED
      BY <1>1, <1>9, <2>1, <3>1 DEF StreamInv
  <2>3. CASE k \in 1 .. n
    <3>1. j \in 1 .. n
      BY <1>2, <2>3
    <3>2. QED
      BY <1>2, <2>3, <3>1 DEF Inv, OrderInv
  <2>4. QED
    BY <1>3, <2>2, <2>3
<1>11. ASSUME NEW i, NEW t, Past(i, t) PROVE Past(i, t)'
  <2>1. ASSUME NEW e \in Pending' PROVE IF e.table = t THEN i <= e.id ELSE i # e.id
    BY <1>4, <1>11 DEF Past, New
  <2>2. QED
    BY <1>1, <1>11, <2>1 DEF Past
<1>12. HeldInv'
  BY <1>1, <1>11 DEF Inv, HeldInv
<1>13. \A i, u, v : Known(i, u, v) => Known(i, u, v)'
  BY <1>1 DEF Known, Collides, ms_table_info_map_get
<1>14. KnownInv'
  <2> SUFFICES ASSUME status = "runs"
               PROVE  /\ \A e \in Pending' : e.table \in Watched => Known(e.id, e.table, e.ver)'
                      /\ \A u \in Watched : id'[u] # 0 => Known(id[u], u, ver[u])'
    BY <1>1 DEF KnownInv
  <2>1. \A u \in Watched : id[u] # 0 => Known(id[u], u, ver[u])
    BY DEF Inv, KnownInv
  <2>2. ASSUME NEW e \in Pending', e.table \in Watched PROVE Known(e.id, e.table, e.ver)'
    <3>1. CASE e \in Pending
      BY <1>13, <2>2, <3>1 DEF Inv, KnownInv
    <3>2. CASE New(e)
      <4>1. e.id = id[e.table] /\ e.id # 0 /\ e.ver = ver[e.table]
        BY <3>2 DEF New
      <4>2. Known(e.id, e.table, e.ver)
        BY <2>1, <2>2, <4>1
      <4>3. QED
        BY <1>13, <4>2
    <3>3. QED
      BY <1>4, <3>1, <3>2
  <2>3. QED
    BY <1>1, <1>13, <2>1, <2>2
<1>15. WholeInv'
  BY <1>1 DEF Inv, WholeInv
<1>16. QED
  BY <1>6, <1>7, <1>9, <1>10, <1>12, <1>14, <1>15 DEF Inv

-----------------------------------------------------------------------------
(* What handling an event keeps, whatever becomes of it. *)
LEMMA LessPending ==
  ASSUME Inv, stream # <<>>, stream' = Tail(stream), UNCHANGED master
  PROVE  /\ stream' \in Seq(BinlogEvent) /\ Len(stream') <= MaxStream
         /\ Pending' \subseteq Pending
         /\ IdInv' /\ StreamInv' /\ OrderInv'
         /\ \A i, t : Past(i, t) => Past(i, t)'
<1> USE SizesAssumption
<1>0. stream \in Seq(BinlogEvent) /\ Len(stream) <= MaxStream
  BY DEF Inv, TypeOK
<1>1. stream \in Seq(BinlogEvent) /\ Len(stream) \in Nat /\ Len(stream) <= MaxStream
  BY <1>0
<1>2. /\ stream' \in Seq(BinlogEvent) /\ Len(stream') = Len(stream) - 1
      /\ Pending' \subseteq Pending
  BY <1>1, PendingHandled
<1>3. id' = id /\ ver' = ver /\ lastId' = lastId
  BY DEF master
<1>4. IdInv' /\ StreamInv'
  BY <1>2, <1>3 DEF Inv, IdInv, StreamInv
<1>5. OrderInv'
  <2>1. \A k \in DOMAIN stream' : k \in Nat /\ k + 1 \in DOMAIN stream /\ stream'[k] = stream[k + 1]
    BY <1>1
  <2> SUFFICES ASSUME NEW j \in DOMAIN stream', NEW k \in DOMAIN stream', j < k,
                      stream'[j].table = stream'[k].table
               PROVE  stream'[j].id <= stream'[k].id
    BY DEF OrderInv
  <2>2. j + 1 < k + 1
    BY <2>1
  <2>3. QED
    BY <2>1, <2>2 DEF Inv, OrderInv
<1>6. \A i, t : Past(i, t) => Past(i, t)'
  BY <1>2, <1>3 DEF Past
<1>7. QED
  BY <1>1, <1>2, <1>4, <1>5, <1>6

(* An event that changes neither ti_map nor known columns. *)
LEMMA Unaffected ==
  ASSUME Inv, stream # <<>>, stream' = Tail(stream), UNCHANGED master,
         UNCHANGED <<cols, ti_map, early>>, status = "runs"
  PROVE  IdInv' /\ StreamInv' /\ OrderInv' /\ HeldInv' /\ KnownInv' /\ WholeInv'
<1>1. id' = id /\ ver' = ver /\ lastId' = lastId
  BY DEF master
<1>2. HeldInv'
  BY <1>1, LessPending DEF Inv, HeldInv
<1>3. \A i, u, v : Known(i, u, v) => Known(i, u, v)'
  BY <1>1 DEF Known, Collides, ms_table_info_map_get
<1>4. KnownInv'
  BY <1>1, <1>3, LessPending DEF Inv, KnownInv
<1>5. WholeInv'
  BY DEF Inv, WholeInv
<1>6. QED
  BY <1>2, <1>4, <1>5, LessPending

(* The event that is handled next. *)
LEMMA HeadPending ==
  ASSUME Inv, stream # <<>>
  PROVE  /\ Head(stream) \in Pending /\ Head(stream) = stream[1] /\ 1 \in DOMAIN stream
         /\ Head(stream).id \in 1 .. lastId /\ Head(stream).id \in Nat \ {0}
         /\ Head(stream).table \in Table /\ Head(stream).ver \in Version
         /\ Past(Head(stream).id, Head(stream).table)
<1> USE SizesAssumption
<1>1. stream \in Seq(BinlogEvent) /\ lastId \in 0 .. MaxId
      /\ id \in [Table -> 0 .. MaxId]
  BY DEF Inv, TypeOK
<1>2. Head(stream) \in Pending /\ Head(stream) = stream[1] /\ 1 \in DOMAIN stream
  BY <1>1 DEF Pending
<1> DEFINE e == Head(stream)
<1>3. e.id \in Nat \ {0} /\ e.table \in Table /\ e.ver \in Version
  BY <1>1, <1>2, PendingTyped
<1> HIDE DEF e
<1>4. e.id <= lastId
  BY <1>2 DEF Inv, StreamInv, e
<1>5. e.id \in 1 .. lastId
  BY <1>1, <1>3, <1>4
<1>6. \A u \in Table : id[u] # 0 => IF u = e.table THEN e.id <= id[u] ELSE e.id # id[u]
  BY <1>2 DEF Inv, StreamInv, e
<1>7. \A f \in Pending : IF f.table = e.table THEN e.id <= f.id ELSE e.id # f.id
  <2> SUFFICES ASSUME NEW k \in DOMAIN stream, stream[k].table = e.table
               PROVE  e.id <= stream[k].id
    BY <1>2 DEF Inv, StreamInv, Pending, e
  <2>1. k = 1 \/ 1 < k
    BY <1>1
  <2>2. QED
    BY <1>2, <1>3, <2>1 DEF Inv, OrderInv, e
<1>8. QED
  BY <1>2, <1>3, <1>5, <1>6, <1>7 DEF Past, e

(* The entry an id finds is that of another id, or of the same id.         *)
LEMMA FoundIsHeld ==
  ASSUME Inv, NEW i \in Nat, ~Collides(i), ti_map[ms_table_info_map_get(i)] # None
  PROVE  i \in 1 .. lastId /\ Past(i, ti_map[ms_table_info_map_get(i)])
<1>1. ms_table_info_map_get(i) \in 0 .. ti_map_prime - 1
  BY Slots
<1>2. PICK h \in 1 .. lastId :
        /\ h % ti_map_prime = ms_table_info_map_get(i)
        /\ Past(h, ti_map[ms_table_info_map_get(i)])
  BY <1>1 DEF Inv, HeldInv
<1>3. h = i
  BY <1>2 DEF Collides
<1>4. QED
  BY <1>2, <1>3

LEMMA IgnoreTableMapInv ==
  ASSUME Inv, IgnoreTableMap
  PROVE  Inv'
<1>1. /\ stream # <<>> /\ stream' = Tail(stream) /\ UNCHANGED master /\ status = "runs"
      /\ UNCHANGED <<cols, stale, meta, ti_map, status, early>>
  BY DEF IgnoreTableMap, Handling
<1>2. TypeOK'
  BY <1>1, LessPending DEF Inv, TypeOK, master, BinlogEvent
<1>3. QED
  BY <1>1, <1>2, Unaffected DEF Inv

LEMMA DropRowsInv ==
  ASSUME Inv, DropRows
  PROVE  Inv'
<1>1. /\ stream # <<>> /\ stream' = Tail(stream) /\ UNCHANGED master /\ status = "runs"
      /\ UNCHANGED <<cols, stale, meta, ti_map, status, early>>
  BY DEF DropRows, Handling
<1>2. TypeOK'
  BY <1>1, LessPending DEF Inv, TypeOK, master, BinlogEvent
<1>3. QED
  BY <1>1, <1>2, Unaffected DEF Inv

LEMMA DecodeRowsInv ==
  ASSUME Inv, DecodeRows
  PROVE  Inv'
<1> DEFINE t == ti_map[ms_table_info_map_get(Head(stream).id)]
<1>1. /\ stream # <<>> /\ stream' = Tail(stream) /\ UNCHANGED master /\ status = "runs"
      /\ UNCHANGED <<cols, meta, ti_map, early>>
  BY DEF DecodeRows, Handling
<1>2. /\ stale' = stale \/ stale' = [stale EXCEPT ![t] = IF @ = "all" THEN "meta" ELSE @]
      /\ status' \in {status, "assert in ms_array_get", "stale memory used", "no metadata"}
  BY DEF DecodeRows
<1> HIDE DEF t
<1>3. stale \in [Watched -> {"none", "meta", "all"}]
  BY DEF Inv, TypeOK
<1>4. stale' \in [Watched -> {"none", "meta", "all"}]
  BY <1>2, <1>3
<1>5. TypeOK'
  BY <1>1, <1>2, <1>4, LessPending DEF Inv, TypeOK, master, BinlogEvent
<1>6. QED
  BY <1>1, <1>5, Unaffected DEF Inv

LEMMA AbortsInv ==
  ASSUME Inv, NEW t \in Watched, SyncAborts(t) \/ FreeColumnsAborts(t)
  PROVE  Inv'
<1>1. /\ stream # <<>> /\ stream' = Tail(stream) /\ UNCHANGED master /\ status = "runs"
      /\ UNCHANGED <<cols, stale, meta, ti_map, early>>
      /\ status' \in {"no memory for columns", "stale memory used"}
  BY DEF SyncAborts, FreeColumnsAborts, Resync, Handling
<1>2. TypeOK'
  BY <1>1, LessPending DEF Inv, TypeOK, master, BinlogEvent
<1>3. QED
  BY <1>1, <1>2, Unaffected DEF Inv

(* An entry that another event of the table finds was set for an id before *)
(* that of the event in hand.                                              *)
LEMMA LaterCollides ==
  ASSUME Inv, stream # <<>>, NEW i \in Nat,
         ti_map[ms_table_info_map_get(i)] = Head(stream).table, Head(stream).table # None,
         \/ \E f \in Pending : f.table = Head(stream).table /\ f.id = i
         \/ id[Head(stream).table] = i /\ i # 0,
         i # Head(stream).id
  PROVE  Collides(i)
<1> DEFINE e == Head(stream)
<1>1. /\ Past(e.id, e.table) /\ e.id \in Nat /\ e.table \in Table
      /\ e \in Pending
  BY HeadPending
<1> HIDE DEF e
<1>2. e.id <= i
  BY <1>1 DEF Past, e
<1> SUFFICES ASSUME ~Collides(i) PROVE FALSE
  OBVIOUS
<1>3. Past(i, e.table)
  BY FoundIsHeld DEF e
<1>4. i <= e.id
  BY <1>1, <1>3 DEF Past
<1>5. QED
  BY <1>1, <1>2, <1>4 DEF e

(* Columns are read again only where their number was not that of the      *)
(* event, that is for an id whose entry, if set, had them read early.      *)
LEMMA SyncFailsInv ==
  ASSUME Inv, NEW t \in Watched, SyncFails(t)
  PROVE  Inv'
<1> USE WatchedAssumption, VersionAssumption, SizesAssumption
<1> DEFINE e == Head(stream)
<1>1. /\ stream # <<>> /\ stream' = Tail(stream) /\ UNCHANGED master /\ status = "runs"
      /\ UNCHANGED <<meta, ti_map, status>>
      /\ e.table = t /\ cols[t].n # NCols[e.ver]
      /\ early \subseteq early' /\ early' \subseteq early \cup {t}
  BY DEF SyncFails, Resync, Handling, KnownCols
<1>2. PICK k \in 0 .. NCols[ver[t]], st \in {"none", "all"} :
        /\ cols' = [cols EXCEPT ![t] = [ver |-> ver[t], n |-> k, whole |-> FALSE]]
        /\ stale' = [stale EXCEPT ![t] = st]
  BY DEF SyncFails
<1>3. e.id \in Nat /\ e.table \in Table /\ e \in Pending
  BY <1>1, HeadPending
<1> HIDE DEF e
<1>t. /\ cols \in [Watched -> [ver : Version, n : Nat, whole : BOOLEAN]]
      /\ stale \in [Watched -> {"none", "meta", "all"}]
      /\ ver \in [Table -> Version] /\ stream \in Seq(BinlogEvent)
      /\ id \in [Table -> 0 .. MaxId] /\ early \subseteq Watched
  BY DEF Inv, TypeOK
<1>m. id' = id /\ ver' = ver /\ lastId' = lastId
  BY <1>1 DEF master
<1>4. ver[t] \in Version /\ k \in Nat
  BY <1>t
<1>5. /\ cols' \in [Watched -> [ver : Version, n : Nat, whole : BOOLEAN]]
      /\ ~cols'[t].whole /\ \A u \in Watched \ {t} : cols'[u] = cols[u]
  <2>1. [ver |-> ver[t], n |-> k, whole |-> FALSE] \in [ver : Version, n : Nat, whole : BOOLEAN]
    BY <1>4
  <2>2. QED
    BY <1>t, <1>2, <2>1
<1>6. TypeOK'
  <2>1. stale' \in [Watched -> {"none", "meta", "all"}] /\ early' \subseteq Watched
    BY <1>t, <1>1, <1>2
  <2>2. QED
    BY <1>1, <1>5, <2>1, LessPending DEF Inv, TypeOK, master, BinlogEvent
<1>7. HeldInv'
  BY <1>1, <1>m, LessPending DEF Inv, HeldInv
<1>8. \A i : Collides(i)' <=> Collides(i)
  BY <1>m DEF Collides, ms_table_info_map_get
<1>9. ASSUME NEW i \in Nat, NEW u \in Watched, NEW v, Known(i, u, v),
             u = t => /\ i = e.id => v = e.ver
                      /\ \/ \E f \in Pending : f.table = t /\ f.id = i
                         \/ id[t] = i /\ i # 0
      PROVE  Known(i, u, v)'
  <2> SUFFICES ASSUME ti_map[ms_table_info_map_get(i)] = u, ~Collides(i)
               PROVE  u \in early' \/ cols'[u].n = NCols[v]
    BY <1>1, <1>8 DEF Known, ms_table_info_map_get
  <2>1. u \in early \/ cols[u].n = NCols[v]
    BY <1>9 DEF Known
  <2>2. CASE u # t
    BY <1>1, <1>5, <2>1, <2>2
  <2>3. CASE u = t
    <3>1. i = e.id
      BY <1>1, <1>9, <2>3, LaterCollides DEF e
    <3>2. cols[u].n # NCols[v]
      BY <1>1, <1>9, <2>3, <3>1
    <3>3. QED
      BY <1>1, <2>1, <3>2
  <2>4. QED
    BY <2>2, <2>3
<1>10. KnownInv'
  <2>1. ASSUME NEW f \in Pending, f.table \in Watched PROVE Known(f.id, f.table, f.ver)'
    <3>1. f.id \in Nat /\ Known(f.id, f.table, f.ver)
      BY <1>t, <1>1, <2>1, PendingTyped DEF Inv, KnownInv
    <3>2. f.id = e.id => f.ver = e.ver
      BY <1>3 DEF Inv, StreamInv
    <3>3. QED
      BY <1>9, <2>1, <3>1, <3>2
  <2>2. ASSUME NEW u \in Watched, id[u] # 0 PROVE Known(id[u], u, ver[u])'
    <3>1. id[u] \in Nat /\ Known(id[u], u, ver[u])
      BY <1>t, <1>1, <2>2 DEF Inv, KnownInv
    <3>2. id[u] = e.id => ver[u] = e.ver
      BY <1>3 DEF Inv, StreamInv
    <3>3. QED
      BY <1>9, <1>m, <2>2, <3>1, <3>2
  <2>3. QED
    BY <1>1, <1>m, <2>1, <2>2, LessPending DEF KnownInv
<1>11. WholeInv'
  BY <1>5 DEF Inv, WholeInv
<1>12. QED
  BY <1>1, <1>6, <1>7, <1>10, <1>11, LessPending DEF Inv

(* What a table map of t leaves: the columns of now, unless they were      *)
(* known, and the entry of its id, unless it ends early.                   *)
LEMMA TableMapEventEffect ==
  ASSUME Inv, NEW t \in Watched, TableMapEvent(t) \/ MetadataFails(t),
         NEW e, e = Head(stream)
  PROVE  /\ stream # <<>> /\ stream' = Tail(stream) /\ UNCHANGED master
         /\ status = "runs" /\ e.table = t
         /\ cols' \in [Watched -> [ver : Version, n : Nat, whole : BOOLEAN]]
         /\ \A u \in Watched \ {t} : cols'[u] = cols[u]
         /\ cols'[t].whole => cols'[t].n = NCols[cols'[t].ver]
         /\ cols'[t].n = NCols[e.ver] \/ (Early(t) /\ t \in early' /\ Resync(t))
         /\ early' \subseteq early \cup {t} /\ early \subseteq early' \cup {t}
         /\ stale' = stale \/ \E st \in {"none", "all"} : stale' = [stale EXCEPT ![t] = st]
         /\ meta' = meta \/ meta' = [meta EXCEPT ![t] = [len |-> MetaLen[e.ver], data |-> TRUE]]
            \/ meta' = [meta EXCEPT ![t] = [len |-> 0, data |-> FALSE]]
         /\ \/ status' = "assert in ms_str_deinit" /\ ti_map' = ti_map
            \/ /\ status' = "assert in ms_array_get" /\ ti_map' = ti_map
               /\ NCols[e.ver] > cols'[t].n
            \/ /\ status' = "runs"
               /\ ti_map' = [ti_map EXCEPT ![e.id % ti_map_prime] = t]
            \/ /\ status' = "runs" /\ ti_map' = ti_map
               /\ meta' = [meta EXCEPT ![t] = [len |-> 0, data |-> FALSE]]
<1> USE WatchedAssumption, VersionAssumption
<1>t. /\ cols \in [Watched -> [ver : Version, n : Nat, whole : BOOLEAN]]
      /\ ver \in [Table -> Version]
  BY DEF Inv, TypeOK
<1>1. /\ stream # <<>> /\ stream' = Tail(stream) /\ UNCHANGED master
      /\ status = "runs" /\ e.table = t
  BY DEF TableMapEvent, MetadataFails, Handling
<1>2. /\ \/ meta' = meta \/ meta' = [meta EXCEPT ![t] = [len |-> MetaLen[e.ver], data |-> TRUE]]
         \/ meta' = [meta EXCEPT ![t] = [len |-> 0, data |-> FALSE]]
      /\ \/ status' = "assert in ms_str_deinit" /\ ti_map' = ti_map
         \/ /\ status' = "assert in ms_array_get" /\ ti_map' = ti_map
            /\ NCols[e.ver] > cols'[t].n
         \/ /\ status' = "runs"
            /\ ti_map' = [ti_map EXCEPT ![e.id % ti_map_prime] = t]
         \/ /\ status' = "runs" /\ ti_map' = ti_map
            /\ meta' = [meta EXCEPT ![t] = [len |-> 0, data |-> FALSE]]
  <2>1. CASE TableMapEvent(t)
    BY <1>1, <2>1 DEF TableMapEvent
  <2>2. CASE MetadataFails(t)
    BY <1>1, <2>2 DEF MetadataFails
  <2>3. QED
    BY <2>1, <2>2
<1>3. ColumnsOf(t) /\ Handling("map") /\ Head(stream).table = t
  BY DEF TableMapEvent, MetadataFails
<1>4. CASE Resync(t)
  <2> DEFINE now == [ver |-> ver[t], n |-> NCols[ver[t]], whole |-> TRUE]
  <2>1. /\ cols' = [cols EXCEPT ![t] = now]
        /\ \E st \in {"none", "all"} : stale' = [stale EXCEPT ![t] = st]
        /\ early' = IF Early(t) THEN early \cup {t} ELSE early \ {t}
    BY <1>3, <1>4 DEF ColumnsOf
  <2>2. ver[t] \in Version /\ NCols[ver[t]] \in Nat
    BY <1>t
  <2>3. /\ now \in [ver : Version, n : Nat, whole : BOOLEAN]
        /\ now.n = NCols[ver[t]] /\ now.ver = ver[t]
    BY <2>2
  <2> HIDE DEF now
  <2>4. /\ cols' \in [Watched -> [ver : Version, n : Nat, whole : BOOLEAN]]
        /\ cols'[t] = now /\ \A u \in Watched \ {t} : cols'[u] = cols[u]
    BY <1>t, <2>1, <2>3
  <2>5. Early(t) \/ NCols[ver[t]] = NCols[e.ver]
    BY DEF Early
  <2>6. early' \subseteq early \cup {t} /\ early \subseteq early' \cup {t}
        /\ (Early(t) => t \in early')
    BY <2>1
  <2>7. QED
    BY <1>1, <1>2, <1>4, <2>1, <2>3, <2>4, <2>5, <2>6
<1>5. CASE ~Resync(t)
  <2>1. /\ cols' = cols /\ stale' = stale
        /\ early' = IF cols[t].ver = Head(stream).ver THEN early \ {t} ELSE early
    BY <1>3, <1>5 DEF ColumnsOf
  <2>2. cols[t].n = NCols[e.ver]
    BY <1>3, <1>5 DEF Resync, KnownCols
  <2>3. cols[t].whole => cols[t].n = NCols[cols[t].ver]
    BY DEF Inv, WholeInv
  <2>4. early' \subseteq early \cup {t} /\ early \subseteq early' \cup {t}
    BY <2>1
  <2>5. QED
    BY <1>t, <1>1, <1>2, <2>1, <2>2, <2>3, <2>4
<1>6. QED
  BY <1>4, <1>5

LEMMA TableMapEventInv ==
  ASSUME Inv, NEW t \in Watched, TableMapEvent(t) \/ MetadataFails(t)
  PROVE  Inv'
<1> USE WatchedAssumption, VersionAssumption, SizesAssumption
<1> DEFINE e == Head(stream)
           s == e.id % ti_map_prime
<1>1. /\ stream # <<>> /\ stream' = Tail(stream) /\ UNCHANGED master
      /\ status = "runs" /\ e.table = t
      /\ cols' \in [Watched -> [ver : Version, n : Nat, whole : BOOLEAN]]
      /\ \A u \in Watched \ {t} : cols'[u] = cols[u]
      /\ cols'[t].whole => cols'[t].n = NCols[cols'[t].ver]
      /\ cols'[t].n = NCols[e.ver] \/ t \in early'
      /\ early' \subseteq early \cup {t} /\ early \subseteq early' \cup {t}
      /\ stale' = stale \/ \E st \in {"none", "all"} : stale' = [stale EXCEPT ![t] = st]
      /\ \/ meta' = meta \/ meta' = [meta EXCEPT ![t] = [len |-> MetaLen[e.ver], data |-> TRUE]]
         \/ meta' = [meta EXCEPT ![t] = [len |-> 0, data |-> FALSE]]
  BY TableMapEventEffect
<1>2. \/ status' \in {"assert in ms_str_deinit", "assert in ms_array_get", "runs"} /\ ti_map' = ti_map
      \/ status' = "runs" /\ ti_map' = [ti_map EXCEPT ![s] = t]
  BY TableMapEventEffect
<1>3. /\ e.id \in Nat /\ e.table \in Table /\ e \in Pending /\ e.ver \in Version
      /\ e.id \in 1 .. lastId /\ Past(e.id, e.table)
  BY <1>1, HeadPending
<1> HIDE DEF e
<1>s. s \in 0 .. ti_map_prime - 1
  BY <1>3, Slots
<1>d. s = e.id % ti_map_prime
  OBVIOUS
<1> HIDE DEF s
<1>t. /\ ti_map \in [0 .. ti_map_prime - 1 -> Watched \cup {None}]
      /\ stale \in [Watched -> {"none", "meta", "all"}]
      /\ meta \in [Watched -> [len : Nat, data : BOOLEAN]]
      /\ stream \in Seq(BinlogEvent) /\ early \subseteq Watched
      /\ id \in [Table -> 0 .. MaxId]
  BY DEF Inv, TypeOK
<1>m. id' = id /\ ver' = ver /\ lastId' = lastId
  BY <1>1 DEF master
<1>4. /\ ti_map' \in [0 .. ti_map_prime - 1 -> Watched \cup {None}]
      /\ \A r \in 0 .. ti_map_prime - 1 :
           ti_map'[r] = ti_map[r] \/ (r = s /\ ti_map'[r] = t)
  BY <1>2, <1>s, <1>t
<1>5. TypeOK'
  <2>1. stale' \in [Watched -> {"none", "meta", "all"}]
    BY <1>1, <1>t
  <2>2. meta' \in [Watched -> [len : Nat, data : BOOLEAN]]
    <3>1. /\ [len |-> MetaLen[e.ver], data |-> TRUE] \in [len : Nat, data : BOOLEAN]
          /\ [len |-> 0, data |-> FALSE] \in [len : Nat, data : BOOLEAN]
      BY <1>3
    <3>2. \/ meta' = meta \/ meta' = [meta EXCEPT ![t] = [len |-> MetaLen[e.ver], data |-> TRUE]]
          \/ meta' = [meta EXCEPT ![t] = [len |-> 0, data |-> FALSE]]
      BY <1>1
    <3>3. QED
      BY ONLY <1>t, <3>1, <3>2, t \in Watched
  <2>3. early' \subseteq Watched
    BY <1>1, <1>t
  <2>4. QED
    BY <1>1, <1>2, <1>4, <2>1, <2>2, <2>3, LessPending DEF Inv, TypeOK, master, BinlogEvent
<1>6. HeldInv'
  <2> SUFFICES ASSUME NEW r \in 0 .. ti_map_prime - 1, ti_map'[r] # None
               PROVE  \E i \in 1 .. lastId : i % ti_map_prime = r /\ Past(i, ti_map[r])'
    BY <1>m DEF HeldInv
  <2>1. CASE ti_map'[r] = ti_map[r]
    <3>1. PICK i \in 1 .. lastId : i % ti_map_prime = r /\ Past(i, ti_map[r])
      BY <2>1 DEF Inv, HeldInv
    <3>2. Past(i, ti_map[r])'
      BY <1>1, <2>1, <3>1, LessPending
    <3>3. QED
      BY <3>1, <3>2
  <2>2. CASE r = s /\ ti_map'[r] = t
    <3>1. PICK h \in 1 .. lastId : h = e.id
      BY <1>3
    <3>2. Past(h, ti_map[r])'
      BY <1>1, <1>3, <2>2, <3>1, LessPending
    <3>3. QED
      BY <1>d, <2>2, <3>1, <3>2
  <2>3. QED
    BY <1>4, <2>1, <2>2
<1>7. \A i : Collides(i)' <=> Collides(i)
  BY <1>m DEF Collides, ms_table_info_map_get
<1>8. ASSUME NEW i \in Nat, NEW u \in Watched, NEW v, Known(i, u, v),
             u = t => /\ i = e.id => v = e.ver
                      /\ \/ \E f \in Pending : f.table = t /\ f.id = i
                         \/ id[t] = i /\ i # 0
      PROVE  Known(i, u, v)'
  <2> DEFINE r == ms_table_info_map_get(i)
  <2>1. r \in 0 .. ti_map_prime - 1
    BY Slots
  <2>2. (ti_map'[r] = u /\ ~Collides(i) => u \in early' \/ cols'[u].n = NCols[v])
          => Known(i, u, v)'
    BY <1>7 DEF Known, ms_table_info_map_get
  <2>3. Collides(i) \/ ti_map[r] # u \/ u \in early \/ cols[u].n = NCols[v]
    BY <1>8 DEF Known
  <2> SUFFICES ASSUME ti_map'[r] = u, ~Collides(i) PROVE u \in early' \/ cols'[u].n = NCols[v]
    BY <2>2
  <2>c. i # e.id => r # s
    BY <1>3, <1>d DEF Collides
  <2> HIDE DEF r
  <2>4. CASE u # t
    <3>1. ti_map[r] = u
      BY <1>4, <2>1, <2>4
    <3>2. QED
      BY <1>1, <2>3, <2>4, <3>1
  <2>5. CASE u = t /\ i = e.id
    BY <1>1, <1>8, <2>5
  <2>6. CASE u = t /\ i # e.id
    <3>1. ti_map[r] = e.table
      BY <1>1, <1>4, <2>1, <2>6, <2>c
    <3>2. e.table # None
      BY <1>1
    <3>3. Collides(i)
      BY <1>1, <1>8, <2>6, <3>1, <3>2, LaterCollides DEF e, r
    <3>4. QED
      BY <3>3
  <2>7. QED
    BY <2>4, <2>5, <2>6
<1>9. KnownInv'
  <2>1. ASSUME NEW f \in Pending, f.table \in Watched PROVE Known(f.id, f.table, f.ver)'
    <3>1. f.id \in Nat /\ Known(f.id, f.table, f.ver)
      BY <1>t, <1>1, <2>1, PendingTyped DEF Inv, KnownInv
    <3>2. f.id = e.id => f.ver = e.ver
      BY <1>3 DEF Inv, StreamInv
    <3>3. QED
      BY <1>8, <2>1, <3>1, <3>2
  <2>2. ASSUME NEW u \in Watched, id[u] # 0 PROVE Known(id[u], u, ver[u])'
    <3>1. id[u] \in Nat /\ Known(id[u], u, ver[u])
      BY <1>t, <1>1, <2>2 DEF Inv, KnownInv
    <3>2. id[u] = e.id => ver[u] = e.ver
      BY <1>3 DEF Inv, StreamInv
    <3>3. QED
      BY <1>8, <1>m, <2>2, <3>1, <3>2
  <2>3. QED
    BY <1>1, <1>m, <2>1, <2>2, LessPending DEF KnownInv
<1>10. WholeInv'
  BY <1>1 DEF Inv, WholeInv
<1>11. QED
  BY <1>1, <1>5, <1>6, <1>9, <1>10, LessPending DEF Inv

LEMMA NextInv == Inv /\ [Next]_vars => Inv'
<1> SUFFICES ASSUME Inv, [Next]_vars PROVE Inv'
  OBVIOUS
<1>1. CASE UNCHANGED vars
  <2>1. Pending' = Pending
    BY <1>1 DEF vars, Pending
  <2>2. TypeOK' /\ IdInv' /\ OrderInv' /\ WholeInv'
    BY <1>1 DEF vars, Inv, TypeOK, BinlogEvent, IdInv, OrderInv, WholeInv
  <2>3. StreamInv' /\ HeldInv'
    BY <1>1, <2>1 DEF vars, Inv, StreamInv, HeldInv, Past
  <2>4. KnownInv'
    BY <1>1, <2>1 DEF vars, Inv, KnownInv, Known, Collides, ms_table_info_map_get
  <2>5. QED
    BY <2>2, <2>3, <2>4 DEF Inv
<1>2. CASE \E t \in Table : OpenTable(t) \/ AlterTable(t)
  BY <1>2, OpenTableInv, AlterTableInv
<1>3. CASE \E t \in Table : Statement(<<t>>)
  <2>1. PICK t \in Table : Statement(<<t>>)
    BY <1>3
  <2>2. <<t>> \in Seq(Table)
    OBVIOUS
  <2>3. QED
    BY <2>1, <2>2, StatementInv
<1>4. CASE \E t, u \in Table : t # u /\ Statement(<<t, u>>)
  <2>1. PICK t \in Table, u \in Table : Statement(<<t, u>>)
    BY <1>4
  <2>2. <<t, u>> \in Seq(Table)
    OBVIOUS
  <2>3. QED
    BY <2>1, <2>2, StatementInv
<1>5. CASE \E t \in Watched :
             \/ SyncFails(t) \/ SyncAborts(t) \/ FreeColumnsAborts(t)
             \/ TableMapEvent(t) \/ MetadataFails(t)
  BY <1>5, SyncFailsInv, AbortsInv, TableMapEventInv
<1>6. CASE IgnoreTableMap \/ DropRows \/ DecodeRows
  BY <1>6, IgnoreTableMapInv, DropRowsInv, DecodeRowsInv
<1>7. QED
  BY <1>1, <1>2, <1>3, <1>4, <1>5, <1>6 DEF Next

-----------------------------------------------------------------------------
(* Where an event was before the one in front of it was handled.           *)
LEMMA MapsBeforeTail ==
  ASSUME stream \in Seq(BinlogEvent), stream # <<>>, stream' = Tail(stream),
         NEW k \in DOMAIN stream'
  PROVE  /\ k \in Nat \ {0} /\ k + 1 \in DOMAIN stream /\ stream'[k] = stream[k + 1]
         /\ \A t : \A j \in MapsBefore(k + 1, t) :
              IF j = 1 THEN Head(stream).type = "map" /\ Head(stream).table = t
              ELSE j \in Nat /\ j - 1 \in 1 .. k - 1 /\ stream'[j - 1] = stream[j]
         /\ \A t : \A j \in 1 .. k - 1 :
              /\ stream'[j] = stream[j + 1]
              /\ stream'[j].type = "map" /\ stream'[j].table = t
                 => j + 1 \in MapsBefore(k + 1, t)
<1>1. /\ Len(stream) \in Nat \ {0} /\ DOMAIN stream = 1 .. Len(stream)
      /\ DOMAIN stream' = 1 .. Len(stream) - 1
      /\ Head(stream) = stream[1]
      /\ \A j \in 1 .. Len(stream) - 1 : stream'[j] = stream[j + 1]
  OBVIOUS
<1>2. k \in Nat \ {0} /\ k + 1 \in DOMAIN stream /\ stream'[k] = stream[k + 1]
  BY <1>1
<1>3. ASSUME NEW j \in 1 .. k - 1
      PROVE  stream'[j] = stream[j + 1] /\ j + 1 \in 1 .. (k + 1) - 1
  BY <1>1, <1>2
<1>4. ASSUME NEW t, NEW j \in MapsBefore(k + 1, t), j # 1
      PROVE  j \in Nat /\ j - 1 \in 1 .. k - 1 /\ stream'[j - 1] = stream[j]
  <2>1. j \in 1 .. (k + 1) - 1
    BY DEF MapsBefore
  <2>2. j - 1 \in 1 .. k - 1 /\ j \in Nat /\ (j - 1) + 1 = j
    BY <1>2, <1>4, <2>1
  <2>3. QED
    BY <1>3, <2>2
<1>5. ASSUME NEW t, 1 \in MapsBefore(k + 1, t)
      PROVE  Head(stream).type = "map" /\ Head(stream).table = t
  BY <1>1, <1>5 DEF MapsBefore
<1>6. ASSUME NEW t, NEW j \in 1 .. k - 1, stream'[j].type = "map", stream'[j].table = t
      PROVE  j + 1 \in MapsBefore(k + 1, t)
  BY <1>3, <1>6 DEF MapsBefore
<1>7. QED
  BY <1>2, <1>3, <1>4, <1>5, <1>6

(* What handling an event must do for the rows that wait: leave them the   *)
(* entry they find, and give one to those whose map it is, unless their    *)
(* columns could not be read.                                              *)
LEMMA RowsInvHandled ==
  ASSUME Inv, RowsInv, stream # <<>>, stream' = Tail(stream), status = "runs",
         \A e \in Pending :
           /\ e.table \in Watched
           /\ ~(Head(stream).type = "map" /\ Head(stream).table = e.table)
           => /\ ti_map[ms_table_info_map_get(e.id)] # None
                 => ti_map'[ms_table_info_map_get(e.id)] # None
              /\ cols'[e.table] = cols[e.table] /\ meta'[e.table] = meta[e.table],
         LET e == Head(stream) IN
           e.type = "map" /\ e.table \in Watched
             => \/ ti_map'[ms_table_info_map_get(e.id)] # None
                \/ ~cols'[e.table].whole \/ ~meta'[e.table].data \/ e.id >= IdSpace
  PROVE  RowsInv'
<1>t. stream \in Seq(BinlogEvent)
  BY DEF Inv, TypeOK
<1> SUFFICES ASSUME NEW k \in DOMAIN stream', stream'[k].type = "rows",
                    stream'[k].table \in Watched
             PROVE  MapAhead(k)' \/ MapDone(k)'
  BY DEF RowsInv
<1> DEFINE e == stream'[k]
           t == e.table
           s == ms_table_info_map_get(e.id)
<1>1. /\ k \in Nat \ {0} /\ k + 1 \in DOMAIN stream /\ e = stream[k + 1]
      /\ \A j \in MapsBefore(k + 1, t) :
           IF j = 1 THEN Head(stream).type = "map" /\ Head(stream).table = t
           ELSE j \in Nat /\ j - 1 \in 1 .. k - 1 /\ stream'[j - 1] = stream[j]
      /\ \A j \in 1 .. k - 1 :
           /\ stream'[j] = stream[j + 1]
           /\ stream'[j].type = "map" /\ stream'[j].table = t
              => j + 1 \in MapsBefore(k + 1, t)
  BY <1>t, MapsBeforeTail
<1>2. e \in Pending
  BY <1>1 DEF Pending
<1> DEFINE later == {j \in 1 .. k - 1 : stream'[j].type = "map" /\ stream'[j].table = t}
<1>3. /\ (\E j \in later : stream'[j].id = e.id /\ \A i \in later : i <= j)
         => MapAhead(k)'
      /\ later = {} /\ (ti_map'[s] # None \/ ~cols'[t].whole \/ ~meta'[t].data \/ e.id >= IdSpace)
         => MapDone(k)'
  BY DEF MapAhead, MapDone, MapsBefore, Reachable, ms_table_info_map_get
<1>4. MapAhead(k + 1) \/ MapDone(k + 1)
  BY <1>1 DEF RowsInv
<1>5. CASE MapDone(k + 1)
  <2>1. /\ MapsBefore(k + 1, t) = {}
        /\ ti_map[s] # None \/ ~cols[t].whole \/ ~meta[t].data \/ e.id >= IdSpace
    BY <1>1, <1>5 DEF MapDone, Reachable
  <2>2. later = {}
    BY <1>1, <2>1
  <2>3. ~(Head(stream).type = "map" /\ Head(stream).table = t)
    <3>1. 1 \in 1 .. (k + 1) - 1 /\ Head(stream) = stream[1]
      BY <1>1, <1>t
    <3>2. QED
      BY <2>1, <3>1 DEF MapsBefore
  <2>4. QED
    BY <1>2, <1>3, <2>1, <2>2, <2>3
<1>6. CASE MapAhead(k + 1)
  <2>1. PICK j \in MapsBefore(k + 1, t) :
          stream[j].id = e.id /\ \A i \in MapsBefore(k + 1, t) : i <= j
    BY <1>1, <1>6 DEF MapAhead
  <2>2. j \in Nat /\ k \in Nat /\ \A i \in later : i \in Nat \ {0} /\ i + 1 <= j
    <3>1. j \in Nat
      BY <1>1, <2>1
    <3>2. \A i \in later : i \in Nat \ {0} /\ i + 1 \in MapsBefore(k + 1, t)
      BY <1>1
    <3>3. QED
      BY <1>1, <2>1, <3>1, <3>2
  <2>3. CASE j = 1
    <3>1. Head(stream).type = "map" /\ Head(stream).table = t /\ Head(stream) = stream[1]
      BY <1>1, <1>t, <2>1, <2>3
    <3>2. later = {}
      <4>1. \A i \in later : i \in Nat \ {0} /\ i + 1 <= 1
        BY <2>2, <2>3
      <4>2. \A i \in Nat \ {0} : ~(i + 1 <= 1)
        OBVIOUS
      <4>3. QED
        BY <4>1, <4>2
    <3>3. ti_map'[s] # None \/ ~cols'[t].whole \/ ~meta'[t].data \/ e.id >= IdSpace
      BY <2>1, <2>3, <3>1
    <3>4. QED
      BY <1>3, <3>2, <3>3
  <2>4. CASE j # 1
    <3>1. j - 1 \in 1 .. k - 1 /\ stream'[j - 1] = stream[j] /\ j \in Nat
      BY <1>1, <2>1, <2>4
    <3>2. stream[j].type = "map" /\ stream[j].table = t
      BY <2>1 DEF MapsBefore
    <3>3. j - 1 \in later
      BY <3>1, <3>2
    <3>4. \A i \in later : i <= j - 1
      BY <2>2, <3>1
    <3>5. QED
      BY <1>3, <2>1, <3>1, <3>3, <3>4
  <2>5. QED
    BY <2>3, <2>4
<1>7. QED
  BY <1>4, <1>5, <1>6

LEMMA RowsInvStatement ==
  ASSUME Inv, RowsInv, NEW ts \in Seq(Table), Statement(ts),
         \A i, j \in DOMAIN ts : ts[i] = ts[j] => i = j
  PROVE  RowsInv'
<1> DEFINE n == Len(stream)
           m == Len(ts)
<1>t. stream \in Seq(BinlogEvent)
  BY DEF Inv, TypeOK
<1>1. UNCHANGED <<cols, meta, ti_map, status>>
  BY DEF Statement, master
<1>n. n = Len(stream) /\ m = Len(ts)
  OBVIOUS
<1> HIDE DEF n, m
<1>2. Layout(ts, n, m)
  BY <1>t, <1>n, Appended
<1>3. \A k \in 1 .. m :
        /\ TypeMap(ts[k]).type = "map" /\ TypeMap(ts[k]).table = ts[k]
        /\ TypeMap(ts[k]).id = id[ts[k]] /\ TypeRows(ts[k]).id = id[ts[k]]
        /\ TypeRows(ts[k]).type = "rows" /\ TypeRows(ts[k]).table = ts[k]
  BY DEF TypeMap, TypeRows
<1>4. /\ n \in Nat /\ m \in Nat /\ DOMAIN ts = 1 .. m /\ DOMAIN stream = 1 .. n
      /\ \A k \in 1 .. n : stream'[k] = stream[k]
      /\ \A k \in 1 .. m : stream'[n + k] = TypeMap(ts[k])
      /\ \A k \in 1 .. m : stream'[n + m + k] = TypeRows(ts[k])
      /\ \A k \in DOMAIN stream' :
           k \in 1 .. n \/ \E l \in 1 .. m : k = n + l \/ k = n + m + l
      /\ DOMAIN stream' = 1 .. n + m + m
  BY <1>2 DEF Layout
<1> SUFFICES ASSUME status = "runs",
                    NEW k \in DOMAIN stream', stream'[k].type = "rows",
                    stream'[k].table \in Watched
             PROVE  MapAhead(k)' \/ MapDone(k)'
  BY <1>1 DEF RowsInv
<1> DEFINE t == stream'[k].table
           s == ms_table_info_map_get(stream'[k].id)
           before == {j \in 1 .. k - 1 : stream'[j].type = "map" /\ stream'[j].table = t}
<1>5. /\ (\E j \in before : stream'[j].id = stream'[k].id /\ \A i \in before : i <= j)
         => MapAhead(k)'
      /\ before = {} /\ (ti_map[s] # None \/ ~cols[t].whole \/ ~meta[t].data \/ stream'[k].id >= IdSpace)
         => MapDone(k)'
  BY <1>1 DEF MapAhead, MapDone, MapsBefore, Reachable, ms_table_info_map_get
<1>6. CASE k \in 1 .. n
  <2>1. stream'[k] = stream[k] /\ \A j \in 1 .. k - 1 : stream'[j] = stream[j]
    BY <1>4, <1>6
  <2>2. before = MapsBefore(k, stream[k].table)
    BY <2>1 DEF MapsBefore
  <2>3. MapAhead(k) \/ MapDone(k)
    BY <1>4, <1>6, <2>1 DEF RowsInv
  <2>4. \A j \in before : stream'[j] = stream[j]
    BY <2>1
  <2>5. QED
    BY <1>5, <2>1, <2>2, <2>3, <2>4 DEF MapAhead, MapDone, Reachable
<1>7. CASE \E l \in 1 .. m : k = n + l
  <2>1. PICK l \in 1 .. m : k = n + l
    BY <1>7
  <2>2. stream'[k] = TypeMap(ts[l]) /\ TypeMap(ts[l]).type = "map"
    BY <1>3, <1>4, <2>1
  <2>3. QED
    BY <2>2
<1>8. CASE \E l \in 1 .. m : k = n + m + l
  <2>1. PICK p \in 1 .. m : k = n + m + p
    BY <1>8
  <2>2. stream'[k].id = id[ts[p]] /\ stream'[k].table = ts[p]
    BY <1>3, <1>4, <2>1
  <2>3. n + p \in 1 .. k - 1 /\ n + p \in Nat
    BY <1>4, <2>1
  <2>4. n + p \in before /\ stream'[n + p].id = stream'[k].id
    BY <1>3, <1>4, <2>1, <2>2, <2>3
  <2>5. ASSUME NEW i \in before PROVE i <= n + p
    <3>1. i \in Nat /\ i \in 1 .. k - 1 /\ i \in DOMAIN stream'
      BY <1>4, <2>1
    <3>2. CASE \E l \in 1 .. m : i = n + m + l
      BY <1>3, <1>4, <3>2
    <3>3. CASE \E l \in 1 .. m : i = n + l
      <4>1. PICK l \in 1 .. m : i = n + l
        BY <3>3
      <4>2. ts[l] = ts[p]
        BY <1>3, <1>4, <2>2, <4>1
      <4>3. l = p
        BY <1>4, <2>1, <4>1, <4>2
      <4>4. QED
        BY <1>4, <2>1, <4>1, <4>3
    <3>4. CASE i \in 1 .. n
      BY <1>4, <2>1, <3>1, <3>4
    <3>5. QED
      BY <1>4, <3>1, <3>2, <3>3, <3>4
  <2>6. QED
    BY <1>5, <2>4, <2>5
<1>9. QED
  BY <1>4, <1>6, <1>7, <1>8

LEMMA RowsInvNext == Inv /\ RowsInv /\ [Next]_vars => RowsInv'
<1> SUFFICES ASSUME Inv, RowsInv, [Next]_vars PROVE RowsInv'
  OBVIOUS
<1> USE WatchedAssumption
<1>t. /\ cols \in [Watched -> [ver : Version, n : Nat, whole : BOOLEAN]]
      /\ ti_map \in [0 .. ti_map_prime - 1 -> Watched \cup {None}]
      /\ stream \in Seq(BinlogEvent)
  BY DEF Inv, TypeOK
<1> DEFINE Same == UNCHANGED <<stream, ti_map, cols, meta, status>>
<1>1. ASSUME Same PROVE RowsInv'
  BY <1>1 DEF RowsInv, MapAhead, MapDone, MapsBefore, Reachable, ms_table_info_map_get
<1>2. CASE UNCHANGED vars
  BY <1>1, <1>2 DEF vars
<1>3. CASE \E t \in Table : OpenTable(t) \/ AlterTable(t)
  BY <1>1, <1>3 DEF OpenTable, AlterTable
<1>4. CASE \E t \in Table : Statement(<<t>>)
  <2>1. PICK t \in Table : Statement(<<t>>)
    BY <1>4
  <2>2. <<t>> \in Seq(Table) /\ \A i, j \in DOMAIN <<t>> : <<t>>[i] = <<t>>[j] => i = j
    OBVIOUS
  <2>3. QED
    BY <2>1, <2>2, RowsInvStatement
<1>5. CASE \E t, u \in Table : t # u /\ Statement(<<t, u>>)
  <2>1. PICK t \in Table, u \in Table : t # u /\ Statement(<<t, u>>)
    BY <1>5
  <2>2. /\ <<t, u>> \in Seq(Table)
        /\ \A i, j \in DOMAIN <<t, u>> : <<t, u>>[i] = <<t, u>>[j] => i = j
    BY <2>1
  <2>3. QED
    BY <2>1, <2>2, RowsInvStatement
<1>6. CASE IgnoreTableMap \/ DropRows \/ DecodeRows
  <2>1. /\ stream # <<>> /\ stream' = Tail(stream) /\ status = "runs"
        /\ cols' = cols /\ meta' = meta /\ ti_map' = ti_map
        /\ ~(Head(stream).type = "map" /\ Head(stream).table \in Watched)
    BY <1>6 DEF IgnoreTableMap, DropRows, DecodeRows, Handling
  <2>2. QED
    BY <2>1, RowsInvHandled
<1>7. CASE \E t \in Watched : SyncAborts(t) \/ FreeColumnsAborts(t)
  <2>1. status' # "runs"
    BY <1>7 DEF SyncAborts, FreeColumnsAborts
  <2>2. QED
    BY <2>1 DEF RowsInv
<1>8. ASSUME NEW t \in Watched, SyncFails(t) PROVE RowsInv'
  <2>1. /\ stream # <<>> /\ stream' = Tail(stream) /\ status = "runs"
        /\ ti_map' = ti_map /\ meta' = meta
        /\ Head(stream).table = t /\ Head(stream).type = "map"
    BY <1>8 DEF SyncFails, Resync, Handling
  <2>2. PICK k \in 0 .. NCols[ver[t]] :
          cols' = [cols EXCEPT ![t] = [ver |-> ver[t], n |-> k, whole |-> FALSE]]
    BY <1>8 DEF SyncFails
  <2>3. ~cols'[t].whole /\ \A u \in Watched : u # t => cols'[u] = cols[u]
    BY <1>t, <2>2
  <2>4. QED
    BY <2>1, <2>3, RowsInvHandled
<1>9. ASSUME NEW t \in Watched, TableMapEvent(t) \/ MetadataFails(t) PROVE RowsInv'
  <2> SUFFICES ASSUME status' = "runs" PROVE RowsInv'
    BY DEF RowsInv
  <2> DEFINE e == Head(stream)
             s == e.id % ti_map_prime
  <2>1. /\ stream # <<>> /\ stream' = Tail(stream) /\ status = "runs"
        /\ e.table = t
        /\ \/ ti_map' = [ti_map EXCEPT ![s] = t]
           \/ ti_map' = ti_map /\ meta' = [meta EXCEPT ![t] = [len |-> 0, data |-> FALSE]]
        /\ \A u \in Watched \ {t} : cols'[u] = cols[u]
        /\ \/ meta' = meta \/ meta' = [meta EXCEPT ![t] = [len |-> MetaLen[e.ver], data |-> TRUE]]
           \/ meta' = [meta EXCEPT ![t] = [len |-> 0, data |-> FALSE]]
    BY <1>9, TableMapEventEffect
  <2>2. e.type = "map" /\ e.id \in Nat
    BY <1>9, <2>1, HeadPending DEF TableMapEvent, MetadataFails, Handling
  <2>3. /\ s \in 0 .. ti_map_prime - 1
        /\ e.id >= IdSpace \/ ms_table_info_map_get(e.id) = s
    <3>1. e.id < IdSpace \/ e.id >= IdSpace
      BY <2>2, SizesAssumption
    <3>2. QED
      BY <2>2, <3>1, Slots
  <2> HIDE DEF s
  <2>m. meta \in [Watched -> [len : Nat, data : BOOLEAN]]
    BY DEF Inv, TypeOK
  <2>4. (ti_map'[s] = t \/ ~meta'[t].data) /\ t # None
    <3>1. CASE ti_map' = [ti_map EXCEPT ![s] = t]
      BY <1>t, <2>3, <3>1
    <3>2. CASE meta' = [meta EXCEPT ![t] = [len |-> 0, data |-> FALSE]]
      BY <2>m, <3>2
    <3>3. QED
      BY <2>1, <3>1, <3>2
  <2>u. \A u \in Watched \ {t} : meta'[u] = meta[u]
    BY <2>m, <2>1
  <2>5. \A r \in 0 .. ti_map_prime - 1 : ti_map[r] # None => ti_map'[r] # None
    BY <1>t, <2>1, <2>3
  <2>6. \A f \in Pending : ms_table_info_map_get(f.id) \in 0 .. ti_map_prime - 1
    BY <1>t, PendingTyped, Slots
  <2>7. QED
    BY <2>1, <2>2, <2>3, <2>4, <2>u, <2>5, <2>6, RowsInvHandled
<1>10. QED
  BY <1>2, <1>3, <1>4, <1>5, <1>6, <1>7, <1>8, <1>9 DEF Next

-----------------------------------------------------------------------------
(* The state has its type. *)
THEOREM TypeCorrect == Spec => []TypeOK
<1>1. Inv => TypeOK
  BY DEF Inv
<1>2. QED
  BY <1>1, InitInv, NextInv, PTL DEF Spec

LEMMA InvAlways == Spec => [](Inv /\ RowsInv)
<1>1. (Inv /\ RowsInv) /\ [Next]_vars => (Inv /\ RowsInv)'
  BY NextInv, RowsInvNext
<1>2. QED
  BY <1>1, InitInv, PTL DEF Spec

(* Rows that are decoded without a collision of ids are those of their     *)
(* table, with as many columns.                                            *)
LEMMA DecodedForCause == Inv => MisdecodedOnlyForCause
<1> SUFFICES ASSUME Inv PROVE MisdecodedOnlyForCause
  OBVIOUS
<1> DEFINE e == Head(stream)
<1> SUFFICES ASSUME Decodes, ~Collides(e.id)
             PROVE  /\ Found = e.table
                    /\ \/ e.table \in early
                       \/ /\ cols[e.table].n = NCols[e.ver]
                          /\ cols[e.table].whole => NCols[cols[e.table].ver] = NCols[e.ver]
  BY DEF MisdecodedOnlyForCause
<1>1. stream # <<>> /\ Found # None /\ Found = ti_map[ms_table_info_map_get(e.id)]
      /\ status = "runs"
  BY DEF Decodes, Handling, Found
<1>2. e \in Pending /\ e.id \in Nat /\ e.table \in Table
  BY <1>1, HeadPending
<1> HIDE DEF e
<1>3. Past(e.id, Found)
  BY <1>1, <1>2, FoundIsHeld
<1>4. Found = e.table
  BY <1>2, <1>3 DEF Past
<1>5. Found \in Watched
  <2>1. ti_map \in [0 .. ti_map_prime - 1 -> Watched \cup {None}]
    BY DEF Inv, TypeOK
  <2>2. QED
    BY <1>1, <1>2, <2>1, Slots
<1>6. e.table \in early \/ cols[e.table].n = NCols[e.ver]
  BY <1>1, <1>2, <1>4, <1>5 DEF Inv, KnownInv, Known
<1>7. cols[e.table].whole => cols[e.table].n = NCols[cols[e.table].ver]
  BY <1>4, <1>5 DEF Inv, WholeInv
<1>8. QED
  BY <1>4, <1>6, <1>7

(* Whatever reads of columns fail and however tables are altered, rows are *)
(* decoded as rows of another table only where ids collide, and with       *)
(* another number of columns only after a read behind an ALTER TABLE.      *)
THEOREM RowsMisdecodedOnlyForCause == Spec => []MisdecodedOnlyForCause
BY InvAlways, DecodedForCause, PTL

LEMMA DroppedForCause == Inv /\ RowsInv => WatchedDroppedOnlyAfterFailedSync
<1> SUFFICES ASSUME Inv, RowsInv PROVE WatchedDroppedOnlyAfterFailedSync
  OBVIOUS
<1> DEFINE e == Head(stream)
<1> SUFFICES ASSUME Handling("rows"), e.table \in Watched, Found = None
             PROVE  ~cols[e.table].whole \/ ~meta[e.table].data \/ e.id >= IdSpace
  BY DEF WatchedDroppedOnlyAfterFailedSync
<1>1. stream # <<>> /\ status = "runs" /\ e.type = "rows"
  BY DEF Handling
<1>2. e = stream[1] /\ 1 \in DOMAIN stream
  BY <1>1, HeadPending
<1>3. MapsBefore(1, e.table) = {}
  BY DEF MapsBefore
<1>4. MapDone(1)
  BY <1>1, <1>2, <1>3 DEF RowsInv, MapAhead
<1>5. QED
  BY <1>2, <1>4 DEF MapDone, Reachable, Found

(* Rows of a watched table are dropped only after a read of its columns    *)
(* that failed, without memory for its metadata, and for ids beyond 32     *)
(* bits.                                                                   *)
THEOREM DropsOnlyAfterFailedSync == Spec => []WatchedDroppedOnlyAfterFailedSync
BY InvAlways, DroppedForCause, PTL

LEMMA NotAbove == \A x \in Nat : ~(x > x)
OBVIOUS

(* A column has no entry only behind an ALTER TABLE or where ids collide,  *)
(* never because a read of the columns failed.                             *)
THEOREM OutOfRangeOnlyForCause == Spec => IndexOutOfRangeOnlyForCause
<1> DEFINE Cause == status # status' /\ status' = "assert in ms_array_get" =>
                      LET e == Head(stream) IN
                        IF e.type = "map" THEN Early(e.table)
                        ELSE Collides(e.id) \/ e.table \in early
<1>1. Inv /\ [Next]_vars => [Cause]_vars
  <2> SUFFICES ASSUME Inv, Next, status # status', status' = "assert in ms_array_get"
               PROVE  IF Head(stream).type = "map" THEN Early(Head(stream).table)
                      ELSE Collides(Head(stream).id) \/ Head(stream).table \in early
    OBVIOUS
  <2> DEFINE e == Head(stream)
  <2>1. CASE \E t \in Watched : TableMapEvent(t)
    <3>1. PICK t \in Watched : TableMapEvent(t)
      BY <2>1
    <3>2. /\ e.table = t /\ NCols[e.ver] > cols'[t].n
          /\ cols'[t].n = NCols[e.ver] \/ Early(t)
      BY <3>1, TableMapEventEffect
    <3>3. e.type = "map" /\ NCols[e.ver] \in Nat
      BY <3>1, HeadPending, VersionAssumption DEF TableMapEvent, Handling
    <3>4. \A x \in Nat : ~(x > x)
      BY NotAbove
    <3>5. Early(t)
      BY <3>2, <3>3, <3>4, Zenon
    <3>6. QED
      BY <3>2, <3>3, <3>5
  <2>2. CASE DecodeRows
    <3>1. /\ stream # <<>> /\ status = "runs" /\ e.type = "rows" /\ Found # None
          /\ NCols[e.ver] > cols[Found].n
          /\ Found = ti_map[ms_table_info_map_get(e.id)]
      BY <2>2 DEF DecodeRows, Handling, Found, KnownCols
    <3>2. e \in Pending /\ e.id \in Nat /\ e.table \in Table /\ NCols[e.ver] \in Nat
      BY <3>1, HeadPending, VersionAssumption
    <3> HIDE DEF e
    <3> SUFFICES ASSUME ~Collides(e.id) PROVE e.table \in early
      BY <3>1 DEF e
    <3>3. Past(e.id, Found)
      BY <3>1, <3>2, FoundIsHeld
    <3>4. Found = e.table
      BY <3>2, <3>3 DEF Past
    <3>5. Found \in Watched
      <4>1. ti_map \in [0 .. ti_map_prime - 1 -> Watched \cup {None}]
        BY DEF Inv, TypeOK
      <4>2. QED
        BY <3>1, <3>2, <4>1, Slots
    <3>6. e.table \in early \/ cols[e.table].n = NCols[e.ver]
      BY <3>1, <3>2, <3>4, <3>5 DEF Inv, KnownInv, Known
    <3>7. \A x \in Nat : ~(x > x)
      BY NotAbove
    <3>8. QED
      BY <3>1, <3>2, <3>4, <3>6, <3>7, Zenon
  <2>3. QED
    BY <2>1, <2>2
    DEF Next, OpenTable, AlterTable, Statement, IgnoreTableMap, SyncFails, SyncAborts,
        MetadataFails, FreeColumnsAborts, DropRows
<1>2. [][Cause]_vars => IndexOutOfRangeOnlyForCause
  BY DEF IndexOutOfRangeOnlyForCause
<1>3. QED
  BY <1>1, <1>2, InvAlways, PTL DEF Spec
=============================================================================
