------------------------- MODULE HttpsqsQueueProofs -------------------------
(***************************************************************************)
(* Proofs about the row queue, for every ring size, number of rows and     *)
(* number of faults.                                                       *)
(***************************************************************************)
EXTENDS HttpsqsQueue, TLAPS

-----------------------------------------------------------------------------
(* Arithmetic of the ring, apart from any state.                           *)

(* httpsqs_now_putpos moves the write position one record ahead and never  *)
(* onto the read position it saw.                                          *)
LEMMA NextPutpos ==
  ASSUME NEW n \in Nat, NEW g \in Slot, NEW m \in Nat, NEW p \in Slot,
         Cursor(n, g), Cursor(m, p), Ahead(m, p, n, g), Fits(m, n),
         now_putpos(p, g) # 0
  PROVE  /\ now_putpos(p, g) \in Slot
         /\ now_putpos(p, g) = IF p = MaxQueue THEN 1 ELSE p + 1
         /\ Cursor(m + 1, now_putpos(p, g))
         /\ Ahead(m + 1, now_putpos(p, g), n, g)
         /\ Fits(m + 1, n)
  BY MaxQueueAssumption DEF Slot, Cursor, Ahead, Fits, now_putpos

(* A full answer means that at most one record is free.                    *)
LEMMA FullPutpos ==
  ASSUME NEW n \in Nat, NEW g \in Slot, NEW m \in Nat, NEW p \in Slot,
         Cursor(n, g), Cursor(m, p), Ahead(m, p, n, g), Fits(m, n),
         now_putpos(p, g) = 0
  PROVE  m - n >= MaxQueue - 1
  BY MaxQueueAssumption DEF Slot, Cursor, Ahead, Fits, now_putpos

(* Two cursors ahead of a third, both within the bound, are ahead of each  *)
(* other.                                                                  *)
LEMMA AheadSplits ==
  ASSUME NEW n \in Nat, NEW g \in Slot, NEW k \in Nat, NEW q \in Slot,
         NEW m \in Nat, NEW p \in Slot,
         Cursor(n, g), Cursor(k, q), Cursor(m, p),
         Ahead(k, q, n, g), Ahead(m, p, n, g), k <= m, Fits(m, n)
  PROVE  Ahead(m, p, k, q) /\ Fits(m, k)
  BY MaxQueueAssumption DEF Slot, Cursor, Ahead, Fits

(* The consumer's next position is the next cursor, and still behind the   *)
(* write position.                                                         *)
LEMMA NextGetpos ==
  ASSUME NEW n \in Nat, NEW g \in Slot, NEW k \in Nat, NEW q \in Slot,
         NEW m \in Nat, NEW p \in Slot,
         Cursor(n, g), Cursor(k, q), Cursor(m, p),
         Ahead(k, q, n, g), Ahead(m, p, n, g), k <= m, Fits(m, n), q # p
  PROVE  /\ k < m
         /\ next_getpos(q) \in Slot
         /\ Cursor(k + 1, next_getpos(q))
         /\ Ahead(k + 1, next_getpos(q), n, g)
         /\ next_getpos(q) = SlotBehind(p, m - (k + 1))
  BY MaxQueueAssumption DEF Slot, Cursor, Ahead, Fits, next_getpos, SlotBehind

-----------------------------------------------------------------------------
IInv == TypeOK /\ QueueInv

(* Every step keeps the types; that a row being stored is one of the       *)
(* master's is part of the invariant.                                      *)
LEMMA TypeStep == IInv /\ [Next]_vars => TypeOK'
<1> SUFFICES ASSUME TypeOK, QueueInv, [Next]_vars PROVE TypeOK'
  BY DEF IInv
<1>r. pc # "idle" => row \in Row
  BY DEF QueueInv, ClaimInv
<1> USE MaxQueueAssumption, BoundsAssumption DEF TypeOK, ghosts
<1>1. CASE NowPutpos
  <2>0. cache.putpos \in Slot
    BY DEF Database
  <2>1. pos' \in Slot
    BY <1>1, <2>0 DEF NowPutpos, now_putpos, Slot
  <2>2. row \in Row
    BY <1>1 DEF NowPutpos, Row
  <2>3. cache' \in Database
    <3>1. Append(cache.log, row) \in Seq(Row)
      BY <2>2 DEF Database
    <3>2. cache.unqueued \cup {row} \in SUBSET Row
      BY <2>2 DEF Database
    <3>3. [cache EXCEPT !.unqueued = @ \cup {row}] \in Database
      BY <3>2 DEF Database
    <3>4. pos' # 0 => [cache EXCEPT !.putpos = pos', !.log = Append(@, row)] \in Database
      BY <2>1, <3>1 DEF Database
    <3>5. QED
      BY <1>1, <3>3, <3>4 DEF NowPutpos
  <2>4. pos' \in Key
    BY <2>1 DEF Slot, Key
  <2>5. QED
    BY <1>1, <2>3, <2>4 DEF NowPutpos
<1>2. CASE PutposFails
  <2>0. cache.putpos \in Slot
    BY DEF Database
  <2>1. pos' \in Key
    BY <1>2, <2>0 DEF PutposFails, Slot, Key
  <2>2. cache' \in Database
    <3>1. cache.unqueued \cup {row} \in SUBSET Row
      BY <1>2 DEF PutposFails, Row, Database
    <3>2. [cache EXCEPT !.unqueued = @ \cup {row}] \in Database
      BY <3>1 DEF Database
    <3>3. QED
      BY <1>2, <3>2 DEF PutposFails
  <2>3. QED
    BY <1>2, <2>1, <2>2 DEF PutposFails
<1>3. CASE PutRow
  <2>1. cache' \in Database
    BY <1>3, <1>r DEF PutRow, Database
  <2>2. QED
    BY <1>3, <2>1 DEF PutRow
<1>4. CASE PutRowFails
  <2>1. cache' \in Database
    <3>1. Len(cache.log) \in Nat
      BY DEF Database
    <3>2. cache.holes \cup {Len(cache.log)} \in SUBSET Nat
      BY <3>1 DEF Database
    <3>3. [cache EXCEPT !.holes = @ \cup {Len(cache.log)}] \in Database
      BY <3>2 DEF Database
    <3>4. QED
      BY <1>4, <3>3 DEF PutRowFails
  <2>2. QED
    BY <1>4, <1>r, <2>1 DEF PutRowFails, Row
<1>e. row \in Row => EventEnd[row] \in 0 .. MaxRows
  BY EventAssumption DEF Row
<1>5. CASE FlushBinlogInfo \/ PositionFails \/ SyncFails
  <2>r. pc = "sync" /\ row \in Row
    BY <1>5, <1>r DEF FlushBinlogInfo, PositionFails, SyncFails
  <2>1. cache' \in Database
    <3>1. EventEnd[row] \in 0 .. MaxRows /\ row \in 0 .. MaxRows
      BY <1>e, <2>r DEF Row
    <3>2. [cache EXCEPT !.done = EventEnd[row], !.last = row] \in Database
      BY <3>1 DEF Database
    <3>3. QED
      BY <1>5, <3>2 DEF FlushBinlogInfo, PositionFails, SyncFails
  <2>2. pc' = "idle" /\ row' \in 1 .. MaxRows + 1
    BY <1>5, <2>r DEF FlushBinlogInfo, PositionFails, SyncFails, Row
  <2>3. unmarked' \subseteq Row /\ cut' \subseteq Row
    BY <1>5, <2>r DEF FlushBinlogInfo, PositionFails, SyncFails, ghosts
  <2>4. faults' \in 0 .. MaxFaults
    BY <1>5 DEF FlushBinlogInfo, PositionFails, SyncFails
  <2>5. QED
    BY <1>5, <2>1, <2>2, <2>3, <2>4
       DEF FlushBinlogInfo, PositionFails, SyncFails, WriteBack
<1>6. CASE RefreshGetpos
  BY <1>6 DEF RefreshGetpos
<1>7. CASE Reconnect
  BY <1>7 DEF Reconnect, Database
<1>8. CASE Reload
  <2>1. cache.done + 1 \in 1 .. MaxRows + 1
    BY DEF Database
  <2>2. QED
    BY <1>8, <2>1 DEF Reload, WriteBack
<1>9. CASE CrashAndRestart
  <2>1. file.done + 1 \in 1 .. MaxRows + 1
    BY DEF Database
  <2>2. AfterLast(file) \subseteq Row
    BY DEF AfterLast, Database, Row
  <2>3. cut' \subseteq Row
    BY <1>9, <2>2 DEF CrashAndRestart
  <2>4. QED
    BY <1>9, <2>1, <2>3 DEF CrashAndRestart, Key
<1>10. CASE Get
  <2>1. getpos' \in Slot
    BY <1>10 DEF Get, next_getpos, Slot
  <2>2. out' \in Row \cup {Nothing}
    BY <1>10, <2>1 DEF Get, Database, Slot, Key
  <2>3. QED
    BY <1>10, <2>1, <2>2 DEF Get
<1>11. CASE UNCHANGED vars
  BY <1>11 DEF vars, ghosts
<1>12. QED
  BY <1>1, <1>2, <1>3, <1>4, <1>5, <1>6, <1>7, <1>8, <1>9, <1>10, <1>11 DEF Next

-----------------------------------------------------------------------------
(* What the invariant says of lengths. *)
LEMMA Lengths ==
  ASSUME TypeOK
  PROVE  /\ Len(cache.log) \in Nat /\ Len(file.log) \in Nat
         /\ cache.putpos \in Slot /\ file.putpos \in Slot
         /\ DOMAIN cache.rec = Key /\ DOMAIN file.rec = Key
  BY DEF TypeOK, Database

(* A position is claimed: the write cursor moves on, the rows that wait    *)
(* stay where they are.                                                    *)
LEMMA NowPutposStep == IInv /\ NowPutpos => QueueInv'
<1> SUFFICES ASSUME IInv, NowPutpos PROVE QueueInv'
  OBVIOUS
<1>t. TypeOK /\ QueueInv
  BY DEF IInv
<1>l. /\ Len(cache.log) \in Nat /\ Len(file.log) \in Nat
      /\ cache.putpos \in Slot /\ file.putpos \in Slot
      /\ seen_get \in Slot /\ seen_taken \in Nat /\ taken \in Nat
  BY <1>t, Lengths DEF TypeOK
<1>r. row \in Row
  BY <1>t DEF NowPutpos, TypeOK, Row
<1>1. CASE pos' = 0
  <2>1. /\ cache'.putpos = cache.putpos /\ cache'.log = cache.log
        /\ cache'.holes = cache.holes /\ cache'.rec = cache.rec
    BY <1>1, <1>t DEF NowPutpos, TypeOK, Database
  <2>2. ~Claimed /\ ~Claimed'
    BY <1>1 DEF Claimed, NowPutpos
  <2>3. UNCHANGED <<file, getpos, seen_get, taken, seen_taken>>
    BY DEF NowPutpos
  <2>4. RingInv'
    BY <2>1, <2>3, <1>t DEF QueueInv, RingInv, Cursor, Ahead
  <2>5. ClaimInv'
    BY <2>1, <2>2, <1>1, <1>t, <1>r DEF QueueInv, ClaimInv, NowPutpos
  <2>6. LogInv'
    BY <2>1, <2>3, <1>t DEF QueueInv, LogInv
  <2>7. RecordInv'
    BY <2>1, <2>2, <2>3, <1>t DEF QueueInv, RecordInv, Holds
  <2>8. QED
    BY <2>4, <2>5, <2>6, <2>7 DEF QueueInv
<1>2. CASE pos' # 0
  <2> DEFINE n == Len(cache.log)
  <2>1. /\ cache'.putpos = pos' /\ cache'.log = Append(cache.log, row)
        /\ cache'.holes = cache.holes /\ cache'.rec = cache.rec
    BY <1>2, <1>t DEF NowPutpos, TypeOK, Database
  <2>2. /\ Len(cache'.log) = n + 1 /\ cache'.log[n + 1] = row
        /\ \A k \in 1 .. n : cache'.log[k] = cache.log[k]
    BY <2>1, <1>t, <1>r DEF TypeOK, Database
  <2>3. UNCHANGED <<file, getpos, seen_get, taken, seen_taken, row>>
    BY DEF NowPutpos
  <2>4. /\ pos' = now_putpos(cache.putpos, seen_get)
        /\ ~Claimed /\ Claimed'
    BY <1>2 DEF NowPutpos, Claimed
  <2>5. /\ Cursor(seen_taken, seen_get) /\ Cursor(n, cache.putpos)
        /\ Ahead(n, cache.putpos, seen_taken, seen_get) /\ Fits(n, seen_taken)
    BY <1>t DEF QueueInv, RingInv, Fits
  <2>6. /\ pos' \in Slot
        /\ pos' = IF cache.putpos = MaxQueue THEN 1 ELSE cache.putpos + 1
        /\ Cursor(n + 1, pos') /\ Ahead(n + 1, pos', seen_taken, seen_get)
        /\ Fits(n + 1, seen_taken)
    BY <1>2, <1>l, <2>4, <2>5, NextPutpos
  <2>7. RingInv'
    <3>1. /\ Cursor(seen_taken, seen_get)' /\ Cursor(taken, getpos)'
          /\ Cursor(Len(file.log), file.putpos)'
          /\ Ahead(taken, getpos, seen_taken, seen_get)'
          /\ Ahead(Len(file.log), file.putpos, seen_taken, seen_get)'
          /\ (taken <= Len(file.log))'
      BY <2>3, <1>t DEF QueueInv, RingInv, Cursor, Ahead
    <3>2. /\ Cursor(Len(cache.log), cache.putpos)'
          /\ Ahead(Len(cache.log), cache.putpos, seen_taken, seen_get)'
      BY <2>1, <2>2, <2>3, <2>6 DEF Cursor, Ahead
    <3>3. (Len(file.log) <= Len(cache.log))'
      BY <1>l, <2>2, <2>3, <1>t DEF QueueInv, RingInv
    <3>4. Fits(Len(cache.log), seen_taken)'
      BY <2>2, <2>3, <2>6 DEF Fits
    <3>5. QED
      BY <3>1, <3>2, <3>3, <3>4 DEF RingInv
  <2>8. ClaimInv'
    <3>1. ClaimInv /\ Len(file.log) <= n
      BY <1>t DEF QueueInv, RingInv
    <3>2. (\A k \in cache.holes : k \in 1 .. Len(cache.log))'
      BY <1>l, <2>1, <2>2, <3>1 DEF ClaimInv
    <3>3. (\A k \in file.holes : k \in 1 .. Len(file.log))'
      BY <2>3, <3>1 DEF ClaimInv
    <3>4. n + 1 \notin cache.holes
      BY <1>l, <3>1 DEF ClaimInv
    <3>5. Len(file'.log) < Len(cache'.log)
      BY <1>l, <2>2, <2>3, <3>1
    <3>6. row' \in Row
      BY <1>r, <2>3
    <3>7. QED
      BY <2>1, <2>2, <2>3, <2>4, <3>2, <3>3, <3>4, <3>5, <3>6 DEF ClaimInv
  <2>9. LogInv'
    BY <1>l, <1>t, <2>1, <2>2, <2>3 DEF QueueInv, LogInv, RingInv
  <2>10. Holds(file, seen_taken, Len(file.log))'
    BY <2>3, <1>t DEF QueueInv, RecordInv, Holds
  <2>11. Holds(cache', seen_taken, n)
    <3> SUFFICES ASSUME NEW k \in seen_taken + 1 .. n, k \notin cache.holes
                 PROVE  cache'.rec[SlotBehind(cache'.putpos, Len(cache'.log) - k)]
                          = cache'.log[k]
      BY <2>1 DEF Holds
    <3>1. SlotBehind(cache'.putpos, n + 1 - k) = SlotBehind(cache.putpos, n - k)
      <4>1. seen_taken <= n
        BY <2>5 DEF Ahead
      <4>2. SlotBehind(pos', n + 1 - k) = SlotBehind(cache.putpos, n - k)
        <5>1. /\ n \in Nat /\ cache.putpos \in Slot /\ pos' \in Slot
              /\ Fits(n + 1, seen_taken) /\ seen_taken \in Nat
              /\ pos' = IF cache.putpos = MaxQueue THEN 1 ELSE cache.putpos + 1
          BY <1>l, <2>6
        <5> HIDE DEF n
        <5>2. QED
          BY ONLY <4>1, <5>1, k \in seen_taken + 1 .. n, MaxQueueAssumption
             DEF Slot, Fits, SlotBehind
      <4>3. QED
        BY <2>1, <4>2
    <3>2. cache.rec[SlotBehind(cache.putpos, n - k)] = cache.log[k]
      BY <1>t, <2>4 DEF QueueInv, RecordInv, Holds
    <3>3. k \in 1 .. n
      BY <1>l
    <3>4. QED
      BY <2>1, <2>2, <3>1, <3>2, <3>3
  <2>12. RecordInv'
    <3>1. (IF Claimed THEN Len(cache.log) - 1 ELSE Len(cache.log))' = n
      BY <1>l, <2>2, <2>4
    <3>2. seen_taken' = seen_taken
      BY <2>3
    <3>3. Holds(cache', seen_taken',
                (IF Claimed THEN Len(cache.log) - 1 ELSE Len(cache.log))')
      BY ONLY <2>11, <3>1, <3>2
    <3>4. QED
      BY <2>10, <3>3 DEF RecordInv
  <2>13. QED
    BY <2>7, <2>8, <2>9, <2>12 DEF QueueInv
<1>3. QED
  BY <1>1, <1>2

(* The record of the claimed position is written: it is none that waits.   *)
LEMMA PutRowStep == IInv /\ PutRow => QueueInv'
<1> SUFFICES ASSUME IInv, PutRow PROVE QueueInv'
  OBVIOUS
<1>t. TypeOK /\ QueueInv
  BY DEF IInv
<1>l. /\ Len(cache.log) \in Nat /\ Len(file.log) \in Nat
      /\ cache.putpos \in Slot /\ pos \in Key /\ seen_taken \in Nat
      /\ DOMAIN cache.rec = Key
  BY <1>t, Lengths DEF TypeOK
<1>1. /\ cache'.putpos = cache.putpos /\ cache'.log = cache.log
      /\ cache'.holes = cache.holes
      /\ cache'.rec = [cache.rec EXCEPT ![pos] = row]
  BY <1>t DEF PutRow, TypeOK, Database
<1>2. UNCHANGED <<file, getpos, seen_get, taken, seen_taken, row, pos>>
  BY DEF PutRow
<1>3. pc = "row" /\ pc' = "sync" /\ ~Claimed'
  BY DEF PutRow, Claimed
<1>4. RingInv'
  BY <1>1, <1>2, <1>t DEF QueueInv, RingInv, Cursor, Ahead
<1>5. ClaimInv'
  BY <1>1, <1>2, <1>3, <1>t DEF QueueInv, ClaimInv
<1>6. LogInv'
  BY <1>1, <1>2, <1>t DEF QueueInv, LogInv
<1>7. Holds(file, seen_taken, Len(file.log))'
  BY <1>2, <1>t DEF QueueInv, RecordInv, Holds
<1>8. Holds(cache', seen_taken, Len(cache.log))
  <2> SUFFICES ASSUME NEW k \in seen_taken + 1 .. Len(cache.log),
                      k \notin cache.holes
               PROVE  cache'.rec[SlotBehind(cache.putpos, Len(cache.log) - k)]
                        = cache.log[k]
    BY <1>1 DEF Holds
  <2> DEFINE s == SlotBehind(cache.putpos, Len(cache.log) - k)
  <2>1. /\ Cursor(Len(cache.log), cache.putpos) /\ Fits(Len(cache.log), seen_taken)
        /\ seen_taken <= Len(cache.log)
    BY <1>t DEF QueueInv, RingInv, Fits, Ahead
  <2>2. /\ s \in Slot \ {0}
        /\ k # Len(cache.log) => s # cache.putpos
        /\ SlotBehind(cache.putpos, 0)
             = IF cache.putpos = 0 THEN MaxQueue ELSE cache.putpos
        /\ Fits(Len(cache.log) + 1, seen_taken) => s # cache.putpos + 1
    <3> DEFINE n == Len(cache.log)
    <3>1. n \in Nat /\ cache.putpos \in Slot /\ seen_taken \in Nat /\ seen_taken <= n
      BY <1>l, <2>1
    <3>2. Cursor(n, cache.putpos) /\ Fits(n, seen_taken) /\ k \in seen_taken + 1 .. n
      BY <2>1
    <3> HIDE DEF n
    <3>3. /\ SlotBehind(cache.putpos, n - k) \in Slot \ {0}
          /\ k # n => SlotBehind(cache.putpos, n - k) # cache.putpos
          /\ SlotBehind(cache.putpos, 0)
               = IF cache.putpos = 0 THEN MaxQueue ELSE cache.putpos
          /\ Fits(n + 1, seen_taken)
               => SlotBehind(cache.putpos, n - k) # cache.putpos + 1
      BY ONLY <3>1, <3>2, MaxQueueAssumption DEF Slot, Cursor, Fits, SlotBehind
    <3>4. QED
      BY <3>3 DEF n
  <2>3. CASE Claimed /\ k = Len(cache.log)
    <3>1. pos # 0 /\ pos = cache.putpos /\ cache.log[k] = row
      BY <1>t, <2>3 DEF QueueInv, ClaimInv, Claimed
    <3>2. s = pos
      BY <1>l, <2>2, <2>3, <3>1
    <3>3. QED
      BY <1>1, <1>l, <3>1, <3>2
  <2>4. CASE ~(Claimed /\ k = Len(cache.log))
    <3>1. s # pos
      <4>1. CASE Claimed
        BY <2>2, <2>4, <4>1 DEF Claimed
      <4>2. CASE pos = 0
        BY <2>2, <4>2
      <4>3. CASE ~Claimed /\ pos # 0
        BY <1>3, <1>t, <2>2, <4>3 DEF QueueInv, ClaimInv
      <4>4. QED
        BY <4>1, <4>2, <4>3
    <3>2. k \in seen_taken + 1 .. IF Claimed THEN Len(cache.log) - 1 ELSE Len(cache.log)
      BY <1>l, <2>4
    <3>3. cache.rec[s] = cache.log[k]
      BY <1>t, <3>2 DEF QueueInv, RecordInv, Holds
    <3>4. s \in Key
      BY ONLY <2>2, MaxQueueAssumption DEF Slot, Key
    <3> HIDE DEF s
    <3>5. cache'.rec[s] = cache.log[k]
      BY <1>1, <1>l, <3>1, <3>3, <3>4
    <3>6. QED
      BY <3>5 DEF s
  <2>5. QED
    BY <2>3, <2>4
<1>9. RecordInv'
  <2>1. (IF Claimed THEN Len(cache.log) - 1 ELSE Len(cache.log))' = Len(cache.log)
    BY <1>1, <1>3
  <2>2. seen_taken' = seen_taken
    BY <1>2
  <2>3. Holds(cache', seen_taken',
              (IF Claimed THEN Len(cache.log) - 1 ELSE Len(cache.log))')
    BY ONLY <1>8, <2>1, <2>2
  <2>4. QED
    BY <1>7, <2>3 DEF RecordInv
<1>10. QED
  BY <1>4, <1>5, <1>6, <1>9 DEF QueueInv

(* A write that fails leaves a hole at the last place.                     *)
LEMMA PutRowFailsStep == IInv /\ PutRowFails => QueueInv'
<1> SUFFICES ASSUME IInv, PutRowFails PROVE QueueInv'
  OBVIOUS
<1>t. TypeOK /\ QueueInv
  BY DEF IInv
<1>l. Len(cache.log) \in Nat /\ Len(file.log) \in Nat /\ seen_taken \in Nat
  BY <1>t, Lengths DEF TypeOK
<1>1. /\ cache'.putpos = cache.putpos /\ cache'.log = cache.log
      /\ cache'.rec = cache.rec
      /\ cache'.holes = IF Claimed THEN cache.holes \cup {Len(cache.log)}
                        ELSE cache.holes
  BY <1>t DEF PutRowFails, TypeOK, Database
<1>2. UNCHANGED <<file, getpos, seen_get, taken, seen_taken>>
  BY DEF PutRowFails
<1>3. pc = "row" /\ pc' = "idle" /\ ~Claimed'
  BY DEF PutRowFails, Claimed
<1>c. Claimed => Len(file.log) < Len(cache.log)
  BY <1>t DEF QueueInv, ClaimInv
<1>4. RingInv'
  BY <1>1, <1>2, <1>t DEF QueueInv, RingInv, Cursor, Ahead
<1>5. ClaimInv'
  <2>1. ClaimInv
    BY <1>t DEF QueueInv
  <2>2. \A k \in cache'.holes : k \in 1 .. Len(cache.log)
    BY <1>l, <1>1, <1>c, <2>1 DEF ClaimInv
  <2>3. \A k \in file'.holes : k \in 1 .. Len(file'.log)
    BY <1>2, <2>1 DEF ClaimInv
  <2>4. QED
    BY <1>1, <1>3, <2>2, <2>3 DEF ClaimInv
<1>6. LogInv'
  BY <1>l, <1>1, <1>2, <1>c, <1>t DEF QueueInv, LogInv
<1>7. Holds(file, seen_taken, Len(file.log))'
  BY <1>2, <1>t DEF QueueInv, RecordInv, Holds
<1>8. Holds(cache', seen_taken, Len(cache.log))
  <2> SUFFICES ASSUME NEW k \in seen_taken + 1 .. Len(cache.log),
                      k \notin cache'.holes
               PROVE  cache.rec[SlotBehind(cache.putpos, Len(cache.log) - k)]
                        = cache.log[k]
    BY <1>1 DEF Holds
  <2>1. k \notin cache.holes
    BY <1>1
  <2>2. k \in seen_taken + 1 .. IF Claimed THEN Len(cache.log) - 1 ELSE Len(cache.log)
    BY <1>l, <1>1, <1>3
  <2>3. QED
    BY <1>t, <2>1, <2>2 DEF QueueInv, RecordInv, Holds
<1>9. RecordInv'
  <2>1. (IF Claimed THEN Len(cache.log) - 1 ELSE Len(cache.log))' = Len(cache.log)
    BY <1>1, <1>3
  <2>2. seen_taken' = seen_taken
    BY <1>2
  <2>3. Holds(cache', seen_taken',
              (IF Claimed THEN Len(cache.log) - 1 ELSE Len(cache.log))')
    BY ONLY <1>8, <2>1, <2>2
  <2>4. QED
    BY <1>7, <2>3 DEF RecordInv
<1>10. QED
  BY <1>4, <1>5, <1>6, <1>9 DEF QueueInv

(* What the invariant says of the consumer's cursor. *)
LEMMA Cursors ==
  ASSUME TypeOK, RingInv
  PROVE  /\ Ahead(taken, getpos, taken, getpos)
         /\ Ahead(Len(file.log), file.putpos, taken, getpos)
         /\ Fits(Len(file.log), taken)
         /\ Ahead(Len(cache.log), cache.putpos, taken, getpos)
         /\ Fits(Len(cache.log), taken)
         /\ Fits(Len(file.log), seen_taken)
         /\ seen_taken <= taken
         /\ seen_taken <= Len(cache.log)
<1> DEFINE f == Len(file.log)
           c == Len(cache.log)
<1>1. /\ f \in Nat /\ c \in Nat /\ taken \in Nat /\ seen_taken \in Nat
      /\ file.putpos \in Slot /\ cache.putpos \in Slot
      /\ getpos \in Slot /\ seen_get \in Slot
  BY Lengths DEF TypeOK
<1>2. /\ Cursor(seen_taken, seen_get) /\ Cursor(taken, getpos)
      /\ Cursor(f, file.putpos) /\ Cursor(c, cache.putpos)
      /\ Ahead(taken, getpos, seen_taken, seen_get)
      /\ Ahead(f, file.putpos, seen_taken, seen_get)
      /\ Ahead(c, cache.putpos, seen_taken, seen_get)
      /\ taken <= f /\ f <= c /\ Fits(c, seen_taken)
  BY DEF RingInv, Fits
<1> HIDE DEF f, c
<1>3. Fits(f, seen_taken) /\ taken <= c
  BY <1>1, <1>2, MaxQueueAssumption DEF Fits
<1>4. Ahead(f, file.putpos, taken, getpos) /\ Fits(f, taken)
  BY ONLY <1>1, <1>2, <1>3, AheadSplits
<1>5. Ahead(c, cache.putpos, taken, getpos) /\ Fits(c, taken)
  BY ONLY <1>1, <1>2, <1>3, AheadSplits
<1>6. Ahead(taken, getpos, taken, getpos)
  BY <1>1 DEF Ahead, Slot
<1>7. seen_taken <= taken /\ seen_taken <= c
  BY <1>2 DEF Ahead
<1>8. QED
  BY <1>3, <1>4, <1>5, <1>6, <1>7 DEF f, c

(* If the records after the n-th row are in place, so are those after any  *)
(* later one.                                                              *)
LEMMA HoldsFromLater ==
  ASSUME NEW d, NEW n \in Nat, NEW k \in Nat, NEW m \in Nat, n <= k, Holds(d, n, m)
  PROVE  Holds(d, k, m)
  BY DEF Holds

(* The new putpos is not stored: the record it names is free.              *)
LEMMA PutposFailsStep == IInv /\ PutposFails => QueueInv'
<1> SUFFICES ASSUME IInv, PutposFails PROVE QueueInv'
  OBVIOUS
<1>t. TypeOK /\ RingInv /\ ClaimInv /\ LogInv /\ RecordInv
  BY DEF IInv, QueueInv
<1>l. /\ Len(cache.log) \in Nat /\ Len(file.log) \in Nat
      /\ cache.putpos \in Slot /\ seen_get \in Slot /\ seen_taken \in Nat
  BY <1>t, Lengths DEF TypeOK
<1>1. /\ cache'.putpos = cache.putpos /\ cache'.log = cache.log
      /\ cache'.rec = cache.rec /\ cache'.holes = cache.holes
  BY <1>t DEF PutposFails, TypeOK, Database
<1>2. UNCHANGED <<file, getpos, seen_get, taken, seen_taken, row>>
  BY DEF PutposFails
<1>3. pos' = cache.putpos + 1 /\ pc' = "row" /\ ~Claimed /\ ~Claimed'
  BY <1>1, <1>l DEF PutposFails, Claimed, Slot
<1>4. Fits(Len(cache.log) + 1, seen_taken)
  <2> DEFINE c == Len(cache.log)
  <2>1. /\ c \in Nat /\ seen_taken \in Nat /\ cache.putpos \in Slot /\ seen_get \in Slot
        /\ Cursor(seen_taken, seen_get) /\ Cursor(c, cache.putpos)
        /\ Ahead(c, cache.putpos, seen_taken, seen_get) /\ Fits(c, seen_taken)
        /\ now_putpos(cache.putpos, seen_get) # 0
    BY <1>l, <1>t DEF RingInv, PutposFails
  <2> HIDE DEF c
  <2>2. Fits(c + 1, seen_taken)
    BY ONLY <2>1, NextPutpos
  <2>3. QED
    BY <2>2 DEF c
<1>5. RingInv'
  BY <1>1, <1>2, <1>t DEF RingInv, Cursor, Ahead, Fits
<1>6. ClaimInv'
  <2>1. row' \in Row
    BY <1>2, <1>t DEF PutposFails, TypeOK, Row
  <2>2. pos' = cache'.putpos + 1 /\ Fits(Len(cache.log) + 1, seen_taken)'
    BY <1>1, <1>2, <1>3, <1>4 DEF Fits
  <2>3. QED
    BY <1>1, <1>2, <1>3, <1>t, <2>1, <2>2 DEF ClaimInv
<1>7. LogInv' /\ RecordInv'
  BY <1>1, <1>2, <1>3, <1>t DEF LogInv, RecordInv, Holds
<1>8. QED
  BY <1>5, <1>6, <1>7 DEF QueueInv

(* Everything mysync has written becomes visible; the consumer stays or is *)
(* sent back to where mysync saw it last.                                  *)
LEMMA WriteBackStep == IInv /\ (FlushBinlogInfo \/ PositionFails \/ Reload) => QueueInv'
<1> SUFFICES ASSUME IInv, FlushBinlogInfo \/ PositionFails \/ Reload PROVE QueueInv'
  OBVIOUS
<1>t. TypeOK /\ RingInv /\ ClaimInv /\ LogInv /\ RecordInv
  BY DEF IInv, QueueInv
<1> DEFINE c == Len(cache.log)
<1>l. /\ c \in Nat /\ taken \in Nat /\ seen_taken \in Nat
      /\ cache.putpos \in Slot /\ seen_get \in Slot /\ getpos \in Slot
      /\ seen_taken <= taken /\ taken <= c
  BY <1>t, Lengths, Cursors DEF TypeOK, RingInv
<1>1. /\ cache'.putpos = cache.putpos /\ cache'.log = cache.log
      /\ cache'.rec = cache.rec /\ cache'.holes = cache.holes
      /\ file' = cache'
  BY <1>t DEF FlushBinlogInfo, PositionFails, Reload, WriteBack, TypeOK, Database
<1>2. \/ getpos' = getpos /\ taken' = taken
      \/ getpos' = seen_get /\ taken' = seen_taken
  BY DEF FlushBinlogInfo, PositionFails, Reload, WriteBack
<1>3. \/ seen_get' = seen_get /\ seen_taken' = seen_taken
      \/ seen_get' = getpos' /\ seen_taken' = taken'
  BY DEF FlushBinlogInfo, PositionFails, Reload
<1>4. pc' = "idle" /\ ~Claimed /\ ~Claimed'
  BY DEF FlushBinlogInfo, PositionFails, Reload, BetweenEvents, Claimed
<1>5. /\ Cursor(seen_taken, seen_get) /\ Cursor(taken, getpos) /\ Cursor(c, cache.putpos)
      /\ Ahead(taken, getpos, seen_taken, seen_get)
      /\ Ahead(c, cache.putpos, seen_taken, seen_get) /\ Fits(c, seen_taken)
      /\ Ahead(c, cache.putpos, taken, getpos) /\ Fits(c, taken)
  BY <1>t, Cursors DEF RingInv
<1> HIDE DEF c
<1>6. /\ Ahead(taken, getpos, taken, getpos)
      /\ Ahead(seen_taken, seen_get, seen_taken, seen_get)
  BY <1>l DEF Ahead, Slot
<1>7. /\ Cursor(taken', getpos') /\ Cursor(seen_taken', seen_get')
      /\ Ahead(taken', getpos', seen_taken', seen_get')
      /\ Ahead(c, cache.putpos, seen_taken', seen_get') /\ Fits(c, seen_taken')
      /\ taken' <= c /\ seen_taken <= seen_taken' /\ seen_taken' \in Nat
  <2>1. CASE getpos' = getpos /\ taken' = taken
    BY <2>1, <1>3, <1>l, <1>5, <1>6
  <2>2. CASE getpos' = seen_get /\ taken' = seen_taken
    BY <2>2, <1>3, <1>l, <1>5, <1>6
  <2>3. QED
    BY <1>2, <2>1, <2>2
<1>8. RingInv'
  BY <1>1, <1>5, <1>7, <1>l DEF RingInv, Cursor, Ahead, Fits, c
<1>9. ClaimInv' /\ LogInv'
  BY <1>1, <1>4, <1>t DEF ClaimInv, LogInv
<1>10. RecordInv'
  <2>1. Holds(cache, seen_taken, c)
    BY <1>4, <1>t DEF RecordInv, c
  <2>2. Holds(cache, seen_taken', c)
    BY <1>l, <1>7, <2>1, HoldsFromLater
  <2>3. Holds(cache', seen_taken', c)
    BY <1>1, <2>2 DEF Holds
  <2>4. QED
    BY <1>1, <1>4, <2>3 DEF RecordInv, c
<1>11. QED
  BY <1>8, <1>9, <1>10 DEF QueueInv

(* The position alone changes, or the row to come.                         *)
LEMMA SyncFailsOrReconnectStep == IInv /\ (SyncFails \/ Reconnect) => QueueInv'
<1> SUFFICES ASSUME IInv, SyncFails \/ Reconnect PROVE QueueInv'
  OBVIOUS
<1>t. TypeOK /\ RingInv /\ ClaimInv /\ LogInv /\ RecordInv
  BY DEF IInv, QueueInv
<1>1. /\ cache'.putpos = cache.putpos /\ cache'.log = cache.log
      /\ cache'.rec = cache.rec /\ cache'.holes = cache.holes
      /\ UNCHANGED <<file, getpos, seen_get, taken, seen_taken>>
  BY <1>t DEF SyncFails, Reconnect, TypeOK, Database
<1>2. pc' = "idle" /\ ~Claimed /\ ~Claimed'
  BY DEF SyncFails, Reconnect, BetweenEvents, Claimed
<1>3. RingInv'
  BY <1>1, <1>t DEF RingInv, Cursor, Ahead, Fits
<1>4. ClaimInv' /\ LogInv' /\ RecordInv'
  BY <1>1, <1>2, <1>t DEF ClaimInv, LogInv, RecordInv, Holds
<1>5. QED
  BY <1>3, <1>4 DEF QueueInv

(* mysync reads getpos again: less waits than it thought.                  *)
LEMMA RefreshGetposStep == IInv /\ RefreshGetpos => QueueInv'
<1> SUFFICES ASSUME IInv, RefreshGetpos PROVE QueueInv'
  OBVIOUS
<1>t. TypeOK /\ RingInv /\ ClaimInv /\ LogInv /\ RecordInv
  BY DEF IInv, QueueInv
<1>l. /\ Len(cache.log) \in Nat /\ Len(file.log) \in Nat
      /\ taken \in Nat /\ seen_taken \in Nat
  BY <1>t, Lengths DEF TypeOK
<1>1. /\ seen_get' = getpos /\ seen_taken' = taken
      /\ UNCHANGED <<cache, file, getpos, taken, pc, row, pos>>
  BY DEF RefreshGetpos
<1>2. RingInv'
  BY <1>1, <1>t, Cursors DEF RingInv, Cursor, Ahead, Fits
<1>3. ClaimInv' /\ LogInv'
  <2>1. Fits(Len(cache.log) + 1, seen_taken) => Fits(Len(cache.log) + 1, taken)
    <3>1. seen_taken <= taken /\ Fits(Len(cache.log), taken)
      BY <1>t, Cursors
    <3>2. QED
      BY <1>l, <3>1, MaxQueueAssumption DEF Fits
  <2>2. Claimed' = Claimed
    BY <1>1 DEF Claimed
  <2>3. QED
    BY <1>1, <1>t, <2>1, <2>2 DEF ClaimInv, LogInv, Fits
<1>4. RecordInv'
  BY <1>1, <1>l, <1>t, Cursors DEF RecordInv, Holds, Claimed
<1>5. QED
  BY <1>2, <1>3, <1>4 DEF QueueInv

(* After a crash mysync starts from what is on disk.                       *)
LEMMA CrashStep == IInv /\ CrashAndRestart => QueueInv'
<1> SUFFICES ASSUME IInv, CrashAndRestart PROVE QueueInv'
  OBVIOUS
<1>t. TypeOK /\ RingInv /\ ClaimInv /\ LogInv /\ RecordInv
  BY DEF IInv, QueueInv
<1>l. /\ Len(cache.log) \in Nat /\ Len(file.log) \in Nat
      /\ taken \in Nat /\ seen_taken \in Nat
  BY <1>t, Lengths DEF TypeOK
<1>1. /\ cache' = file /\ seen_get' = getpos /\ seen_taken' = taken
      /\ UNCHANGED <<file, getpos, taken>>
  BY DEF CrashAndRestart
<1>2. pc' = "idle" /\ ~Claimed'
  BY DEF CrashAndRestart, Claimed
<1>3. RingInv'
  BY <1>1, <1>l, <1>t, Cursors DEF RingInv, Cursor, Ahead, Fits
<1>4. ClaimInv'
  BY <1>1, <1>2, <1>l, <1>t DEF ClaimInv, LogInv
<1>5. LogInv'
  BY <1>1 DEF LogInv
<1>6. RecordInv'
  BY <1>1, <1>2, <1>l, <1>t, Cursors DEF RecordInv, Holds
<1>7. QED
  BY <1>3, <1>4, <1>5, <1>6 DEF QueueInv

(* The consumer moves on to a record that is on disk.                      *)
LEMMA GetStep == IInv /\ Get => QueueInv'
<1> SUFFICES ASSUME IInv, Get PROVE QueueInv'
  OBVIOUS
<1>t. TypeOK /\ RingInv /\ ClaimInv /\ LogInv /\ RecordInv
  BY DEF IInv, QueueInv
<1>1. /\ getpos # file.putpos
      /\ getpos' = next_getpos(getpos) /\ taken' = taken + 1
      /\ UNCHANGED <<cache, file, seen_get, seen_taken, pc, row, pos>>
  BY DEF Get
<1>2. /\ taken < Len(file.log)
      /\ Cursor(taken + 1, next_getpos(getpos))
      /\ Ahead(taken + 1, next_getpos(getpos), seen_taken, seen_get)
  <2> DEFINE f == Len(file.log)
  <2>1. /\ f \in Nat /\ taken \in Nat /\ seen_taken \in Nat
        /\ file.putpos \in Slot /\ getpos \in Slot /\ seen_get \in Slot
    BY <1>t, Lengths DEF TypeOK
  <2>2. /\ Cursor(seen_taken, seen_get) /\ Cursor(taken, getpos)
        /\ Cursor(f, file.putpos)
        /\ Ahead(taken, getpos, seen_taken, seen_get)
        /\ Ahead(f, file.putpos, seen_taken, seen_get) /\ taken <= f
        /\ Fits(f, seen_taken)
    BY <1>t, Cursors DEF RingInv
  <2> HIDE DEF f
  <2>3. /\ taken < f
        /\ Cursor(taken + 1, next_getpos(getpos))
        /\ Ahead(taken + 1, next_getpos(getpos), seen_taken, seen_get)
    BY ONLY <1>1, <2>1, <2>2, NextGetpos
  <2>4. QED
    BY <2>3 DEF f
<1>3. RingInv'
  <2>1. Len(file.log) \in Nat /\ taken \in Nat
    BY <1>t, Lengths DEF TypeOK
  <2>2. taken' <= Len(file.log)
    BY <1>1, <1>2, <2>1
  <2>3. QED
    BY <1>1, <1>2, <1>t, <2>2 DEF RingInv, Cursor, Ahead
<1>4. ClaimInv' /\ LogInv' /\ RecordInv'
  BY <1>1, <1>t DEF ClaimInv, LogInv, RecordInv, Holds, Claimed
<1>5. QED
  BY <1>3, <1>4 DEF QueueInv

-----------------------------------------------------------------------------
(* The empty queue satisfies the invariant.                                *)
LEMMA InitInv == Init => IInv
<1> SUFFICES ASSUME Init PROVE IInv
  OBVIOUS
<1>1. /\ cache = [putpos |-> 0, rec |-> [s \in Key |-> Nothing], done |-> 0,
                  last |-> 0, log |-> <<>>, holes |-> {}, unqueued |-> {}]
      /\ file = cache
  BY DEF Init
<1>2. 0 \in Slot /\ 0 \in Key /\ 1 \in 1 .. MaxRows + 1 /\ 0 \in 0 .. MaxRows
      /\ 0 \in 0 .. MaxFaults
  BY MaxQueueAssumption, BoundsAssumption DEF Slot, Key
<1>3. cache \in Database /\ file \in Database
  BY <1>1, <1>2 DEF Database
<1>4. TypeOK
  BY <1>2, <1>3 DEF Init, TypeOK
<1>5. /\ cache.log = <<>> /\ file.log = <<>> /\ cache.holes = {} /\ file.holes = {}
      /\ cache.putpos = 0 /\ file.putpos = 0
  BY <1>1
<1>6. RingInv
  BY <1>2, <1>5, MaxQueueAssumption DEF Init, RingInv, Cursor, Ahead, Fits
<1>7. ClaimInv /\ LogInv /\ RecordInv
  BY <1>5 DEF Init, ClaimInv, LogInv, RecordInv, Holds, Claimed
<1>8. QED
  BY <1>4, <1>6, <1>7 DEF IInv, QueueInv

(* Every step keeps it.                                                    *)
LEMMA StepInv == IInv /\ [Next]_vars => IInv'
<1> SUFFICES ASSUME IInv, [Next]_vars PROVE IInv'
  OBVIOUS
<1>1. TypeOK'
  BY TypeStep
<1>2. QueueInv'
  <2>1. CASE UNCHANGED vars
    <3>1. QueueInv
      BY DEF IInv
    <3>2. RingInv'
      BY <2>1, <3>1 DEF vars, QueueInv, RingInv
    <3>3. ClaimInv'
      BY <2>1, <3>1 DEF vars, QueueInv, ClaimInv, Claimed
    <3>4. LogInv'
      BY <2>1, <3>1 DEF vars, QueueInv, LogInv
    <3>5. RecordInv'
      BY <2>1, <3>1 DEF vars, QueueInv, RecordInv, Holds, Claimed
    <3>6. QED
      BY <3>2, <3>3, <3>4, <3>5 DEF QueueInv
  <2>2. QED
    BY <2>1, NowPutposStep, PutposFailsStep, PutRowStep, PutRowFailsStep,
       WriteBackStep, SyncFailsOrReconnectStep, RefreshGetposStep, CrashStep, GetStep
       DEF Next
<1>3. QED
  BY <1>1, <1>2 DEF IInv

(* The types and the ring, as an invariant of every behaviour.             *)
THEOREM QueueInvariant == Spec => []IInv
  BY InitInv, StepInv, PTL DEF Spec

(* The cursors of mysync, the disk and the consumer follow each other      *)
(* around the ring, and every row between them is under its key.           *)
THEOREM RingStaysSound == Spec => []QueueInv
<1>1. IInv => QueueInv
  BY DEF IInv
<1>2. QED
  BY <1>1, QueueInvariant, PTL

(* The state of the queue has its type, for any ring size.                 *)
THEOREM TypeCorrect == Spec => []TypeOK
<1>1. IInv => TypeOK
  BY DEF IInv
<1>2. QED
  BY <1>1, QueueInvariant, PTL

(* No row that waits is ever overwritten, for any ring size, any number of *)
(* rows, any staleness of getpos and any number of crashes and failed      *)
(* writes.                                                                 *)
THEOREM NothingUnreadIsOverwritten == Spec => []UnreadIntact
<1>1. IInv => UnreadIntact
  <2> SUFFICES ASSUME TypeOK, QueueInv PROVE UnreadIntact
    BY DEF IInv
  <2>1. taken \in Nat /\ seen_taken \in Nat /\ Len(file.log) \in Nat
    BY Lengths DEF TypeOK
  <2>2. seen_taken <= taken
    BY Cursors DEF QueueInv
  <2>3. Holds(file, seen_taken, Len(file.log))
    BY DEF QueueInv, RecordInv
  <2>4. QED
    BY <2>1, <2>2, <2>3 DEF UnreadIntact, Holds
<1>2. QED
  BY <1>1, QueueInvariant, PTL

(* A row is unqueued only when, by the getpos that was read, at most one    *)
(* record of the ring was free.                                            *)
THEOREM RefusalNeedsFullRing == Spec => RefusedOnlyWhenFull
<1>1. IInv /\ NowPutpos /\ pos' = 0 => Len(cache.log) - seen_taken >= MaxQueue - 1
  <2> SUFFICES ASSUME TypeOK, RingInv, NowPutpos, pos' = 0
               PROVE  Len(cache.log) - seen_taken >= MaxQueue - 1
    BY DEF IInv, QueueInv
  <2> DEFINE c == Len(cache.log)
  <2>1. /\ c \in Nat /\ seen_taken \in Nat
        /\ cache.putpos \in Slot /\ seen_get \in Slot
    BY Lengths DEF TypeOK
  <2>2. /\ Cursor(seen_taken, seen_get) /\ Cursor(c, cache.putpos)
        /\ Ahead(c, cache.putpos, seen_taken, seen_get) /\ Fits(c, seen_taken)
    BY DEF RingInv, Fits
  <2>3. now_putpos(cache.putpos, seen_get) = 0
    BY DEF NowPutpos
  <2> HIDE DEF c
  <2>4. c - seen_taken >= MaxQueue - 1
    BY ONLY <2>1, <2>2, <2>3, FullPutpos
  <2>5. QED
    BY <2>4 DEF c
<1>2. IInv /\ [Next]_vars =>
        [NowPutpos /\ pos' = 0 => Len(cache.log) - seen_taken >= MaxQueue - 1]_vars
  BY <1>1
<1>3. QED
  BY <1>2, QueueInvariant, PTL DEF Spec, RefusedOnlyWhenFull

-----------------------------------------------------------------------------
(* The binlog position and the rows it covers.                             *)

(* The rows up to p have a place in the ring, are known to have none, or   *)
(* were left out by a crash.                                               *)
Known(d) == {d.log[k] : k \in DOMAIN d.log} \cup d.unqueued \cup cut
Covers(d, p) == 1 .. p \subseteq Known(d)
Kept(d) == {k \in DOMAIN d.log : k \notin d.holes}
Increases(d) ==
  \A k, l \in Kept(d) : k < l => d.log[k] < d.log[l] \/ d.log[k] \in unmarked

(* The row in hand is not the first of its event, and the position is      *)
(* already the one after it.                                               *)
MidEvent ==
  /\ row \in Row /\ row - 1 \in Row
  /\ EventEnd[row] = cache.done /\ EventEnd[row - 1] = cache.done

(* The record at k is the row in hand. *)
InHand(k) == (Claimed \/ pc = "sync") /\ k = Len(cache.log) /\ cache.log[k] = row

(* A database that is written back accounts for its rows. *)
Accounts(d) ==
  /\ 1 .. d.done \subseteq Known(d) \cup AfterLast(d)
  /\ \A k \in Kept(d) : d.log[k] <= d.done \/ d.log[k] \in unmarked
  /\ Increases(d)
  /\ d.last <= d.done

(* mysync has tried every row before the one in hand, and stored none that *)
(* the position does not cover but, at times, that one and those whose     *)
(* position could not be written.                                          *)
AccountInv ==
  /\ cache.last < row /\ cache.last <= cache.done
  /\ cache.done < row \/ MidEvent
  /\ Covers(cache, IF pc = "idle" THEN row - 1 ELSE row)
  /\ \A k \in Kept(cache) :
       \/ cache.log[k] <= cache.done /\ cache.log[k] < row
       \/ cache.log[k] \in unmarked
       \/ InHand(k)
  /\ Increases(cache)
  /\ Accounts(file)

(* What the types say of a database's log. *)
LEMMA LogTypes ==
  ASSUME NEW d \in Database
  PROVE  /\ Len(d.log) \in Nat /\ DOMAIN d.log = 1 .. Len(d.log)
         /\ \A k \in DOMAIN d.log : d.log[k] \in Nat
         /\ d.done \in 0 .. MaxRows /\ d.last \in 0 .. MaxRows /\ d.log \in Seq(Row)
<1>1. d.log \in Seq(Row) /\ d.done \in 0 .. MaxRows /\ d.last \in 0 .. MaxRows
  BY DEF Database
<1>2. \A k \in 1 .. Len(d.log) : d.log[k] \in Row
  BY <1>1
<1>3. QED
  BY <1>1, <1>2 DEF Row

(* When the row in hand is done with, the position is behind the next one  *)
(* or is that of the event they share.                                     *)
LEMMA NextRow ==
  ASSUME NEW r \in Row, NEW p \in 0 .. MaxRows, p < r \/ p = EventEnd[r]
  PROVE  \/ p < r + 1
         \/ r + 1 \in Row /\ r \in Row /\ EventEnd[r + 1] = p /\ EventEnd[r] = p
<1>1. r \in 1 .. MaxRows /\ EventEnd[r] \in 1 .. MaxRows /\ r <= EventEnd[r]
  BY EventAssumption DEF Row
<1>2. CASE p = EventEnd[r] /\ r + 1 <= EventEnd[r]
  <2>1. r + 1 \in r .. EventEnd[r] /\ r + 1 \in Row
    BY <1>1, <1>2, BoundsAssumption DEF Row
  <2>2. EventEnd[r + 1] = EventEnd[r]
    BY <2>1, EventAssumption
  <2>3. QED
    BY <1>2, <2>1, <2>2
<1>3. QED
  BY <1>1, <1>2, BoundsAssumption DEF Row

(* Between events the position is behind the next row. *)
LEMMA BetweenBehind ==
  ASSUME TypeOK, AccountInv, BetweenEvents
  PROVE  cache.done < row
<1> SUFFICES ASSUME MidEvent PROVE FALSE
  BY DEF AccountInv
<1>1. row \in Row /\ row - 1 \in Row /\ EventEnd[row] = row - 1
  BY DEF MidEvent, BetweenEvents
<1>2. row <= EventEnd[row] /\ row \in Nat
  BY <1>1, EventAssumption DEF Row
<1>3. QED
  BY <1>1, <1>2

LEMMA AccountStep == IInv /\ AccountInv /\ [Next]_vars => AccountInv'
<1> SUFFICES ASSUME TypeOK, ClaimInv, AccountInv, [Next]_vars PROVE AccountInv'
  BY DEF IInv, QueueInv
<1> DEFINE c == Len(cache.log)
<1>t. /\ cache \in Database /\ file \in Database
      /\ row \in 1 .. MaxRows + 1 /\ c \in Nat /\ row \in Nat
      /\ cache.done \in Nat /\ file.done \in Nat
      /\ cache.done \in 0 .. MaxRows /\ cache.last \in 0 .. MaxRows
      /\ file.last \in 0 .. MaxRows /\ file.done \in 0 .. MaxRows
  BY LogTypes, BoundsAssumption DEF TypeOK
<1>l. /\ DOMAIN cache.log = 1 .. c /\ DOMAIN file.log = 1 .. Len(file.log)
      /\ \A k \in DOMAIN cache.log : cache.log[k] \in Nat
      /\ \A k \in DOMAIN file.log : file.log[k] \in Nat
  BY <1>t, LogTypes
<1>f. ASSUME file' = file, UNCHANGED ghosts
      PROVE  Accounts(file)'
  BY <1>f DEF AccountInv, Accounts, Known, Increases, Kept, AfterLast, ghosts
<1>m. ASSUME row' = row, cache'.done = cache.done
      PROVE  MidEvent' = MidEvent
  BY <1>m DEF MidEvent
<1>1. CASE NowPutpos
  <2>1. pc = "idle" /\ pc' = "row" /\ row' = row /\ file' = file
        /\ row \in Row /\ ~Claimed /\ UNCHANGED ghosts /\ unmarked' = unmarked /\ cut' = cut
    BY <1>1, <1>t DEF NowPutpos, Claimed, Row, ghosts
  <2>2. \A k \in Kept(cache) : \/ cache.log[k] <= cache.done /\ cache.log[k] < row
                               \/ cache.log[k] \in unmarked
    BY <2>1 DEF AccountInv, InHand
  <2>3. CASE pos' = 0
    <3>1. /\ cache'.log = cache.log /\ cache'.holes = cache.holes
          /\ cache'.done = cache.done /\ cache'.unqueued = cache.unqueued \cup {row}
          /\ cache'.last = cache.last
      BY <1>1, <1>t, <2>3 DEF NowPutpos, Database
    <3>2. Known(cache)' = Known(cache) \cup {row}
      BY <2>1, <3>1 DEF Known
    <3>3. Covers(cache, row)'
      BY <1>t, <2>1, <3>2 DEF AccountInv, Covers
    <3>4. Kept(cache)' = Kept(cache) /\ Increases(cache)'
      BY <2>1, <3>1 DEF AccountInv, Kept, Increases
    <3>5. QED
      BY <1>f, <1>m, <2>1, <2>2, <3>1, <3>3, <3>4 DEF AccountInv
  <2>4. CASE pos' # 0
    <3>1. /\ cache'.log = Append(cache.log, row) /\ cache'.holes = cache.holes
          /\ cache'.done = cache.done /\ cache'.unqueued = cache.unqueued
          /\ cache'.putpos = pos' /\ cache'.last = cache.last
      BY <1>1, <1>t, <2>4 DEF NowPutpos, Database
    <3>2. /\ DOMAIN cache'.log = 1 .. c + 1 /\ Len(cache'.log) = c + 1
          /\ cache'.log[c + 1] = row
          /\ \A k \in 1 .. c : cache'.log[k] = cache.log[k]
      BY <1>t, <2>1, <3>1 DEF Database
    <3>3. Known(cache) \cup {row} \subseteq Known(cache)'
      <4>1. row \in {cache'.log[k] : k \in DOMAIN cache'.log}
        BY <1>t, <3>2
      <4>2. ASSUME NEW k \in DOMAIN cache.log
            PROVE  cache.log[k] \in {cache'.log[l] : l \in DOMAIN cache'.log}
        <5>1. k \in 1 .. c /\ k \in 1 .. c + 1
          BY <1>l, <1>t
        <5>2. QED
          BY <3>2, <5>1
      <4>3. QED
        BY <2>1, <3>1, <4>1, <4>2 DEF Known
    <3>4. Covers(cache, row)'
      <4>1. 1 .. row \subseteq (1 .. row - 1) \cup {row}
        BY <1>t
      <4>2. 1 .. row - 1 \subseteq Known(cache)
        BY <2>1 DEF AccountInv, Covers
      <4>3. QED
        BY <2>1, <3>3, <4>1, <4>2 DEF Covers
    <3>5. ASSUME NEW k \in Kept(cache)'
          PROVE  (k \in Kept(cache) /\ k \in 1 .. c) \/ k = c + 1
      BY <1>l, <1>t, <3>1, <3>2 DEF Kept
    <3>6. Claimed'
      BY <2>1, <2>4, <3>1 DEF Claimed
    <3>7. \A k \in Kept(cache)' : \/ cache'.log[k] <= cache'.done /\ cache'.log[k] < row'
                                  \/ cache'.log[k] \in unmarked'
                                  \/ InHand(k)'
      BY <2>1, <2>2, <3>1, <3>2, <3>5, <3>6 DEF InHand
    <3>8. ASSUME NEW k \in Kept(cache)', NEW l \in Kept(cache)', k < l
          PROVE  cache'.log[k] < cache'.log[l] \/ cache'.log[k] \in unmarked'
      <4>1. k \in Kept(cache) /\ k \in 1 .. c
        <5>1. l \in 1 .. c + 1 /\ k \in 1 .. c + 1
          BY <3>2 DEF Kept
        <5>2. k # c + 1
          BY <1>t, <5>1, <3>8
        <5>3. QED
          BY <3>5, <5>2
      <4>2. CASE l = c + 1
        BY <2>1, <2>2, <3>2, <4>1, <4>2
      <4>3. CASE l \in Kept(cache) /\ l \in 1 .. c
        BY <2>1, <3>2, <3>8, <4>1, <4>3 DEF AccountInv, Increases
      <4>4. QED
        BY <3>5, <4>2, <4>3
    <3>9. QED
      BY <1>f, <1>m, <2>1, <3>1, <3>4, <3>7, <3>8 DEF AccountInv, Increases
  <2>5. QED
    BY <2>3, <2>4
<1>2. CASE PutposFails
  <2>1. pc = "idle" /\ pc' = "row" /\ row' = row /\ file' = file /\ ~Claimed
        /\ UNCHANGED ghosts /\ unmarked' = unmarked /\ cut' = cut
    BY <1>2 DEF PutposFails, Claimed, ghosts
  <2>2. /\ cache'.log = cache.log /\ cache'.holes = cache.holes
        /\ cache'.done = cache.done /\ cache'.unqueued = cache.unqueued \cup {row}
        /\ cache'.last = cache.last
    BY <1>2, <1>t DEF PutposFails, Database
  <2>3. Known(cache)' = Known(cache) \cup {row}
    BY <2>1, <2>2 DEF Known
  <2>4. Covers(cache, row)'
    BY <1>t, <2>1, <2>3 DEF AccountInv, Covers
  <2>5. Kept(cache)' = Kept(cache) /\ Increases(cache)'
    BY <2>1, <2>2 DEF AccountInv, Kept, Increases
  <2>6. \A k \in Kept(cache) : ~InHand(k)
    BY <2>1 DEF InHand
  <2>7. QED
    BY <1>f, <1>m, <2>1, <2>2, <2>4, <2>5, <2>6 DEF AccountInv
<1>3. CASE PutRow
  <2>1. pc = "row" /\ pc' = "sync" /\ row' = row /\ file' = file
        /\ UNCHANGED ghosts /\ unmarked' = unmarked /\ cut' = cut
    BY <1>3 DEF PutRow, ghosts
  <2>2. /\ cache'.log = cache.log /\ cache'.holes = cache.holes
        /\ cache'.done = cache.done /\ cache'.unqueued = cache.unqueued
        /\ cache'.last = cache.last
    BY <1>3, <1>t DEF PutRow, Database
  <2>3. Known(cache)' = Known(cache) /\ Kept(cache)' = Kept(cache) /\ Increases(cache)'
    BY <2>1, <2>2 DEF AccountInv, Known, Kept, Increases
  <2>4. \A k \in Kept(cache) : InHand(k) => InHand(k)'
    BY <2>1, <2>2 DEF InHand
  <2>5. QED
    BY <1>f, <1>m, <2>1, <2>2, <2>3, <2>4 DEF AccountInv, Covers
<1>4. CASE PutRowFails
  <2>1. pc = "row" /\ pc' = "idle" /\ row' = row + 1 /\ file' = file
        /\ row \in Row /\ UNCHANGED ghosts /\ unmarked' = unmarked /\ cut' = cut
    BY <1>4 DEF PutRowFails, ClaimInv, ghosts
  <2>2. /\ cache'.log = cache.log /\ cache'.done = cache.done
        /\ cache'.unqueued = cache.unqueued /\ cache'.last = cache.last
        /\ cache'.holes = IF Claimed THEN cache.holes \cup {c} ELSE cache.holes
    BY <1>4, <1>t DEF PutRowFails, Database
  <2>3. Covers(cache, row - 1)'
    <3>1. 1 .. row \subseteq Known(cache)
      BY <2>1 DEF AccountInv, Covers
    <3>2. Known(cache)' = Known(cache) /\ row' - 1 = row
      BY <1>t, <2>1, <2>2 DEF Known
    <3>3. QED
      BY <3>1, <3>2 DEF Covers
  <2>4. \A k \in Kept(cache)' : k \in Kept(cache) /\ ~InHand(k)
    BY <2>1, <2>2 DEF Kept, InHand
  <2>5. Increases(cache)'
    BY <2>1, <2>2, <2>4 DEF AccountInv, Increases
  <2>6. ASSUME NEW k \in Kept(cache)'
        PROVE  \/ cache'.log[k] <= cache'.done /\ cache'.log[k] < row'
               \/ cache'.log[k] \in unmarked'
    <3>1. cache.log[k] \in Nat
      BY <1>l, <2>4 DEF Kept
    <3>2. QED
      BY <1>t, <2>1, <2>2, <2>4, <3>1 DEF AccountInv
  <2>7. cache'.done < row' \/ MidEvent'
    <3>1. cache.done < row \/ cache.done = EventEnd[row]
      BY DEF AccountInv, MidEvent
    <3>2. QED
      BY <1>t, <2>1, <2>2, <3>1, NextRow DEF MidEvent
  <2>8. cache'.last < row' /\ cache'.last <= cache'.done
    BY <1>t, <2>1, <2>2 DEF AccountInv
  <2>9. QED
    BY <1>f, <2>1, <2>3, <2>5, <2>6, <2>7, <2>8 DEF AccountInv
<1>5. CASE FlushBinlogInfo \/ PositionFails \/ SyncFails
  <2>1. /\ pc = "sync" /\ pc' = "idle" /\ row' = row + 1 /\ row' - 1 = row
        /\ row \in Row /\ cut' = cut /\ unmarked \subseteq unmarked'
    BY <1>5, <1>t DEF FlushBinlogInfo, PositionFails, SyncFails, ClaimInv, ghosts
  <2>2. \/ file' = cache'
        \/ file' = file
    BY <1>5 DEF FlushBinlogInfo, PositionFails, SyncFails, WriteBack
  <2>3. /\ cache'.log = cache.log /\ cache'.holes = cache.holes
        /\ cache'.unqueued = cache.unqueued
    BY <1>5, <1>t DEF FlushBinlogInfo, PositionFails, SyncFails, Database
  <2>4. \/ cache'.done = EventEnd[row] /\ cache'.last = row
        \/ cache' = cache /\ row \in unmarked'
    BY <1>5, <1>t DEF FlushBinlogInfo, PositionFails, SyncFails, Database
  <2>5. /\ Known(cache)' = Known(cache) /\ Kept(cache)' = Kept(cache)
        /\ \A k \in Kept(cache) : cache.log[k] \in Nat
    BY <1>l, <2>1, <2>3 DEF Known, Kept
  <2>e. row <= EventEnd[row] /\ EventEnd[row] \in 0 .. MaxRows
    BY <2>1, EventAssumption DEF Row
  <2>6. 1 .. row \subseteq Known(cache)'
    BY <2>1, <2>5 DEF AccountInv, Covers
  <2>7. ASSUME NEW k \in Kept(cache)'
        PROVE  \/ cache'.log[k] <= cache'.done /\ cache'.log[k] < row'
               \/ cache'.log[k] \in unmarked'
    <3>1. \/ cache.log[k] <= cache.done /\ cache.log[k] < row
          \/ cache.log[k] \in unmarked
          \/ cache.log[k] = row
      BY <2>5 DEF AccountInv, InHand
    <3>2. cache.log[k] \in Nat
      BY <2>5
    <3>3. QED
      BY <1>t, <2>1, <2>3, <2>4, <2>e, <3>1, <3>2
  <2>8. Increases(cache)'
    BY <2>1, <2>3, <2>5 DEF AccountInv, Increases
  <2>9. cache'.last < row' /\ cache'.last <= cache'.done
    BY <1>t, <2>1, <2>4, <2>e DEF AccountInv
  <2>10. cache'.done < row' \/ MidEvent'
    <3>1. /\ cache'.done \in 0 .. MaxRows
          /\ cache'.done < row \/ cache'.done = EventEnd[row]
      BY <1>t, <2>4, <2>e DEF AccountInv, MidEvent
    <3>2. QED
      BY <2>1, <3>1, NextRow DEF MidEvent
  <2>11. Accounts(file)'
    <3>1. CASE file' = cache'
      <4>1. ASSUME NEW r \in 1 .. cache'.done
            PROVE  r \in Known(cache)' \cup AfterLast(cache)'
        <5>1. CASE r \in 1 .. row
          BY <2>6, <5>1
        <5>2. CASE r \notin 1 .. row
          BY <1>t, <2>1, <2>4, <2>9, <2>e, <5>2 DEF AfterLast
        <5>3. QED
          BY <5>1, <5>2
      <4>2. Accounts(cache)'
        BY <2>7, <2>8, <2>9, <4>1 DEF Accounts
      <4>3. QED
        BY <3>1, <4>2 DEF Accounts, Known, Kept, Increases, AfterLast
    <3>2. CASE file' = file
      BY <2>1, <3>2 DEF AccountInv, Accounts, Known, Kept, Increases, AfterLast
    <3>3. QED
      BY <2>2, <3>1, <3>2
  <2>12. QED
    BY <2>1, <2>6, <2>7, <2>8, <2>9, <2>10, <2>11 DEF AccountInv, Covers
<1>6. CASE RefreshGetpos
  BY <1>6, <1>f, <1>m DEF RefreshGetpos, AccountInv, Claimed, InHand, Covers, Known,
                          Kept, Increases, ghosts
<1>7. CASE Reconnect \/ Reload
  <2>1. /\ pc = "idle" /\ pc' = "idle" /\ row' = cache.done + 1 /\ cache' = cache
        /\ UNCHANGED ghosts /\ unmarked' = unmarked /\ cut' = cut /\ BetweenEvents
    BY <1>7 DEF Reconnect, Reload, BetweenEvents, ghosts
  <2>2. \/ file' = cache
        \/ file' = file
    BY <1>7 DEF Reconnect, Reload, WriteBack
  <2>3. \A k \in Kept(cache) : cache.log[k] <= cache.done \/ cache.log[k] \in unmarked
    BY <2>1 DEF AccountInv, Claimed, InHand
  <2>4. Covers(cache, cache.done)
    <3>1. cache.done <= row - 1
      BY <1>t, <2>1, BetweenBehind
    <3>2. 1 .. cache.done \subseteq 1 .. row - 1
      BY <1>t, <3>1
    <3>3. QED
      BY <2>1, <3>2 DEF AccountInv, Covers
  <2>5. Accounts(file)'
    <3>1. Accounts(cache)
      BY <2>3, <2>4 DEF AccountInv, Accounts, Covers
    <3>2. CASE file' = cache
      BY <2>1, <3>1, <3>2 DEF Accounts, Known, Kept, Increases, AfterLast
    <3>3. QED
      BY <1>f, <2>1, <2>2, <3>2
  <2>6. row' - 1 = cache'.done /\ cache'.done < row' /\ cache'.last < row'
    BY <1>t, <2>1 DEF AccountInv
  <2>7. ASSUME NEW k \in Kept(cache)'
        PROVE  \/ cache'.log[k] <= cache'.done /\ cache'.log[k] < row'
               \/ cache'.log[k] \in unmarked'
    <3>1. k \in Kept(cache) /\ cache.log[k] \in Nat
      BY <1>l, <2>1 DEF Kept
    <3>2. QED
      BY <1>t, <2>1, <2>3, <3>1
  <2>8. Covers(cache, row - 1)' /\ Increases(cache)'
    BY <2>1, <2>4, <2>6 DEF AccountInv, Covers, Known, Kept, Increases
  <2>9. QED
    BY <2>1, <2>5, <2>6, <2>7, <2>8 DEF AccountInv
<1>8. CASE CrashAndRestart
  <2>1. pc' = "idle" /\ row' = file.done + 1 /\ cache' = file /\ file' = file
        /\ unmarked' = unmarked /\ cut' = cut \cup AfterLast(file)
    BY <1>8 DEF CrashAndRestart
  <2>2. row' - 1 = file.done /\ cache'.done < row' /\ cache'.last < row'
        /\ cache'.last <= cache'.done
    BY <1>t, <2>1 DEF AccountInv, Accounts
  <2>3. Known(file)' = Known(file) \cup AfterLast(file) /\ Known(cache)' = Known(file)'
    BY <2>1 DEF Known
  <2>4. 1 .. file.done \subseteq Known(file)'
    BY <2>3 DEF AccountInv, Accounts
  <2>5. Covers(cache, row - 1)'
    BY <2>2, <2>3, <2>4 DEF Covers
  <2>6. Accounts(file)' /\ Increases(cache)'
    BY <2>1, <2>4 DEF AccountInv, Accounts, Kept, Increases
  <2>7. ASSUME NEW k \in Kept(cache)'
        PROVE  \/ cache'.log[k] <= cache'.done /\ cache'.log[k] < row'
               \/ cache'.log[k] \in unmarked'
    <3>1. k \in Kept(file) /\ file.log[k] \in Nat
      BY <1>l, <2>1 DEF Kept
    <3>2. QED
      BY <1>t, <2>1, <3>1 DEF AccountInv, Accounts
  <2>8. QED
    BY <2>1, <2>2, <2>5, <2>6, <2>7 DEF AccountInv
<1>9. CASE Get
  BY <1>9, <1>f, <1>m DEF Get, AccountInv, Claimed, InHand, Covers, Known, Kept,
                          Increases, ghosts
<1>10. CASE UNCHANGED vars
  BY <1>10, <1>f, <1>m DEF vars, AccountInv, Claimed, InHand, Covers, Known, Kept,
                           Increases, ghosts
<1>11. QED
  BY <1>1, <1>2, <1>3, <1>4, <1>5, <1>6, <1>7, <1>8, <1>9, <1>10 DEF Next

(* flush_row_info, flush_binlog_info and load_binlog_info: every row the   *)
(* position on disk covers is known there or comes after a stored row of   *)
(* its event, and rows are stored beyond it, again or out of order only    *)
(* where a position could not be written, for any ring size, any events    *)
(* and any number of rows and faults.                                      *)
THEOREM PositionMatchesRows == Spec => []PositionAccountsForRows
<1>1. Init => AccountInv
  <2> SUFFICES ASSUME Init PROVE AccountInv
    OBVIOUS
  <2>1. /\ cache.log = <<>> /\ cache.done = 0 /\ cache.last = 0 /\ file = cache
        /\ pc = "idle" /\ row = 1
    BY DEF Init
  <2>2. Kept(cache) = {} /\ Covers(cache, 0)
    BY <2>1 DEF Kept, Covers
  <2>3. QED
    BY <2>1, <2>2 DEF AccountInv, Accounts, Increases, Covers
<1>2. AccountInv => PositionAccountsForRows
  BY DEF AccountInv, Accounts, PositionAccountsForRows, Known, Increases, Kept
<1>3. QED
  BY <1>1, <1>2, AccountStep, QueueInvariant, PTL DEF Spec

-----------------------------------------------------------------------------
(* The ring implements the bounded log.                                    *)

(* A log with its holes marked is a log of rows and holes of that length.  *)
LEMMA MarkedLog ==
  ASSUME NEW l \in Seq(Row), NEW h
  PROVE  LET v == [k \in DOMAIN l |-> IF k \in h THEN Hole ELSE l[k]] IN
           /\ v \in Seq(Row \cup {Hole})
           /\ Len(v) = Len(l)
           /\ \A k \in 1 .. Len(l) : v[k] = IF k \in h THEN Hole ELSE l[k]
<1>1. /\ DOMAIN l = 1 .. Len(l) /\ Len(l) \in Nat
      /\ \A k \in 1 .. Len(l) : l[k] \in Row
  OBVIOUS
<1>2. QED
  BY <1>1

(* Nothing waits at first. *)
LEMMA InitMaps == Init => Waiting!Init
<1> SUFFICES ASSUME Init PROVE Waiting!Init
  OBVIOUS
<1>1. file.log = <<>>
  BY DEF Init
<1>2. visible \in Seq(Row \cup {Hole}) /\ Len(visible) = 0
  BY <1>1, MarkedLog DEF visible
<1>3. visible = <<>>
  BY <1>2
<1>4. QED
  BY <1>3 DEF Waiting!Init, Init

(* A sync makes rows visible, with at most MaxQueue of them waiting.       *)
LEMMA WriteBackMaps == IInv /\ (FlushBinlogInfo \/ PositionFails \/ Reload) => Waiting!Accept
<1> SUFFICES ASSUME IInv, FlushBinlogInfo \/ PositionFails \/ Reload PROVE Waiting!Accept
  OBVIOUS
<1>t. TypeOK /\ RingInv /\ LogInv
  BY DEF IInv, QueueInv
<1>l. /\ Len(cache.log) \in Nat /\ Len(file.log) \in Nat
      /\ taken \in Nat /\ seen_taken \in Nat
      /\ cache.log \in Seq(Row) /\ file.log \in Seq(Row)
  BY <1>t, Lengths DEF TypeOK, Database
<1>1. file'.log = cache.log /\ file'.holes = cache.holes /\ UNCHANGED out
  BY <1>t DEF FlushBinlogInfo, PositionFails, Reload, WriteBack, TypeOK, Database
<1>2. /\ visible' \in Seq(Row \cup {Hole}) /\ Len(visible') = Len(cache.log)
      /\ \A k \in 1 .. Len(cache.log) :
           visible'[k] = IF k \in cache.holes THEN Hole ELSE cache.log[k]
  BY <1>l, <1>1, MarkedLog DEF visible
<1>3. /\ Len(visible) = Len(file.log)
      /\ \A k \in 1 .. Len(file.log) :
           visible[k] = IF k \in file.holes THEN Hole ELSE file.log[k]
  BY <1>l, MarkedLog DEF visible
<1>4. Len(file.log) <= Len(cache.log)
  BY <1>t DEF RingInv
<1>5. \A k \in 1 .. Len(visible) : visible'[k] = visible[k]
  BY <1>l, <1>2, <1>3, <1>4, <1>t DEF LogInv
<1>6. taken' \in 0 .. taken
  BY <1>l, <1>t, Cursors DEF FlushBinlogInfo, PositionFails, Reload, WriteBack
<1>7. Len(visible') - taken' <= MaxQueue
  <2>1. Fits(Len(cache.log), taken) /\ Fits(Len(cache.log), seen_taken)
    BY <1>t, Cursors DEF RingInv, Fits
  <2>2. taken' = taken \/ taken' = seen_taken
    BY DEF FlushBinlogInfo, PositionFails, Reload, WriteBack
  <2>3. QED
    BY <2>1, <2>2, <1>2, <1>l, MaxQueueAssumption DEF Fits
<1>8. QED
  BY <1>l, <1>1, <1>2, <1>3, <1>4, <1>5, <1>6, <1>7 DEF Waiting!Accept

(* The consumer reads the record of the row it has to get.                 *)
LEMMA GetMaps == IInv /\ Get => Waiting!Take
<1> SUFFICES ASSUME IInv, Get PROVE Waiting!Take
  OBVIOUS
<1>t. TypeOK /\ RingInv /\ RecordInv
  BY DEF IInv, QueueInv
<1>l. /\ Len(file.log) \in Nat /\ taken \in Nat /\ seen_taken \in Nat
      /\ file.log \in Seq(Row) /\ seen_taken <= taken
  BY <1>t, Lengths, Cursors DEF TypeOK, Database
<1>1. /\ getpos # file.putpos /\ taken' = taken + 1 /\ UNCHANGED file
      /\ out' = file.rec[next_getpos(getpos)]
  BY DEF Get
<1>2. /\ taken < Len(file.log)
      /\ next_getpos(getpos) = SlotBehind(file.putpos, Len(file.log) - (taken + 1))
  <2> DEFINE f == Len(file.log)
  <2>1. /\ f \in Nat /\ taken \in Nat /\ seen_taken \in Nat
        /\ file.putpos \in Slot /\ getpos \in Slot /\ seen_get \in Slot
    BY <1>t, Lengths DEF TypeOK
  <2>2. /\ Cursor(seen_taken, seen_get) /\ Cursor(taken, getpos)
        /\ Cursor(f, file.putpos)
        /\ Ahead(taken, getpos, seen_taken, seen_get)
        /\ Ahead(f, file.putpos, seen_taken, seen_get) /\ taken <= f
        /\ Fits(f, seen_taken)
    BY <1>t, Cursors DEF RingInv
  <2>a. getpos # file.putpos
    BY <1>1
  <2> HIDE DEF f
  <2>3. /\ taken < f
        /\ next_getpos(getpos) = SlotBehind(file.putpos, f - (taken + 1))
    BY ONLY <2>a, <2>1, <2>2, NextGetpos
  <2>4. QED
    BY <2>3 DEF f
<1>3. /\ visible' = visible /\ Len(visible) = Len(file.log)
      /\ \A k \in 1 .. Len(file.log) :
           visible[k] = IF k \in file.holes THEN Hole ELSE file.log[k]
  BY <1>1, <1>l, MarkedLog DEF visible
<1>4. Holds(file, seen_taken, Len(file.log))
  BY <1>t DEF RecordInv
<1>5. /\ taken + 1 \in seen_taken + 1 .. Len(file.log)
      /\ taken + 1 \in 1 .. Len(file.log)
  BY <1>l, <1>2
<1>6. visible[taken + 1] # Hole => out' = visible[taken + 1]
  <2> SUFFICES ASSUME visible[taken + 1] # Hole PROVE out' = visible[taken + 1]
    OBVIOUS
  <2>1. taken + 1 \notin file.holes /\ visible[taken + 1] = file.log[taken + 1]
    BY <1>3, <1>5
  <2>2. file.rec[SlotBehind(file.putpos, Len(file.log) - (taken + 1))]
          = file.log[taken + 1]
    BY <1>4, <1>5, <2>1 DEF Holds
  <2>3. QED
    BY <1>1, <1>2, <2>1, <2>2
<1>7. QED
  BY <1>1, <1>2, <1>3, <1>6, <1>l DEF Waiting!Take

(* Every step of the ring is a step of the bounded log, or none.           *)
LEMMA StepMaps == IInv /\ [Next]_vars => [Waiting!Next]_(Waiting!logVars)
<1> SUFFICES ASSUME IInv, [Next]_vars
             PROVE  Waiting!Next \/ UNCHANGED <<visible, taken, out>>
  BY DEF Waiting!logVars
<1>1. CASE FlushBinlogInfo \/ PositionFails \/ Reload
  BY <1>1, WriteBackMaps DEF Waiting!Next
<1>2. CASE Get
  BY <1>2, GetMaps DEF Waiting!Next
<1>3. CASE \/ NowPutpos \/ PutposFails \/ PutRow \/ PutRowFails \/ SyncFails
           \/ RefreshGetpos \/ Reconnect \/ CrashAndRestart \/ UNCHANGED vars
  <2>1. UNCHANGED <<file, taken, out>>
    BY <1>3 DEF NowPutpos, PutposFails, PutRow, PutRowFails, SyncFails, RefreshGetpos,
                Reconnect, CrashAndRestart, vars
  <2>2. QED
    BY <2>1 DEF visible
<1>4. QED
  BY <1>1, <1>2, <1>3 DEF Next

(* The consumer of the ring sees a FIFO queue of at most MaxQueue waiting  *)
(* rows, whatever mysync's crashes, failed writes and old pages do.        *)
THEOREM RingImplementsBoundedLog == Spec => ImplementsBoundedLog
  BY InitMaps, StepMaps, QueueInvariant, PTL DEF Spec, ImplementsBoundedLog, Waiting!Spec
=============================================================================
