----------------------------- MODULE BoundedLog -----------------------------
(***************************************************************************)
(* What the row queue of one watched table promises its consumer,          *)
(* whatever the ring, the cache and the file behind it do.                 *)
(*                                                                         *)
(* Rows are appended to `log` in the order in which they were accepted,    *)
(* `taken` of them have been handed out and `out` is the last one handed   *)
(* out.  Never more than Capacity rows wait.  A consumer may be sent back  *)
(* to a row it has had already, but never past one it has not had.         *)
(***************************************************************************)
EXTENDS Naturals, Sequences

CONSTANTS
  Capacity,   \* the number of rows that may wait
  Row,        \* the rows
  Hole,       \* an accepted row whose record could not be stored
  Nothing     \* `out` before the first row is handed out

VARIABLES log, taken, out

logVars == <<log, taken, out>>

Init ==
  /\ log = <<>>
  /\ taken = 0
  /\ out = Nothing

(* Rows become visible to the consumer, which may be sent back while that  *)
(* happens.                                                                *)
Accept ==
  /\ Len(log') >= Len(log)
  /\ \A k \in 1 .. Len(log) : log'[k] = log[k]
  /\ log' \in Seq(Row \cup {Hole})
  /\ taken' \in 0 .. taken
  /\ Len(log') - taken' <= Capacity
  /\ UNCHANGED out

(* The consumer takes the oldest waiting row.  Of a hole nothing is        *)
(* promised but that it is passed over.                                    *)
Take ==
  /\ taken < Len(log)
  /\ taken' = taken + 1
  /\ log[taken'] # Hole => out' = log[taken']
  /\ UNCHANGED log

Next == Accept \/ Take

Spec == Init /\ [][Next]_logVars
=============================================================================
