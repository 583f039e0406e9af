------------------------------- MODULE Config -------------------------------
(***************************************************************************)
(* mysync_conf_load (ms_info.c): a configuration file is read directive by *)
(* directive into a new mysync_info_t, which replaces the one in use only  *)
(* when it is complete.  main loads one, and so does every reload of       *)
(* run_loop (mysync.c).                                                    *)
(*                                                                         *)
(* The file is what its lines do, one after the other: a line may be any   *)
(* directive.  Comments, lines of one word, pid and daemonize change       *)
(* nothing that matters here.  Nor does a last line without a newline: the *)
(* loop ends at feof before it looks at it.                                *)
(***************************************************************************)
EXTENDS Integers, FiniteSets

CONSTANTS WordSize,      \* values of a uint32_t
          PortSize,      \* values of a uint16_t
          Values,        \* per directive: numbers in the file, as ms_atou reads them
          Texts,         \* the directives that take a text
          Capacity,      \* watch directives before their array grows first
          MaxWatch,      \* bound: watch directives in a file
          MaxFiles       \* files the process may have open

Numbers == {"slave_id", "master_port", "ti_map_ratio", "ti_bucket_size",
            "ti_bucket_height"}

ASSUME ConfigAssumption ==
  /\ WordSize \in Nat /\ WordSize % 2 = 0 /\ WordSize > 2
  /\ PortSize \in 1..WordSize
  /\ Values \in [Numbers \union {"pool_size"} -> SUBSET (0..WordSize - 1)]
  /\ "cf_path" \notin Texts
  /\ Capacity \in Nat \ {0} /\ MaxWatch \in Nat /\ MaxFiles \in Nat

VARIABLES pc, new, mi, opened

vars == <<pc, new, mi, opened>>

(* watch_dt is its length and how many it has room for; unnamed says that   *)
(* there was no memory for the name of one.  ti_map is its length; dirty    *)
(* says that its memory, which nothing clears, is not all NULL.             *)
mysync_info_init ==
  [numbers |-> [key \in Numbers |-> 0], texts |-> {}, pool |-> FALSE,
   watch |-> 0, nalloc |-> 0, unnamed |-> FALSE,
   ti_map |-> 0, dirty |-> FALSE, ti_map_prime |-> 0, ti_hash |-> FALSE]

-----------------------------------------------------------------------------
Prime(p) == p > 1 /\ \A d \in 2..p - 1 : p % d # 0

(* From arg downwards in steps of two, 0 wrapping to the largest number.    *)
cal_prime(arg) ==
  LET down[a \in Int] ==
        IF a <= 2 \/ ~ \E i \in 3..a : i % 2 = 1 /\ i * i <= a /\ a % i = 0 THEN a
        ELSE down[a - 2]
  IN  down[IF arg % 2 = 0 THEN (arg - 1) % WordSize ELSE arg]

-----------------------------------------------------------------------------
Init == pc = "idle" /\ new = mysync_info_init /\ mi = mysync_info_init /\ opened = 0

Running == mi # mysync_info_init

(* main ends when there is no configuration; run_loop goes on with the old. *)
Rejected == pc' = (IF Running THEN "idle" ELSE "exited") /\ new' = mysync_info_init
Crashed == pc' = "crashed" /\ new' = new
OutOfMemory == pc' = "no memory" /\ new' = new       \* a crash, too

Open ==
  /\ pc = "idle" /\ opened < MaxFiles
  /\ pc' = "reading" /\ new' = mysync_info_init /\ opened' = opened + 1
  /\ UNCHANGED mi

(* Nothing closes the file, so that loading fails in the end.               *)
OpenFails ==
  /\ pc = "idle" /\ opened = MaxFiles
  /\ Rejected
  /\ UNCHANGED <<mi, opened>>

ReadNumber(key, value) ==
  /\ pc = "reading"
  /\ new' = [new EXCEPT !.numbers[key] = IF key = "master_port" THEN value % PortSize
                                                                ELSE value]
  /\ UNCHANGED <<pc, mi, opened>>

(* The result of malloc is used without a look at it.                       *)
ReadPoolSize(value, gets) ==
  /\ pc = "reading"
  /\ \/ value = 0 /\ Rejected
     \/ value # 0 /\ gets /\ pc' = pc /\ new' = [new EXCEPT !.pool = TRUE]
     \/ value # 0 /\ ~gets /\ OutOfMemory
  /\ UNCHANGED <<mi, opened>>

(* ms_strdup asserts a pool, and may find no memory in it.                  *)
ReadText(key, gets) ==
  /\ pc = "reading"
  /\ \/ ~new.pool /\ Crashed
     \/ /\ new.pool /\ pc' = pc
        /\ new' = [new EXCEPT !.texts = IF gets THEN @ \union {key} ELSE @ \ {key}]
  /\ UNCHANGED <<mi, opened>>

(* The room of an array after another element: it is made with the first    *)
(* and doubled when it is full.                                             *)
ms_array_push(nelts, nalloc) ==
  IF nelts < nalloc THEN nalloc ELSE IF nelts = 0 THEN Capacity ELSE 2 * nalloc

(* Faulty: the array does not grow.                                         *)
ReadWatchFull(grows, named) ==
  /\ pc = "reading" /\ new.watch < MaxWatch
  /\ \/ ~new.pool /\ Crashed
     \/ /\ new.pool /\ pc' = pc
        /\ new' = [new EXCEPT !.watch = @ + 1, !.nalloc = Capacity,
                              !.unnamed = @ \/ ~named]
  /\ UNCHANGED <<mi, opened>>

(* A new table info; its name may still find no memory.                     *)
ReadWatch(grows, named) ==
  LET full == new.watch = new.nalloc
  IN  /\ pc = "reading" /\ new.watch < MaxWatch
      /\ \/ ~new.pool /\ Crashed
         \/ new.pool /\ full /\ ~grows /\ Rejected
         \/ /\ new.pool /\ (full => grows) /\ pc' = pc
            /\ new' = [new EXCEPT
                 !.watch = @ + 1,
                 !.nalloc = ms_array_push(new.watch, @),
                 !.unnamed = @ \/ ~named]
      /\ UNCHANGED <<mi, opened>>

ReadUnknown ==
  /\ pc = "reading" /\ Rejected
  /\ UNCHANGED <<mi, opened>>

EndOfFile(gets) ==
  /\ pc = "reading"
  /\ \/ ~new.pool /\ Crashed
     \/ /\ new.pool /\ pc' = "map"
        /\ new' = IF gets THEN [new EXCEPT !.texts = @ \union {"cf_path"}] ELSE new
  /\ UNCHANGED <<mi, opened>>

(* The number of watch directives is asked of an array that is not there if *)
(* there was none, and ms_array_create asserts that it has an element.      *)
BuildMap(gets, dirty) ==
  LET ratio == new.numbers["ti_map_ratio"]
      nelts == (new.watch * ratio) % WordSize
  IN  /\ pc = "map"
      /\ \/ new.watch = 0 /\ Crashed
         \/ new.watch # 0 /\ ratio # 0 /\ nelts = 0 /\ Crashed
         \/ new.watch # 0 /\ nelts # 0 /\ ~gets /\ Rejected
         \/ /\ new.watch # 0 /\ (ratio = 0 \/ (nelts # 0 /\ gets))
            /\ dirty => ratio # 0
            /\ pc' = "hash"
            /\ new' = [new EXCEPT !.ti_map = nelts, !.dirty = dirty,
                                  !.ti_map_prime = cal_prime(nelts)]
      /\ UNCHANGED <<mi, opened>>

(* ti_hash_init, whose working is NameHash's subject: it fails for want of  *)
(* room or memory, and runs through NULL for a table without a name or,     *)
(* perhaps, what lay in the pool's memory, which nothing clears.            *)
BuildHash(built) ==
  /\ pc = "hash"
  /\ \/ ~built /\ ~new.unnamed /\ Rejected
     \/ /\ built /\ ~new.unnamed
        /\ new.numbers["ti_bucket_size"] > 0 /\ new.numbers["ti_bucket_height"] > 1
        /\ pc' = "verify" /\ new' = [new EXCEPT !.ti_hash = TRUE]
     \/ new.unnamed /\ OutOfMemory
     \/ Crashed
  /\ UNCHANGED <<mi, opened>>

(* Faulty: a map without a table is not noticed.                            *)
verify_no_map(info) ==
  /\ info.numbers["slave_id"] # 0 /\ info.numbers["master_port"] # 0
  /\ info.texts = Texts \union {"cf_path"}
  /\ info.ti_map_prime # 0 /\ info.ti_hash /\ info.watch # 0 /\ info.pool

mysync_info_verify(info) ==
  /\ info.numbers["slave_id"] # 0 /\ info.numbers["master_port"] # 0
  /\ info.texts = Texts \union {"cf_path"}
  /\ info.ti_map_prime # 0 /\ info.ti_map # 0 /\ info.ti_hash
  /\ info.watch # 0 /\ info.pool

Verify ==
  /\ pc = "verify"
  /\ \/ ~mysync_info_verify(new) /\ Rejected /\ UNCHANGED mi
     \/ /\ mysync_info_verify(new)
        /\ mi' = new /\ new' = mysync_info_init /\ pc' = "idle"
  /\ UNCHANGED opened

ReadLine ==
  \/ \E key \in Numbers : \E value \in Values[key] : ReadNumber(key, value)
  \/ \E value \in Values["pool_size"], gets \in BOOLEAN : ReadPoolSize(value, gets)
  \/ \E key \in Texts, gets \in BOOLEAN : ReadText(key, gets)
  \/ \E grows, named \in BOOLEAN : ReadWatch(grows, named)
  \/ ReadUnknown

Next ==
  \/ Open \/ OpenFails \/ ReadLine
  \/ \E gets \in BOOLEAN : EndOfFile(gets)
  \/ \E gets, dirty \in BOOLEAN : BuildMap(gets, dirty)
  \/ \E built \in BOOLEAN : BuildHash(built)
  \/ Verify

Spec == Init /\ [][Next]_vars

-----------------------------------------------------------------------------
Infos == [numbers: [Numbers -> 0..WordSize - 1], texts: SUBSET (Texts \union {"cf_path"}),
          pool: BOOLEAN, watch: 0..MaxWatch, nalloc: 0..2 * (MaxWatch + Capacity), unnamed: BOOLEAN,
          ti_map: 0..WordSize - 1, dirty: BOOLEAN, ti_map_prime: 0..WordSize - 1,
          ti_hash: BOOLEAN]

(* The process is at one of the stages of mysync_conf_load, or at an end;   *)
(* every number fits its width.                                             *)
TypeOK ==
  /\ pc \in {"idle", "reading", "map", "hash", "verify", "exited", "crashed", "no memory"}
  /\ new \in Infos /\ mi \in Infos
  /\ new.watch <= new.nalloc /\ mi.watch <= mi.nalloc
  /\ opened \in 0..MaxFiles

(* Whatever the file says and whatever memory is missing, ti_map and        *)
(* ti_map_prime of the configuration in use go together: every table id has *)
(* an entry, ids spread over a prime number of them, or 1, and no more than *)
(* half of the entries are out of use.  The directives come in any order,   *)
(* products and ports wrap.                                                 *)
RunningConfUsable ==
  Running =>
    /\ mi.ti_map_prime \in 1..mi.ti_map
    /\ mi.ti_map_prime = 1 \/ Prime(mi.ti_map_prime)
    /\ mi.ti_map <= 2 * mi.ti_map_prime
    /\ mi.pool /\ ~mi.unnamed /\ mi.watch > 0
=============================================================================
