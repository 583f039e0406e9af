------------------------------ MODULE NameHash ------------------------------
(***************************************************************************)
(* The hash from names of watched tables to their table infos, as it is    *)
(* built once per configuration (core/ms_hash.c, ti_hash_init) and looked  *)
(* up for every table map event.  Memory is counted in words of the size   *)
(* of a pointer, which is how the elements of a bucket are aligned.        *)
(***************************************************************************)
EXTENDS Integers, Sequences, FiniteSets

CONSTANTS Words,         \* table names, apart from their case
          NameWords,     \* words that the length and the text of a name take
          Hashes,        \* values of ms_hash_key_lc
          MaxNames,      \* bound: watch directives in the configuration
          BucketSizes,   \* ti_bucket_size, in words
          Heights,       \* ti_bucket_height
          Short          \* words that a u_short counts before it wraps

ASSUME HashAssumption ==
  /\ NameWords \in [Words -> Nat \ {0}]
  /\ Hashes \subseteq Nat
  /\ MaxNames \in Nat \ {0} /\ Short \in Nat \ {0}
  /\ BucketSizes \subseteq Nat \ {0} /\ Heights \subseteq Nat

Names == [word: Words, capitals: BOOLEAN]

VARIABLES names, key_hash, bucket_size, max_size,   \* the arguments
          pc, size, n,
          test,       \* words used in each bucket while it is filled
          buckets,    \* the address of each bucket, or what lay there before
          room,       \* words allocated for elements
          elts,       \* words written there: an index, the name after it, or 0
          outside     \* buckets through whose entry other memory was written

vars == <<names, key_hash, bucket_size, max_size, pc, size, n, test, buckets,
          room, elts, outside>>
arguments == <<names, key_hash, bucket_size, max_size>>

NameIndexes == 1..Len(names)
Rows == 0..size - 1                            \* the buckets

(* What an entry of buckets may be: an address in elts, NULL, an address in *)
(* memory that is used for something else, or a number that is no address.  *)
At(a) == <<"elts", a>>
Null == <<"null">>
Elsewhere == <<"elsewhere">>
NoAddress == <<"number">>

EltSize(name) == 1 + NameWords[name.word]          \* MS_HASH_ELT_SIZE
Lower(name) == [name EXCEPT !.capitals = FALSE]    \* ms_strlow
BucketWords == bucket_size - 1                     \* less the last pointer

-----------------------------------------------------------------------------
(* The words of the names that go to bucket row when there are s buckets,   *)
(* after the first k names.                                                 *)
Load(s, row, k) ==
  LET load[m \in 0..k] ==
        IF m = 0 THEN 0
        ELSE load[m - 1] + (IF key_hash[names[m].word] % s = row
                            THEN EltSize(names[m]) ELSE 0)
  IN  load[k]

Fits(s) == \A k \in NameIndexes : \A row \in 0..s - 1 :
             Load(s, row, k) % Short <= BucketWords % Short

(* Faulty: no room for the null word.                                       *)
BucketSizeNoEnd(row) == Load(size, row, Len(names)) % Short

(* A bucket ends with a null word, which an empty bucket does without.      *)
BucketSize(row) ==
  LET used == (1 + Load(size, row, Len(names))) % Short
  IN  IF used = 1 THEN 0 ELSE used

Empty == {row \in Rows : BucketSize(row) = 0}

Start(row) ==
  LET start[m \in 0..row] == IF m = 0 THEN 0 ELSE start[m - 1] + BucketSize(m - 1)
  IN  start[row]

(* Faulty: the words of a pointer are not counted twice.                    *)
FirstSizeTwice ==
  LET least == (2 * Len(names)) \div (BucketWords \div 2)
  IN  IF least = 0 THEN 1 ELSE least

(* The number of buckets that is tried first.                               *)
FirstSize ==
  LET least == Len(names) \div (BucketWords \div 2)
  IN  IF max_size > 10000 /\ max_size \div Len(names) < 100 THEN max_size - 1000
      ELSE IF least = 0 THEN 1 ELSE least
-----------------------------------------------------------------------------
Init ==
  /\ names \in UNION {[1..k -> Names] : k \in 1..MaxNames}
  /\ key_hash \in [Words -> Hashes]
  /\ bucket_size \in BucketSizes
  /\ max_size \in Heights
  /\ pc = "check" /\ size = 0 /\ n = 1
  /\ test = <<>> /\ buckets = <<>> /\ room = 0 /\ elts = <<>> /\ outside = {}

Keep == UNCHANGED <<arguments, test, buckets, room, elts, outside>>

(* Every name must fit into a bucket of its own.                            *)
CheckNames ==
  /\ pc = "check"
  /\ IF \A i \in NameIndexes : bucket_size >= EltSize(names[i]) + 1
     THEN pc' = "sizing" /\ size' = FirstSize
     ELSE pc' = "failed" /\ size' = size
  /\ UNCHANGED n /\ Keep

(* The loop over numbers of buckets, below max_size.                        *)
TrySize ==
  /\ pc = "sizing" /\ size < max_size
  /\ IF Fits(size) THEN pc' = "found" /\ size' = size
                   ELSE pc' = pc /\ size' = size + 1
  /\ UNCHANGED n /\ Keep

NoSize ==
  /\ pc = "sizing" /\ size >= max_size
  /\ pc' = "failed"
  /\ UNCHANGED <<size, n>> /\ Keep

(* Faulty: empty buckets get an address too.                                *)
FoundForAll ==
  /\ pc = "found"
  /\ buckets' = [row \in Rows |-> At(Start(row))]
  /\ room' = Start(size)
  /\ test' = [row \in Rows |-> 0]
  /\ n' = 1 /\ pc' = "filling"
  /\ UNCHANGED <<arguments, size, elts, outside>>

(* The bucket array is not cleared, and neither is the pool: entries of     *)
(* empty buckets keep what lay in the memory, from before a reload perhaps. *)
Found ==
  /\ pc = "found"
  /\ \E old \in [Empty -> {Null, Elsewhere, NoAddress} \union {At(a) : a \in 0..Start(size) - 1}] :
       buckets' = [row \in Rows |-> IF row \in Empty THEN old[row] ELSE At(Start(row))]
  /\ room' = Start(size)
  /\ test' = [row \in Rows |-> 0]
  /\ n' = 1 /\ pc' = "filling"
  /\ UNCHANGED <<arguments, size, elts, outside>>

NoMemory ==
  /\ pc = "found"
  /\ pc' = "failed"
  /\ UNCHANGED <<size, n>> /\ Keep

Written(words) == [a \in DOMAIN elts \union DOMAIN words |->
                     IF a \in DOMAIN words THEN words[a] ELSE elts[a]]

(* Faulty: the name is copied as it was given.                              *)
FillPlain ==
  LET row == key_hash[names[n].word] % size
      a == buckets[row][2] + test[row]
  IN  /\ pc = "filling" /\ n <= Len(names) /\ buckets[row][1] = "elts"
      /\ elts' = Written([w \in a..a + EltSize(names[n]) - 1 |->
                            CASE w = a -> n
                              [] w = a + 1 -> names[n]
                              [] OTHER -> "text"])
      /\ test' = [test EXCEPT ![row] = (@ + EltSize(names[n])) % Short]
      /\ n' = n + 1
      /\ UNCHANGED <<arguments, pc, size, buckets, room, outside>>

(* The next name is written behind the ones its bucket has.                 *)
Fill ==
  LET row == key_hash[names[n].word] % size
      a == buckets[row][2] + test[row]
  IN  /\ pc = "filling" /\ n <= Len(names) /\ buckets[row][1] = "elts"
      /\ elts' = Written([w \in a..a + EltSize(names[n]) - 1 |->
                            CASE w = a -> n
                              [] w = a + 1 -> Lower(names[n])
                              [] OTHER -> "text"])
      /\ test' = [test EXCEPT ![row] = (@ + EltSize(names[n])) % Short]
      /\ n' = n + 1
      /\ UNCHANGED <<arguments, pc, size, buckets, room, outside>>

(* A bucket whose words have wrapped to none has no memory: the name is      *)
(* written through an entry that was never set.                             *)
FillUnset ==
  LET row == key_hash[names[n].word] % size
  IN  /\ pc = "filling" /\ n <= Len(names) /\ buckets[row][1] # "elts"
      /\ IF buckets[row] = Elsewhere
         THEN /\ outside' = outside \union {row} /\ n' = n + 1 /\ pc' = pc
              /\ test' = [test EXCEPT ![row] = (@ + EltSize(names[n])) % Short]
         ELSE pc' = "crashed" /\ UNCHANGED <<outside, n, test>>
      /\ UNCHANGED <<arguments, size, buckets, room, elts>>

(* The null word at the end of each bucket, written through every entry     *)
(* that is not NULL; an empty bucket's end is where its entry leads.         *)
End ==
  /\ pc = "filling" /\ n > Len(names)
  /\ IF NoAddress \in {buckets[row] : row \in Rows}
     THEN pc' = "crashed" /\ UNCHANGED <<elts, outside>>
     ELSE /\ pc' = "ready"
          /\ elts' = Written([a \in {buckets[row][2] + test[row] :
                                       row \in {r \in Rows : buckets[r][1] = "elts"}} |-> 0])
          /\ outside' = outside \union {row \in Rows : buckets[row] = Elsewhere}
  /\ UNCHANGED <<arguments, size, n, test, buckets, room>>

Next == CheckNames \/ TrySize \/ NoSize \/ Found \/ NoMemory \/ Fill \/ FillUnset \/ End

Spec == Init /\ [][Next]_vars

-----------------------------------------------------------------------------
(* ms_hash_find in a bucket that has its elements: the index of the watch   *)
(* directive whose table info it returns, or 0.  It goes from element to    *)
(* element until a null word or the query; a bucket has at most all names.  *)
ms_hash_find(query) ==
  LET entry == buckets[key_hash[query.word] % size]
      Ends(a) == a = room \/ elts[a] = 0
      at[k \in 0..Len(names)] ==
        IF k = 0 THEN entry[2]
        ELSE IF Ends(at[k - 1]) \/ elts[at[k - 1] + 1] = query THEN at[k - 1]
        ELSE at[k - 1] + EltSize(elts[at[k - 1] + 1])
      last == at[Len(names)]
  IN  IF entry[1] # "elts" \/ Ends(last) THEN 0 ELSE elts[last]

Watching(query) == {i \in NameIndexes : names[i].word = query.word}

(* A u_short counts the words of a full bucket and of one name more.        *)
Counted == 2 * BucketWords < Short

(* The words of the elements of bucket row, whose entry is set or leads     *)
(* into elts or nowhere, are not written through the entry of a bucket that *)
(* has no names.                                                            *)
Undisturbed(row) ==
  /\ buckets[row] # Elsewhere
  /\ \A r \in Empty :
       buckets[r] \notin {At(Start(row) + w) : w \in 0..Load(size, row, Len(names)) - 1}

-----------------------------------------------------------------------------
(* The memory of the hash has its form: an entry of the bucket array, set   *)
(* or not, is NULL, an address in the elements, or leads elsewhere.         *)
TypeOK ==
  /\ pc \in {"check", "sizing", "found", "filling", "ready", "failed", "crashed"}
  /\ size \in Nat /\ n \in 1..Len(names) + 1 /\ room \in Nat
  /\ outside \subseteq Rows
  /\ \A row \in DOMAIN buckets :
       buckets[row] \in {Null, Elsewhere, NoAddress} \union {At(a) : a \in 0..room - 1}

(* The two passes over the names, one that measures and one that writes,    *)
(* agree: no element and no end of a bucket that has names lies outside of  *)
(* the memory that was allocated for them.  What is written to other memory *)
(* is a null word, through the entry of an empty bucket, which the code     *)
(* never set (ms_hash.c:156-163).  For buckets that a u_short counts.       *)
InAllocation ==
  Counted => /\ DOMAIN elts \subseteq 0..room - 1
             /\ \A row \in outside : pc = "ready" /\ Load(size, row, Len(names)) = 0

(* A table map event that names a table in lower case finds the first watch *)
(* directive for it, whatever else shares its bucket, and nothing else, for *)
(* buckets that a u_short counts and unless an uncleared entry of the bucket *)
(* array was an address: that bucket's null word is written over an element *)
(* of another one.                                                          *)
LookupExact ==
  Counted /\ pc = "ready" => \A word \in Words :
    LET query == [word |-> word, capitals |-> FALSE]
    IN  Undisturbed(key_hash[word] % size) =>
          IF Watching(query) = {} THEN ms_hash_find(query) = 0
          ELSE /\ ms_hash_find(query) \in Watching(query)
               /\ \A i \in Watching(query) : ms_hash_find(query) <= i

(* The search for a size is given up only when no size below max_size fits: *)
(* beginning at FirstSize passes over none that would.  For buckets that a  *)
(* u_short counts.                                                          *)
GivesUpOnlyIfNothingFits ==
  Counted /\ pc = "sizing" => \A s \in 1..max_size - 1 : Fits(s) => s >= size
=============================================================================
