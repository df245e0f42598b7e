---------------------------- MODULE VerityTable -----------------------------
(***************************************************************************)
(* verity_chromeos_args and what verity_ctr does with its result           *)
(* (dm_verity_chromeos_table.patch): a table of key=value words is         *)
(* translated to the positional one, and what was allocated on the way is  *)
(* freed on every path.                                                    *)
(***************************************************************************)
EXTENDS Integers, Sequences, TLC

CONSTANTS Tables  \* the tables: sequences of fewer than ten words

Slots == [payload |-> 1, hashtree |-> 2, alg |-> 7, root_hexdigest |-> 8, salt |-> 9]
Keys == DOMAIN Slots \cup {"hashstart", "error_behavior", "unknown"}
Required == {1, 2, 5, 7, 8}

\* A word without "=" has no value; that of hashstart is a number of sectors, or
\* no number.
NoValue == "no value"
NoNumber == -1
TableWords == [key : Keys, val : STRING, num : Nat \cup {NoNumber}]

ASSUME TableAssumption == \A t \in Tables : t \in Seq(TableWords) /\ Len(t) < 10

Panics == {"panic"}
Ignores == {"none", "ignore"}

VARIABLES
  table,  \* argv of the target
  i,      \* the word that is next
  nargv,  \* the translation: slots 0 .. 11
  heap,   \* buffers that are allocated: nargv, and that of the i-th word
  freed,  \* how often each buffer was freed
  stage,  \* "start", "loop", "ctr" or how verity_ctr ended
  given   \* the table that the rest of verity_ctr was given

verityVars == <<table, i, nargv, heap, freed, stage, given>>

\* The five that have a default; the others are NULL.
Null == "null"
Fresh == [s \in 0 .. 11 |-> CASE s = 0 -> "0" [] s \in {3, 4} -> "4096" [] s = 9 -> "-"
                              [] OTHER -> Null]

VerityInit ==
  /\ table \in Tables
  /\ i = 1
  /\ nargv = Fresh
  /\ heap = {}
  /\ freed = <<>>
  /\ stage = "start"
  /\ given = <<>>

-----------------------------------------------------------------------------

Argv == 0

\* kfree, of which NULL is none.
Kfree(bs) ==
  /\ heap' = heap \ bs
  /\ freed' = [b \in DOMAIN freed \cup bs |->
                (IF b \in DOMAIN freed THEN freed[b] ELSE 0) + (IF b \in bs THEN 1 ELSE 0)]

\* The variable hashstart points to the buffer of the last such word.
Hashstarts == {j \in 1 .. i - 1 : table[j].key = "hashstart"}
HashstartBuffer == {j \in Hashstarts : \A k \in Hashstarts : k <= j}

\* kcalloc of nargv.
Alloc ==
  /\ stage = "start"
  /\ \/ stage' = "loop" /\ heap' = {Argv}
     \/ stage' = "EINVAL" /\ heap' = heap
  /\ UNCHANGED <<table, i, nargv, freed, given>>

\* Mutant: nargv only.
ErrForgetful(b) == Kfree({Argv}) /\ stage' = "EINVAL"

\* goto err
Err(b) == Kfree({Argv} \cup b) /\ stage' = "EINVAL"

\* Mutant: sectors are taken for blocks.
Sectors(n) == n

\* 512-byte sectors to 4096-byte blocks.
Blocks(n) == n \div 8

\* How many blocks are data and where the hash tree begins, printed by "%lu".
DataAndTree(n) == [nargv EXCEPT ![5] = ToString(n), ![6] = ToString(n)]

\* One word: the errors, the slot it fills, and what is asked for when a block
\* is corrupt.
Word ==
  LET w == table[i] IN
  /\ stage = "loop"
  /\ i <= Len(table)
  /\ \/ /\ w.val = NoValue \/ (w.key = "hashstart" /\ w.num = NoNumber)
        /\ Err(HashstartBuffer)
        /\ UNCHANGED <<i, nargv>>
     \/ /\ w.key = "hashstart" /\ w.val # NoValue /\ w.num # NoNumber
        /\ \/ /\ heap' = heap \cup {i}
              /\ nargv' = DataAndTree(Blocks(w.num))
              /\ i' = i + 1
              /\ UNCHANGED <<freed, stage>>
           \/ Err({}) /\ UNCHANGED <<i, nargv>>   \* hashstart is NULL then
     \/ /\ w.key # "hashstart" /\ w.val # NoValue
        /\ nargv' = CASE w.key \in DOMAIN Slots -> [nargv EXCEPT ![Slots[w.key]] = w.val]
                      [] w.key = "error_behavior" /\ w.val \in Panics ->
                           [nargv EXCEPT ![11] = "panic_on_corruption"]
                      [] w.key = "error_behavior" /\ w.val \in Ignores ->
                           [nargv EXCEPT ![11] = "ignore_corruption"]
                      [] OTHER -> nargv
        /\ i' = i + 1
        /\ UNCHANGED <<heap, freed, stage>>
  /\ UNCHANGED <<table, given>>

Complete == \A s \in Required : nargv[s] # Null

\* The words are done: "Missing argument", or ten or twelve arguments.
LoopEnd ==
  /\ stage = "loop"
  /\ i = Len(table) + 1
  /\ IF Complete
     THEN /\ stage' = "ctr"
          /\ given' = IF nargv[11] = Null THEN [s \in 0 .. 9 |-> nargv[s]]
                      ELSE [nargv EXCEPT ![10] = "1"]
          /\ UNCHANGED <<heap, freed>>
     ELSE Err(HashstartBuffer) /\ UNCHANGED given
  /\ UNCHANGED <<table, i, nargv>>

\* The rest of verity_ctr: memory for the target, and the arguments, which may
\* be refused or taken; the translation is freed in each case.
Ctr ==
  /\ stage = "ctr"
  /\ stage' \in {"ENOMEM", "refused", "mapped"}
  /\ Kfree({Argv} \cup HashstartBuffer)
  /\ UNCHANGED <<table, i, nargv, given>>

Ended == stage \in {"EINVAL", "ENOMEM", "refused", "mapped"}

VerityNext == Alloc \/ Word \/ LoopEnd \/ Ctr \/ (Ended /\ UNCHANGED verityVars)

VeritySpec == VerityInit /\ [][VerityNext]_verityVars

-----------------------------------------------------------------------------

Values(k) == {table[j].val : j \in {n \in 1 .. Len(table) : table[n].key = k}}
Once(k) == \A j, n \in 1 .. Len(table) : table[j].key = k /\ table[n].key = k => j = n

\* The hashstart whose kmalloc failed, when that is where the parser stopped.
Unstored == {j \in 1 .. Len(table) : j = i /\ table[j].key = "hashstart"
                                       /\ table[j].val # NoValue /\ table[j].num # NoNumber}

\* When the constructor returns, wherever it stopped, what is left allocated is
\* exactly the buffers that a later hashstart of the same table took the place
\* of, one whose own buffer is refused among them; all else is freed, and
\* nothing twice (the patch, 27-29 and 109-112).
OnlyReplacedLeak ==
  /\ \A b \in DOMAIN freed : freed[b] = 1 /\ b \notin heap
  /\ Ended => heap = {j \in Hashstarts : \E k \in Hashstarts \cup Unstored : j < k}

\* The tree begins right after the data that it hashes, in blocks of the image
\* that the table gives in sectors: nothing is left unverified (17-21).
TreeFollowsData ==
  stage = "ctr" =>
    /\ given[5] = given[6]
    /\ \A j \in 1 .. Len(table) :
         table[j].key = "hashstart" /\ Once("hashstart") /\ table[j].num % 8 = 0 =>
           \E b \in 0 .. table[j].num : 8 * b = table[j].num /\ given[5] = ToString(b)

\* What is done about a corrupt block is what one of the words asks for.
Heard(what, words) ==
  \/ what = "panic_on_corruption" /\ words \cap Panics # {}
  \/ what = "ignore_corruption" /\ words \cap Ignores # {}

\* What is given to upstream is what the words say, in any order, none of the
\* five that it cannot do without is missing, and the tree follows the data
\* (59-148).
AsAsked ==
  /\ TreeFollowsData
  /\ stage = "ctr" =>
       /\ \A k \in DOMAIN Slots : Values(k) # {} => given[Slots[k]] \in Values(k)
       /\ \A k \in {"payload", "hashtree", "hashstart", "alg", "root_hexdigest"} : Values(k) # {}
       /\ 11 \in DOMAIN given <=> Values("error_behavior") \cap (Panics \cup Ignores) # {}
       /\ 11 \in DOMAIN given => Heard(given[11], Values("error_behavior"))

-----------------------------------------------------------------------------
(***************************************************************************)
(* Why the invariants hold.                                                *)
(***************************************************************************)

VerityTypeOK ==
  /\ table \in Tables
  /\ i \in 1 .. Len(table) + 1
  /\ nargv = [s \in 0 .. 11 |-> nargv[s]]
  /\ stage \in {"start", "loop", "ctr", "EINVAL", "ENOMEM", "refused", "mapped"}

\* The words that were read, and their values.
Before(k) == {j \in 1 .. i - 1 : table[j].key = k}
Seen(k) == {table[j].val : j \in Before(k)}

\* What the slots hold is what a word that was read says, or the default.
SlotsInv ==
  /\ \A k \in DOMAIN Slots :
       IF Before(k) = {} THEN nargv[Slots[k]] = Fresh[Slots[k]] ELSE nargv[Slots[k]] \in Seen(k)
  /\ nargv[5] = nargv[6]
  /\ IF Hashstarts = {} THEN nargv[5] = Null
     ELSE \E j \in Hashstarts : /\ table[j].num \in Nat
                                /\ nargv[5] = ToString(Blocks(table[j].num))
  /\ nargv[11] # Null <=> Seen("error_behavior") \cap (Panics \cup Ignores) # {}
  /\ nargv[11] # Null => Heard(nargv[11], Seen("error_behavior"))

\* Until the end every buffer is held, and none was freed.
BuffersInv ==
  /\ stage = "start" => heap = {} /\ i = 1
  /\ stage \in {"loop", "ctr"} => heap = {Argv} \cup Hashstarts
  /\ ~ Ended => DOMAIN freed = {}

\* Upstream is given the slots once all words are read.
GivenInv ==
  stage = "ctr" =>
    /\ i = Len(table) + 1
    /\ Complete
    /\ given = IF nargv[11] = Null THEN [s \in 0 .. 9 |-> nargv[s]] ELSE [nargv EXCEPT ![10] = "1"]

\* The inductive invariant.
VerityInv == VerityTypeOK /\ SlotsInv /\ BuffersInv /\ GivenInv /\ OnlyReplacedLeak

=============================================================================
