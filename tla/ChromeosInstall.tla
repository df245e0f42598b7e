-------------------------- MODULE ChromeosInstall --------------------------
(***************************************************************************)
(* The installers: scripts/chromeos-install.sh, which writes a recovery    *)
(* image and the brunch framework to a disk (install_singleboot) or to the *)
(* file of a dual boot (install_dualboot), and the chromeos-install that   *)
(* brunch-patches/99-installer.sh puts into ChromeOS, which clones the     *)
(* running system.  All of them write the partition table of               *)
(* write_base_table and then copy one partition after the other.           *)
(*                                                                         *)
(* Lengths are in sectors of 512 bytes: every length write_base_table      *)
(* computes with is a multiple of that but the one byte of the partitions  *)
(* that exist only to keep their number, which takes a block either way.   *)
(***************************************************************************)
EXTENDS Integers, Sequences

CONSTANTS
  Devices,  \* possible destinations
  Modes,    \* "disk" and "image" from outside, "clone" from ChromeOS
  Sources,  \* sizes of the things to copy
  Cuts      \* lengths after which a transfer may break off

\* The partitions of a recovery image or of the running system, and the images
\* that come with the framework.  "rootc.img from p8" is what rootc.img holds
\* in the place where the recovery image has its partition 8.
PartitionName ==
  << "p1", "p2", "p3", "p4", "p5", "p6", "p7", "p8", "p9", "p10", "p11", "p12" >>

SourceNames ==
  {PartitionName[p] : p \in 1 .. 12}
    \cup {"rootc.img", "rootc.img from p8", "efi_secure.img", "efi_legacy.img"}

\* A block is 512 or 4096 bytes, and all installers refuse less than 14 GiB.
MinSectors == 29360128

ASSUME InstallAssumption ==
  /\ Devices \subseteq [block : {1, 8}, sectors : {n \in Nat : n >= MinSectors}]
  /\ Modes \subseteq {"disk", "image", "clone"}
  /\ Sources \subseteq [SourceNames -> Nat]
  /\ Cuts \subseteq Nat

VARIABLES
  pc,       \* "table", "copy", "installed" or "failed"
  dev,      \* the destination
  mode,     \* which installer
  sizes,    \* of the sources, in sectors
  legacy,   \* -l was given
  entry,    \* the next entry of the partition table
  curr,     \* where it begins, in sectors
  start,    \* start[p], blocks[p]: the table, in blocks of the device
  blocks,
  next,     \* the next partition to copy
  from,     \* from[p], len[p]: the sectors partition p's contents went to,
  len,      \* content[p]: what they are,
  content,  \* whole[p]: all of it was read and written
  whole

tableVars  == <<entry, curr, start, blocks>>
copyVars   == <<from, len, content, whole>>
targetVars == <<dev, mode, sizes, legacy>>
vars == <<pc, targetVars, tableVars, next, copyVars>>

Partitions == 1 .. 12

\* The entries in the order of the script: `align' rounds the start up to 4096
\* bytes, `part' 0 is a gap.  STATE comes after them.
Entry(part, sectors, align) == [part |-> part, sectors |-> sectors, align |-> align]

Layout ==
  << Entry(11, 16384, FALSE),  Entry(6, 1, FALSE),        Entry(7, 2097152, TRUE),
     Entry(9, 1, FALSE),       Entry(10, 1, FALSE),       Entry(0, 4028, FALSE),
     Entry(2, 131072, FALSE),  Entry(4, 131072, FALSE),   Entry(8, 32768, TRUE),
     Entry(0, 131072, FALSE),  Entry(12, 131072, FALSE),  Entry(5, 8388608, TRUE),
     Entry(3, 8388608, TRUE) >>

AlignUp(n) == IF n % 8 > 0 THEN n + (8 - (n % 8)) ELSE n

\* Mutant: the incomplete block is forgotten.
WholeBlocks(n) == n \div dev.block

BlocksFor(n) == n \div dev.block + (IF n % dev.block > 0 THEN 1 ELSE 0)

Init ==
  /\ pc = "table"
  /\ dev \in Devices
  /\ mode \in Modes
  /\ mode = "image" => dev.block = 1
  /\ sizes \in Sources
  /\ legacy \in BOOLEAN
  /\ entry = 1
  /\ curr = 64
  /\ start = [p \in Partitions |-> 0]
  /\ blocks = [p \in Partitions |-> 0]
  /\ next = 1
  /\ from = [p \in Partitions |-> 0]
  /\ len = [p \in Partitions |-> 0]
  /\ content = [p \in Partitions |-> "none"]
  /\ whole = [p \in Partitions |-> FALSE]

-----------------------------------------------------------------------------

\* blocks=..., cgpt add -i part -b curr / block_size -s blocks, curr += ...
AddEntry ==
  /\ pc = "table"
  /\ entry <= Len(Layout)
  /\ LET e == Layout[entry]
         at == IF e.align THEN AlignUp(curr) ELSE curr
     IN /\ start' = [p \in Partitions |->
                       IF p = e.part THEN at \div dev.block ELSE start[p]]
        /\ blocks' = [p \in Partitions |->
                       IF p = e.part THEN BlocksFor(e.sectors) ELSE blocks[p]]
        /\ curr' = at + BlocksFor(e.sectors) * dev.block
  /\ entry' = entry + 1
  /\ UNCHANGED <<pc, targetVars, next, copyVars>>

\* Mutant: nothing is left for the backup of the table.
AddStateToTheEnd ==
  /\ pc = "table"
  /\ entry = Len(Layout) + 1
  /\ LET at == AlignUp(curr)
     IN /\ start' = [start EXCEPT ![1] = at \div dev.block]
        /\ blocks' = [blocks EXCEPT ![1] = dev.sectors \div dev.block - at \div dev.block]
        /\ curr' = at
  /\ pc' = "copy"
  /\ UNCHANGED <<entry, targetVars, next, copyVars>>

\* STATE takes the rest but the 24576 bytes of the backup table.
AddState ==
  /\ pc = "table"
  /\ entry = Len(Layout) + 1
  /\ LET at == AlignUp(curr)
     IN /\ start' = [start EXCEPT ![1] = at \div dev.block]
        /\ blocks' = [blocks EXCEPT ![1] =
                        dev.sectors \div dev.block - (at + 48) \div dev.block]
        /\ curr' = at
  /\ pc' = "copy"
  /\ UNCHANGED <<entry, targetVars, next, copyVars>>

-----------------------------------------------------------------------------

\* The installers from outside leave the unused partitions alone.
Copied == IF mode = "clone" THEN Partitions ELSE Partitions \ {6, 9, 10, 11}

\* What goes to partition p.  KERN-A and ROOT-B are copies of the recovery
\* image's KERN-B and ROOT-A.  `[ -z legacy_boot ]' tests a word, not the
\* variable, and is never true.  install_singleboot does not set the variable
\* `image' back to the recovery image after partition 7.
SourceOf(p) ==
  CASE mode = "clone" /\ p = 1 -> "mkfs"
    [] mode # "clone" /\ p = 2 -> "p4"
    [] mode # "clone" /\ p = 5 -> "p3"
    [] mode # "clone" /\ p = 7 -> "rootc.img"
    [] mode # "clone" /\ p = 12 -> "efi_legacy.img"
    [] mode = "disk" /\ p = 8 -> "rootc.img from p8"
    [] OTHER -> PartitionName[p]

PartitionSectors(p) == blocks[p] * dev.block

\* A file system made in place is as large as its partition.
Size(p) == IF SourceOf(p) = "mkfs" THEN PartitionSectors(p) ELSE sizes[SourceOf(p)]

\* Mutant: dd seeks to where the source begins.
SeekToSource(p) ==
  IF mode = "disk"
  THEN start[IF p = 2 THEN 4 ELSE IF p = 5 THEN 3 ELSE p]
  ELSE start[p] * dev.block

\* install_singleboot writes to the device as a whole and seeks, with blocks
\* of 512 bytes, to the number cgpt shows; the others write to the device of
\* the partition.
Destination(p) == IF mode = "disk" THEN start[p] ELSE start[p] * dev.block

Room(p) == IF mode = "disk" THEN dev.sectors - Destination(p) ELSE PartitionSectors(p)

\* The first n sectors of the contents of the next partition are written.
Write(n, all) ==
  /\ from' = [from EXCEPT ![next] = Destination(next)]
  /\ len' = [len EXCEPT ![next] = n]
  /\ content' = [content EXCEPT ![next] = SourceOf(next)]
  /\ whole' = [whole EXCEPT ![next] = all]
  /\ UNCHANGED <<targetVars, tableVars>>

Copying == pc = "copy" /\ next <= 12 /\ next \in Copied

Skip ==
  /\ pc = "copy"
  /\ next <= 12
  /\ next \notin Copied
  /\ next' = next + 1
  /\ UNCHANGED <<pc, targetVars, tableVars, copyVars>>

CopyWhole ==
  /\ Copying
  /\ Size(next) <= Room(next)
  /\ Write(Size(next), TRUE)
  /\ next' = next + 1
  /\ UNCHANGED pc

\* The source cannot be read to its end.  In `dd | pv | dd' only the status
\* of the last one counts, and the clone does not look at pv's.
ReadBreaks ==
  /\ Copying
  /\ \E n \in Cuts : n < Size(next) /\ n <= Room(next) /\ Write(n, FALSE)
  /\ next' = next + 1
  /\ UNCHANGED pc

\* The destination cannot be written, or is full: `error' ends the installer,
\* the clone goes on.
WriteFails ==
  /\ Copying
  /\ \E n \in Cuts \cup {Room(next)} :
       n < Size(next) /\ n <= Room(next) /\ Write(n, FALSE)
  /\ IF mode = "clone"
     THEN next' = next + 1 /\ UNCHANGED pc
     ELSE pc' = "failed" /\ UNCHANGED next

\* "Brunch has been successfully installed on the device", "ChromeOS
\* installed."
Finish ==
  /\ pc = "copy"
  /\ next = 13
  /\ pc' = "installed"
  /\ UNCHANGED <<targetVars, tableVars, next, copyVars>>

Next == AddEntry \/ AddState \/ Skip \/ CopyWhole \/ ReadBreaks \/ WriteFails \/ Finish

Spec == Init /\ [][Next]_vars

-----------------------------------------------------------------------------

TypeOK ==
  /\ pc \in {"table", "copy", "installed", "failed"}
  /\ dev \in Devices
  /\ mode \in Modes
  /\ sizes \in [SourceNames -> Nat]
  /\ legacy \in BOOLEAN
  /\ entry \in 1 .. Len(Layout) + 1
  /\ curr \in Nat
  /\ start \in [Partitions -> Nat]
  /\ blocks \in [Partitions -> Nat]
  /\ next \in 1 .. 13
  /\ from \in [Partitions -> Nat]
  /\ len \in [Partitions -> Nat]
  /\ content \in [Partitions -> SourceNames \cup {"mkfs", "none"}]
  /\ whole \in [Partitions -> BOOLEAN]

\* [a, a + n) and [b, b + m) have no sector in common.
Apart(a, n, b, m) == n = 0 \/ m = 0 \/ a + n <= b \/ b + m <= a

\* The sectors a GPT takes at the head and at the end of a disk.
HeadSectors == IF dev.block = 1 THEN 34 ELSE 48
TailSectors == IF dev.block = 1 THEN 33 ELSE 40

Begins(p) == start[p] * dev.block

\* The table is sound for both block sizes and every size of disk: a partition
\* has at least the length asked for, none overlaps another one or the two
\* copies of the table, and STATE is not empty (write_base_table).
TableSound ==
  pc # "table" =>
    /\ \A i \in 1 .. Len(Layout) :
         Layout[i].part # 0 => PartitionSectors(Layout[i].part) >= Layout[i].sectors
    /\ \A p \in Partitions :
         /\ blocks[p] > 0
         /\ Begins(p) >= HeadSectors
         /\ Begins(p) + PartitionSectors(p) <= dev.sectors - TailSectors
    /\ \A p, q \in Partitions : p # q =>
         Apart(Begins(p), PartitionSectors(p), Begins(q), PartitionSectors(q))

\* Partition p of the finished installation holds what was to be copied to it.
Holds(p) ==
  /\ whole[p]
  /\ from[p] = Begins(p)
  /\ len[p] <= PartitionSectors(p)
  /\ \A q \in Copied : q > p => Apart(from[p], len[p], from[q], len[q])

Fits == \A p \in Copied : Size(p) <= PartitionSectors(p)

\* What was read completely ends up in its partition, undisturbed by the
\* partitions copied after it: install_singleboot needs blocks of 512 bytes
\* and sources that fit for this, the others do not.
CopiesInPlace ==
  pc = "installed" /\ (mode = "disk" => dev.block = 1 /\ Fits)
    => \A p \in Copied : whole[p] => Holds(p)

-----------------------------------------------------------------------------
(***************************************************************************)
(* Why these hold: the inductive invariant.                                *)
(***************************************************************************)

\* How far the first entries can reach: each takes its length and less than
\* one block of 4096 bytes for its alignment and for its end.
Reach ==
  << 64, 16462, 16477, 2113643, 2113658,
     2113673, 2117715, 2248801, 2379887,
     2412669, 2543755, 2674841,
     11063463, 19452085 >>

\* The entries so far lie one after the other below curr.
EntriesInv ==
  /\ curr % dev.block = 0
  /\ curr >= 64
  /\ curr <= Reach[entry]
  /\ \A i \in 1 .. entry - 1 :
       Layout[i].part # 0 => PartitionSectors(Layout[i].part) >= Layout[i].sectors
  /\ \A p \in Partitions :
       /\ blocks[p] > 0 => Begins(p) >= 64
       /\ blocks[p] > 0 => Begins(p) + PartitionSectors(p) <= curr
  /\ \A p, q \in Partitions : p # q =>
       Apart(Begins(p), PartitionSectors(p), Begins(q), PartitionSectors(q))

\* What the copies so far have written.
CopiesInv ==
  /\ mode = "image" => dev.block = 1
  /\ pc = "table" => next = 1
  /\ pc = "installed" => next = 13
  /\ \A p \in Copied :
       IF p < next
       THEN /\ from[p] = Destination(p)
            /\ len[p] <= Room(p)
            /\ len[p] <= Size(p)
       ELSE pc # "failed" => ~ whole[p]

IInv ==
  /\ TypeOK
  /\ pc = "table" => EntriesInv
  /\ TableSound
  /\ CopiesInv

-----------------------------------------------------------------------------
(***************************************************************************)
(* Statements of the sources that the code does not keep.                  *)
(***************************************************************************)

\* chromeos-install.sh:293, "Brunch has been successfully installed on the
\* device": every partition holds its contents.
InstalledMeansWhole == pc = "installed" => \A p \in Copied : Holds(p)

\* chromeos-install.sh:10-12, "install ChromeOS on device or create disk image"
\* from the recovery image: all but the framework's own partitions are copied
\* from it.
CopiedFromRecovery ==
  pc = "installed" /\ mode # "clone" =>
    \A p \in Copied \ {7, 12} : \E q \in Partitions : content[p] = PartitionName[q]

\* chromeos-install.sh:15, "-l: Use legacy efi partition (no secure boot
\* support)": without it the EFI partition supports secure boot.
SecureUnlessLegacy ==
  pc = "installed" /\ mode # "clone" /\ ~ legacy => content[12] = "efi_secure.img"

=============================================================================
