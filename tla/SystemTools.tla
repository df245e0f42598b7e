---------------------------- MODULE SystemTools -----------------------------
(***************************************************************************)
(* extract-recovery and resize-data (99-extract_recovery.sh and            *)
(* 99-resize_data.sh), run in the system that one of the installers has    *)
(* made: the first writes ROOT-B, KERN-B and the EFI partition to the file *)
(* of a recovery image, with a partition table of its own; the second      *)
(* enlarges STATE after the installation was copied to a larger disk.      *)
(***************************************************************************)
EXTENDS ChromeosInstall

CONSTANTS
  Larger  \* sizes of the disks an installation is copied to

ASSUME ToolsAssumption == Larger \subseteq Nat

VARIABLES
  tool,   \* "none", "table", "copy", "created"
  image,  \* the table of the image: start and sectors of each partition
  ientry, \* the next entry of it,
  icurr,  \* where that begins
  icopy,  \* the next copy
  ilen,   \* ilen[p]: how much of the contents partition p of the image has
  broken, \* a pv could not read its source to the end
  resized \* resize-data was run on this disk

imageVars == <<image, ientry, icurr, icopy, ilen, broken>>
toolVars == <<tool, imageVars, resized>>
allVars == <<vars, toolVars>>

\* image_size=5
ImageSectors == 10485760

\* Partitions that are there to keep their number have one byte.
Number(part, align) == Entry(part, 1, align)

\* Mutant: EFI-SYSTEM of 16 MiB.
ImageLayoutOfSmallEfi ==
  << Number(11, FALSE), Number(6, FALSE), Number(7, TRUE), Number(9, FALSE),
     Number(10, FALSE), Number(0, FALSE), Number(2, FALSE), Entry(4, 65536, FALSE),
     Number(8, TRUE), Number(0, FALSE), Entry(12, 32768, FALSE), Number(5, TRUE),
     Entry(3, 8388608, TRUE) >>

\* A file has blocks of 512 bytes.
ImageLayout ==
  << Number(11, FALSE), Number(6, FALSE), Number(7, TRUE), Number(9, FALSE),
     Number(10, FALSE), Number(0, FALSE), Number(2, FALSE), Entry(4, 65536, FALSE),
     Number(8, TRUE), Number(0, FALSE), Entry(12, 65536, FALSE), Number(5, TRUE),
     Entry(3, 8388608, TRUE) >>

\* pv of KERN-B, of ROOT-B, which becomes the image's ROOT-A, and of EFI-SYSTEM.
Copies == << [src |-> 4, dst |-> 4], [src |-> 5, dst |-> 3], [src |-> 12, dst |-> 12] >>

ToolsInit ==
  /\ Init
  /\ tool = "none"
  /\ image = [start |-> [p \in Partitions |-> 0], sectors |-> [p \in Partitions |-> 0]]
  /\ ientry = 1
  /\ icurr = 64
  /\ icopy = 1
  /\ ilen = [p \in Partitions |-> 0]
  /\ broken = FALSE
  /\ resized = FALSE

\* The installation has worked, and the system it made is running.
Running == pc = "installed" /\ \A p \in Copied : Holds(p)

Install == Next /\ UNCHANGED toolVars

-----------------------------------------------------------------------------
(***************************************************************************)
(* extract-recovery                                                        *)
(***************************************************************************)

Do(at, to) == Running /\ tool = at /\ tool' = to /\ UNCHANGED <<vars, resized>>

\* dd of the empty image, cgpt create
Create ==
  /\ Do("none", "table")
  /\ UNCHANGED imageVars

\* Mutant: aligned down.
AddImageEntryBelow ==
  /\ Do("table", "table")
  /\ ientry <= Len(ImageLayout)
  /\ LET e == ImageLayout[ientry]
         at == IF e.align THEN icurr - (icurr % 8) ELSE icurr
     IN /\ image' = IF e.part = 0 THEN image
                    ELSE [start |-> [image.start EXCEPT ![e.part] = at],
                          sectors |-> [image.sectors EXCEPT ![e.part] = e.sectors]]
        /\ icurr' = at + e.sectors
  /\ ientry' = ientry + 1
  /\ UNCHANGED <<icopy, ilen, broken>>

\* One entry of write_base_table.
AddImageEntry ==
  /\ Do("table", "table")
  /\ ientry <= Len(ImageLayout)
  /\ LET e == ImageLayout[ientry]
         at == IF e.align THEN AlignUp(icurr) ELSE icurr
     IN /\ image' = IF e.part = 0 THEN image
                    ELSE [start |-> [image.start EXCEPT ![e.part] = at],
                          sectors |-> [image.sectors EXCEPT ![e.part] = e.sectors]]
        /\ icurr' = at + e.sectors
  /\ ientry' = ientry + 1
  /\ UNCHANGED <<icopy, ilen, broken>>

\* STATE, and losetup.
AddImageState ==
  /\ Do("table", "copy")
  /\ ientry = Len(ImageLayout) + 1
  /\ LET at == AlignUp(icurr)
     IN image' = [start |-> [image.start EXCEPT ![1] = at],
                  sectors |-> [image.sectors EXCEPT ![1] = ImageSectors - (at + 48)]]
  /\ UNCHANGED <<ientry, icurr, icopy, ilen, broken>>

Least(a, b) == IF a <= b THEN a ELSE b

\* The first n sectors of the next source, the whole partition, go as far as
\* the partition of the image reaches; pv's status is not looked at.
Pv(n, breaks) ==
  LET c == Copies[icopy] IN
  /\ ilen' = [ilen EXCEPT ![c.dst] = Least(n, image.sectors[c.dst])]
  /\ broken' = (broken \/ breaks)
  /\ icopy' = icopy + 1
  /\ UNCHANGED <<image, ientry, icurr>>

CopyToImage ==
  /\ Do("copy", "copy")
  /\ icopy <= Len(Copies)
  /\ \/ Pv(PartitionSectors(Copies[icopy].src), FALSE)
     \/ \E n \in Cuts : n < PartitionSectors(Copies[icopy].src) /\ Pv(n, TRUE)

\* "recovery created."
Created ==
  /\ Do("copy", "created")
  /\ icopy = Len(Copies) + 1
  /\ UNCHANGED imageVars

-----------------------------------------------------------------------------
(***************************************************************************)
(* resize-data                                                             *)
(***************************************************************************)

\* An image is written to a larger disk, as it is.
CopyToLarger ==
  /\ Running /\ tool = "none" /\ mode = "image"
  /\ \E n \in Larger : n > dev.sectors /\ dev' = [dev EXCEPT !.sectors = n]
  /\ resized' = FALSE
  /\ UNCHANGED <<pc, mode, sizes, legacy, tableVars, next, copyVars, tool, imageVars>>

\* cgpt refuses an entry that reaches beyond the disk.
Fitting(n) == Begins(1) + n * dev.block <= dev.sectors - TailSectors

\* disk_size, in sectors, less the first block of STATE and 48.
NewSize == dev.sectors - start[1] - 48

\* cgpt add -i 1 with the new size, cgpt repair, resize2fs, reboot.
Resize ==
  /\ Running /\ tool = "none"
  /\ blocks' = IF Fitting(NewSize) THEN [blocks EXCEPT ![1] = NewSize] ELSE blocks
  /\ resized' = TRUE
  /\ UNCHANGED <<pc, targetVars, entry, curr, start, next, copyVars, tool, imageVars>>

ToolsNext ==
  \/ Install \/ Create \/ AddImageEntry \/ AddImageState \/ CopyToImage \/ Created
  \/ CopyToLarger \/ Resize

ToolsSpec == ToolsInit /\ [][ToolsNext]_allVars

-----------------------------------------------------------------------------

ToolsTypeOK ==
  /\ tool \in {"none", "table", "copy", "created"}
  /\ image \in [start : [Partitions -> Nat], sectors : [Partitions -> Nat]]
  /\ ientry \in 1 .. Len(ImageLayout) + 1
  /\ icurr \in Nat
  /\ icopy \in 1 .. Len(Copies) + 1
  /\ ilen \in [Partitions -> Nat]
  /\ broken \in BOOLEAN
  /\ resized \in BOOLEAN

\* The table of the image: no overlaps, room for both copies of the GPT, and a
\* STATE, in the five GiB of the file (extract-recovery, write_base_table).
ImageSound ==
  tool \in {"copy", "created"} =>
    /\ ToolsTypeOK
    /\ \A p \in Partitions :
         /\ image.sectors[p] > 0
         /\ image.start[p] >= 34
         /\ image.start[p] + image.sectors[p] <= ImageSectors - 33
    /\ \A p, q \in Partitions : p # q =>
         Apart(image.start[p], image.sectors[p], image.start[q], image.sectors[q])

\* KERN-B and EFI-SYSTEM of the image are half as large as those they are
\* copied from (118 and 138), and pv stops where they end: all that an installer
\* had put there arrives as long as it fits, as the image of build-init, of
\* 32 MiB (220), does, and so does all of ROOT-B.
ExtractedIsInstalled ==
  tool = "created" /\ ~ broken =>
    /\ \A i \in 1 .. Len(Copies) :
         len[Copies[i].src] <= 65536 => ilen[Copies[i].dst] >= len[Copies[i].src]
    /\ mode # "clone" => ilen[12] >= len[12]
    /\ ilen[3] >= len[5]

\* resize-data keeps where STATE begins and all of its contents, whatever
\* the size of a block, which it does not look at, and where the table is in
\* blocks of 512 bytes it leaves no more than the 48 sectors of the backup.
ResizeKeepsState ==
  [][Resize =>
       /\ start' = start
       /\ blocks'[1] >= blocks[1]
       /\ dev.block = 1 => Begins(1) + blocks'[1] = dev.sectors - 48]_allVars

-----------------------------------------------------------------------------
(***************************************************************************)
(* Why these hold.                                                         *)
(***************************************************************************)

\* STATE is the last partition and ends 48 sectors before the end, and ROOT-B is
\* as long as ROOT-A of the image.
StateInv ==
  /\ entry > 12 => PartitionSectors(5) = 8388608
  /\ pc # "table" =>
       /\ entry = Len(Layout) + 1
       /\ Begins(1) + PartitionSectors(1) <= dev.sectors - 48
       /\ \A p \in Partitions \ {1} : Begins(p) + PartitionSectors(p) <= Begins(1)

\* What is left of IInv when the installation is on another disk.
InstalledInv ==
  /\ dev \in [block : {1, 8}, sectors : Nat] /\ dev.sectors >= MinSectors
  /\ start \in [Partitions -> Nat] /\ blocks \in [Partitions -> Nat]
  /\ len \in [Partitions -> Nat]
  /\ TableSound
  /\ mode # "clone" => len[12] <= sizes["efi_legacy.img"]

\* How far the first entries of the image can reach: each takes its length and
\* less than 4096 bytes for its alignment.
ImageReach ==
  << 64, 72, 80, 88, 96, 104, 112, 120, 65663, 65671, 65679, 131222, 131230, 8519845 >>

\* The entries so far lie one after the other below icurr, and nothing is copied.
ImageEntriesInv ==
  /\ icopy = 1
  /\ icurr >= 64
  /\ icurr <= ImageReach[ientry]
  /\ \A i \in 1 .. ientry - 1 :
       ImageLayout[i].part # 0 => image.sectors[ImageLayout[i].part] = ImageLayout[i].sectors
  /\ \A p \in Partitions : image.sectors[p] > 0 =>
       image.start[p] >= 64 /\ image.start[p] + image.sectors[p] <= icurr
  /\ \A p, q \in Partitions : p # q =>
       Apart(image.start[p], image.sectors[p], image.start[q], image.sectors[q])

\* What the copies so far have brought, if they could be read.
ExtractInv ==
  tool \in {"copy", "created"} =>
    /\ image.sectors[3] = 8388608 /\ image.sectors[4] = 65536 /\ image.sectors[12] = 65536
    /\ tool = "created" => icopy = Len(Copies) + 1
    /\ ~ broken => \A i \in 1 .. icopy - 1 :
         ilen[Copies[i].dst] = Least(PartitionSectors(Copies[i].src), image.sectors[Copies[i].dst])

\* The inductive invariant.
ToolsInv ==
  /\ IF pc = "installed" THEN InstalledInv ELSE IInv
  /\ sizes \in Sources
  /\ StateInv
  /\ CopiesInPlace
  /\ ToolsTypeOK
  /\ tool # "none" => Running
  /\ tool \in {"none", "table"} => ImageEntriesInv
  /\ ImageSound
  /\ ExtractInv

=============================================================================
