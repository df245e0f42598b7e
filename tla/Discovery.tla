----------------------------- MODULE Discovery ------------------------------
(***************************************************************************)
(* scripts/brunch-init, lines 22-103: which disk the rest of the script    *)
(* works on.  GRUB passes no disk.  With img_uuid= or img_part= on the     *)
(* command line it is an image file or a nested partition table on the     *)
(* partition they name, which the script polls for; without them it is     *)
(* found by a scan of /sys/block.  Meanwhile the kernel is still finding   *)
(* disks.                                                                  *)
(***************************************************************************)
EXTENDS Integers

CONSTANTS
  Last,      \* number of names in /sys/block, in the order of the glob
  Timeouts   \* values of brunch_timeout= on the command line, 0 if unset

ASSUME DiscoveryAssumption == Last \in Nat /\ Timeouts \subseteq Nat

Disks == 1 .. Last
NoDisk == 0
Sdz == Last + 1   \* /dev/sdz, the loop device of an image

\* The times the script sleeps before it gives up on the boot partition.
Patience == 5

\* skipped: its name is fd* or loop*.  brunch: partition 1 is labelled STATE and
\* partition 3 ROOT-A.
DiskType == [skipped : BOOLEAN, brunch : BOOLEAN, removable : BOOLEAN]

\* uuid: img_uuid or img_part is given; path: so is img_path.
Arguments == [uuid : BOOLEAN, path : BOOLEAN]

VARIABLES
  disk,       \* what each disk is
  holders,    \* disks with the partition that the arguments name
  stored,     \* the image file is on that partition
  args,       \* the command line
  present,    \* the disks the kernel has found so far
  stage,      \* of the script
  timer,      \* brunch_timeout
  listed,     \* what /sys/block/* expanded to
  next,       \* the disk the scan looks at next
  bootdevice

machine == <<disk, holders, stored, args>>
discoveryVars == <<machine, present, stage, timer, listed, next, bootdevice>>

DiscoveryTypeOK ==
  /\ disk \in [Disks -> DiskType]
  /\ holders \in SUBSET Disks
  /\ stored \in BOOLEAN
  /\ args \in Arguments
  /\ present \in SUBSET Disks
  /\ stage \in {"start", "find", "open", "sleep", "scan", "check", "boot", "shell"}
  /\ timer \in Nat
  /\ listed \in SUBSET Disks
  /\ next \in 1 .. Last + 1
  /\ bootdevice \in 0 .. Last + 1

DiscoveryInit ==
  /\ disk \in [Disks -> DiskType]
  /\ args \in Arguments
  /\ holders \in IF args.uuid THEN SUBSET Disks ELSE {{}}
  /\ stored \in IF args.uuid /\ args.path THEN BOOLEAN ELSE {FALSE}
  /\ present = {}
  /\ stage = "start"
  /\ timer \in Timeouts
  /\ listed = {}
  /\ next = 1
  /\ bootdevice = NoDisk

\* The kernel finds a disk.
Appear(d) ==
  /\ d \notin present
  /\ present' = present \cup {d}
  /\ UNCHANGED <<machine, stage, timer, listed, next, bootdevice>>

Jump(from, to) == stage = from /\ stage' = to

-----------------------------------------------------------------------------

\* The counter of the loop has the name of an argument, and starts at 0.
Start ==
  /\ Jump("start", IF args.uuid THEN "find" ELSE "sleep")
  /\ timer' = IF args.uuid THEN 0 ELSE timer
  /\ UNCHANGED <<machine, present, listed, next, bootdevice>>

\* What [ -b "$img_part" ] says: blkid names all partitions with the UUID, and
\* two of them are not the name of a device.
PartitionThere == \E d \in holders : holders \cap present = {d}

FindPartition ==
  /\ Jump("find", "open")
  /\ PartitionThere
  /\ UNCHANGED <<machine, present, timer, listed, next, bootdevice>>

\* Mutant: the rounds are not counted.
RetryUncounted ==
  /\ Jump("find", "find")
  /\ ~ PartitionThere /\ timer # Patience
  /\ UNCHANGED <<machine, present, timer, listed, next, bootdevice>>

Retry ==
  /\ Jump("find", "find")
  /\ ~ PartitionThere /\ timer # Patience
  /\ timer' = timer + 1
  /\ UNCHANGED <<machine, present, listed, next, bootdevice>>

GiveUp ==
  /\ Jump("find", "shell")
  /\ ~ PartitionThere /\ timer = Patience
  /\ UNCHANGED <<machine, present, timer, listed, next, bootdevice>>

\* losetup of the image file, if it is there, or of the partition.
OpenImage ==
  /\ Jump("open", "check")
  /\ bootdevice' = IF args.path /\ ~ stored THEN bootdevice ELSE Sdz
  /\ UNCHANGED <<machine, present, timer, listed, next>>

\* sleep 5, or brunch_timeout; then the names in /sys/block are listed once.
ListDisks ==
  /\ Jump("sleep", "scan")
  /\ listed' = present
  /\ UNCHANGED <<machine, present, timer, next, bootdevice>>

\* The scan takes the disk for an installation.
Candidate(d) ==
  d \in listed /\ ~ disk[d].skipped /\ disk[d].brunch

Pass ==
  /\ stage = "scan" /\ next <= Last
  /\ ~ Candidate(next)
  /\ next' = next + 1
  /\ UNCHANGED <<machine, present, stage, timer, listed, bootdevice>>

\* Mutant: the scan goes on after a removable disk, too.
FoundRemovableNoBreak ==
  /\ stage = "scan" /\ next <= Last
  /\ Candidate(next) /\ disk[next].removable
  /\ bootdevice' = next
  /\ next' = next + 1
  /\ UNCHANGED <<machine, present, stage, timer, listed>>

\* "ChromeOS found on removable device, booting it !"
FoundRemovable ==
  /\ Jump("scan", "check") /\ next <= Last
  /\ Candidate(next) /\ disk[next].removable
  /\ bootdevice' = next
  /\ UNCHANGED <<machine, present, timer, listed, next>>

\* "... on fixed device, keep scanning for removable devices..."
FoundFixed ==
  /\ stage = "scan" /\ next <= Last
  /\ Candidate(next) /\ ~ disk[next].removable
  /\ bootdevice' = next
  /\ next' = next + 1
  /\ UNCHANGED <<machine, present, stage, timer, listed>>

EndScan ==
  /\ Jump("scan", "check") /\ next = Last + 1
  /\ UNCHANGED <<machine, present, timer, listed, next, bootdevice>>

\* "ChromeOS was not found on any device, falling back to shell..."
Check ==
  /\ Jump("check", IF bootdevice = NoDisk THEN "shell" ELSE "boot")
  /\ UNCHANGED <<machine, present, timer, listed, next, bootdevice>>

Script ==
  \/ Start \/ FindPartition \/ Retry \/ GiveUp \/ OpenImage
  \/ ListDisks \/ Pass \/ FoundRemovable \/ FoundFixed \/ EndScan \/ Check

DiscoveryNext == Script \/ \E d \in Disks : Appear(d)

DiscoverySpec == DiscoveryInit /\ [][DiscoveryNext]_discoveryVars

\* The script runs on; nothing is assumed of the disks.
DiscoveryFairSpec == DiscoverySpec /\ WF_discoveryVars(Script)

-----------------------------------------------------------------------------

Found == {d \in Disks : Candidate(d)}
Removables == {d \in Found : disk[d].removable}

\* A fixed disk is booted only if no installation on a removable one was
\* listed, and then it is the last; of several removable ones it is the first
\* (86-100).  A shell means that there was none.
ScanPrefersRemovable ==
  /\ stage = "boot" /\ ~ args.uuid =>
       IF Removables # {}
       THEN bootdevice \in Removables /\ \A d \in Removables : bootdevice <= d
       ELSE bootdevice \in Found /\ \A d \in Found : d <= bootdevice
  /\ stage = "shell" /\ ~ args.uuid => Found = {}

\* Discovery comes to an end, whatever the command line says and whichever
\* disks appear (24-31).
DiscoveryEnds == <>(stage \in {"boot", "shell"})

-----------------------------------------------------------------------------

\* The disks before next.
Scanned == {d \in Found : d < next}

\* The choice a scan of all disks would make in one step.
Chosen ==
  IF Removables # {}
  THEN bootdevice \in Removables /\ \A d \in Removables : bootdevice <= d
  ELSE IF Found # {}
       THEN bootdevice \in Found /\ \A d \in Found : d <= bootdevice
       ELSE bootdevice = NoDisk

\* How far the script is: the disks before next are accounted for, and the
\* counter, which is compared with == (29), cannot be past its last value.
ScanInv ==
  /\ stage \in {"find", "open"} => args.uuid /\ timer \in 0 .. Patience
  /\ stage \in {"sleep", "scan"} => ~ args.uuid
  /\ stage \in {"start", "find", "open", "sleep"} => bootdevice = NoDisk
  /\ stage \in {"start", "sleep"} => next = 1
  /\ stage = "scan" =>
       /\ \A d \in Scanned : ~ disk[d].removable /\ d <= bootdevice
       /\ bootdevice \in Scanned \cup {NoDisk}
  /\ stage \in {"check", "boot", "shell"} =>
       IF args.uuid THEN bootdevice \in {NoDisk, Sdz} ELSE Chosen
  /\ stage = "boot" => bootdevice # NoDisk
  /\ stage = "shell" => bootdevice = NoDisk

\* The inductive invariant.
DiscoveryInv == DiscoveryTypeOK /\ ScanInv /\ ScanPrefersRemovable

-----------------------------------------------------------------------------

\* How many steps the script has left at the most.
ScriptLeft ==
  CASE stage = "start" -> Last + Patience + 4
    [] stage = "find"  -> Patience - timer + 3
    [] stage = "sleep" -> Last + 3
    [] stage = "scan"  -> Last - next + 3
    [] stage = "open"  -> 2
    [] stage = "check" -> 1
    [] OTHER           -> 0

\* Each step of the script brings it closer to its end, and no disk that
\* appears sends it back (22-103).
ScriptAdvances ==
  [][/\ ScriptLeft \in Nat
     /\ Script => ScriptLeft' < ScriptLeft
     /\ ~ Script => ScriptLeft' = ScriptLeft]_discoveryVars

=============================================================================
