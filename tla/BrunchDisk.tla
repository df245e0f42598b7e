----------------------------- MODULE BrunchDisk -----------------------------
(***************************************************************************)
(* The persistent state of a brunch installation: what a power loss leaves *)
(* behind.  brunch-init (the initramfs) and chromeos-update (the running   *)
(* system) only communicate through it.                                    *)
(*                                                                         *)
(*   p3  ROOT-A    the root file system ChromeOS runs from (patched)       *)
(*   p5  ROOT-B    the pristine ChromeOS image ROOT-A is rebuilt from      *)
(*   p7  ROOT-C    the brunch framework: kernels, patches, packages and    *)
(*                 the record of the last rebuild                          *)
(*   p12 EFI       GRUB and settings.cfg                                   *)
(*   p1  STATE     user data                                               *)
(*   GPT           the priorities of KERN-A (p2) and KERN-B (p4)           *)
(***************************************************************************)
EXTENDS Integers

CONSTANTS
  Images,         \* ChromeOS versions
  Frameworks,     \* brunch releases
  KernelNames,    \* values of kernel= in settings.cfg
  KernelVersions, \* third word of /proc/version
  OptionSets,     \* values of options= in settings.cfg
  DebugFlags,     \* with and without cros_debug on the command line
  Ships,          \* the version of each kernel file a framework holds
  DefaultSettings,\* template.cfg, the settings.cfg of a new EFI partition
  None            \* no file, no kernel, no argument

RecordFiles == {"debug", "kernel_version", "options"}

\* What /rootc/debug, /rootc/kernel_version and /rootc/options record.
ParamValues == DebugFlags \cup KernelVersions \cup OptionSets
Params == [RecordFiles -> ParamValues]

Settings == [debug : DebugFlags, kernel : KernelNames, options : OptionSets]

\* GPT priorities are four bits wide; the scripts only ever write 0 and 15.
Priorities == 0 .. 15

ASSUME DiskAssumption ==
  /\ Ships \in [Frameworks -> [KernelNames -> KernelVersions \cup {None}]]
  /\ DefaultSettings \in Settings
  /\ None \notin ParamValues \cup Images \cup Frameworks

VARIABLES
  rootA,     \* what ROOT-A was last (re)built from, how far that got, and
             \* whether it is what it was meant to be
  rootB,     \* the image on ROOT-B and whether it is all there
  rootC,     \* the framework on ROOT-C and whether it is all there
  recorded,  \* contents of the three record files on ROOT-C
  md5sum,    \* /rootc/.md5sum against the listing of ROOT-C
  prio,      \* GPT priorities of KERN-A and KERN-B
  efi,       \* settings.cfg and whether the EFI partition is all there
  stateful   \* file system of p1, and whether a session has stored data on it

diskVars == <<rootA, rootB, rootC, recorded, md5sum, prio, efi, stateful>>

\* A partition being overwritten is neither its old nor its new contents, and
\* ROOT-A is "partial" until it is patched.
\* A half written ROOT-B may ("torn") or may not ("unreadable") still mount
\* and list without an error: only its metadata decides that.
\* ROOT-A is "torn" when ROOT-B was, "failed" when a command of the rebuild
\* failed or a partition was copied in part, and "whole" otherwise.
\* STATE is "unformatted" when it should have become ext4 and is ext2 still.
DiskTypeOK ==
  /\ rootA \in [phase : {"partial", "complete"}, img : Images,
                state : {"whole", "torn", "failed"}, fw : Frameworks,
                param : Params]
  /\ rootB \in [img : Images, state : {"whole", "torn", "unreadable"}]
  /\ rootC \in [fw : Frameworks, whole : BOOLEAN]
  /\ recorded \in [RecordFiles -> ParamValues \cup {None}]
  /\ md5sum \in {"absent", "match", "stale"}
  /\ prio \in [a : Priorities, b : Priorities]
  /\ efi \in [cfg : Settings, whole : BOOLEAN]
  /\ stateful \in [fs : {"ext2", "ext4", "unformatted"}, data : BOOLEAN]

\* The parameters brunch-init sees when GRUB boots settings s.
ParamOf(s, fw) ==
  [f \in RecordFiles |->
     IF f = "debug" THEN s.debug
     ELSE IF f = "options" THEN s.options ELSE Ships[fw][s.kernel]]

KernelShipped(s, fw) == Ships[fw][s.kernel] # None

NoRecord == [f \in RecordFiles |-> None]

\* An installation as chromeos-install leaves it: the root of the recovery
\* image is on ROOT-A, where it has not been patched, and on ROOT-B, KERN-A has
\* the priority and the framework image carries no record yet.
DiskInit ==
  \E fw \in Frameworks, img \in Images, fs \in {"ext2", "ext4"} :
    /\ KernelShipped(DefaultSettings, fw)
    /\ rootA = [phase |-> "partial", img |-> img, state |-> "whole", fw |-> fw,
                param |-> ParamOf(DefaultSettings, fw)]
    /\ rootB = [img |-> img, state |-> "whole"]
    /\ rootC = [fw |-> fw, whole |-> TRUE]
    /\ recorded = NoRecord
    /\ md5sum = "absent"
    /\ prio = [a |-> 15, b |-> 0]
    /\ efi = [cfg |-> DefaultSettings, whole |-> TRUE]
    /\ stateful = [fs |-> fs, data |-> FALSE]

\* brunch-init's reading of the priorities: "update detected".
Pending == prio.b >= prio.a

\* "new install detected": one of the four files is not there.
RecordMissing == md5sum = "absent" \/ \E f \in RecordFiles : recorded[f] = None

\* Mutant: only the listing is compared.
ListingDiffers(p) == p \in Params /\ md5sum # "match"

\* Mutant: the kernel version is not compared.
DiffersButForKernel(p) ==
  md5sum # "match" \/ \E f \in {"debug", "options"} : recorded[f] # p[f]

\* "framework change detected": the running parameters are not the recorded
\* ones, or the listing of ROOT-C is not the one .md5sum was taken over.
RecordDiffers(p) == recorded # p \/ md5sum # "match"

\* Mutant: a new installation is not detected.
NeedsRebuildIfChanged(p) == Pending \/ (~ RecordMissing /\ RecordDiffers(p))

\* The decision brunch-init takes when it is booted with parameters p.
NeedsRebuild(p) == Pending \/ RecordMissing \/ RecordDiffers(p)

=============================================================================
