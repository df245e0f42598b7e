----------------------------- MODULE BrunchInit -----------------------------
(***************************************************************************)
(* scripts/brunch-init, the initramfs script that runs on every boot: it   *)
(* decides whether ROOT-A must be rebuilt from ROOT-B, rebuilds it, clears *)
(* the pending update, records the parameters of the rebuild on ROOT-C and *)
(* switches to ROOT-A.  Every step after which a power loss leaves a       *)
(* different disk is an action of its own.                                 *)
(***************************************************************************)
EXTENDS BrunchDisk

CONSTANTS
  Breakpoints,   \* values of brunch_debug= the user may boot with, 0 if unset
  Unnoticed      \* commands that may fail: "rebuild" ROOT-A, "mkfs" of STATE

ASSUME InitAssumption ==
  /\ Breakpoints \subseteq 0 .. 4
  /\ Unnoticed \subseteq {"rebuild", "mkfs"}

VARIABLES
  pc,     \* where the machine is
  boot,   \* the shell variables of brunch-init
  dirty,  \* files of ROOT-C written since it was mounted, not yet on disk
  built   \* history: the parameters ROOT-A was completely built with since
          \* ROOT-C became what rootC.fw says

initVars == <<pc, boot, dirty, built>>

Md5File == ".md5sum"

\* The steps of brunch-init during which the machine is on and booting.
BootSteps == {"decide", "probe", "copy", "copying", "patch", "umountA",
              "ackA", "ackB", "debug", "kernel_version", "options", "sum",
              "umountC", "switch"}

InitTypeOK ==
  /\ pc \in BootSteps \cup {"off", "halt", "running"}
  /\ boot \in [param : Params, rebuild : BOOLEAN, valid : BOOLEAN,
               breakpoint : 0 .. 4]
  /\ dirty \in SUBSET (RecordFiles \cup {Md5File})
  /\ built \in SUBSET Params

\* Nothing of the script's memory outlives it.
NoBoot == [param |-> rootA.param, rebuild |-> FALSE, valid |-> FALSE,
           breakpoint |-> 0]

InitInit ==
  /\ pc = "off"
  /\ boot = NoBoot
  /\ dirty = {}
  /\ built = {}

GoTo(from, to) == pc = from /\ pc' = to

\* Mutant: the digest is not taken over the times and sizes of the files.
FlushWithWeakDigest(s) ==
  /\ recorded' = [f \in RecordFiles |->
                    IF f \in s THEN boot.param[f] ELSE recorded[f]]
  /\ md5sum' = IF Md5File \in s THEN "match" ELSE md5sum
  /\ dirty' = {}

\* Mutant: the digest is taken over .md5sum, too.
FlushSelfDigest(s) ==
  /\ recorded' = [f \in RecordFiles |->
                    IF f \in s THEN boot.param[f] ELSE recorded[f]]
  /\ md5sum' = IF s = {} THEN md5sum ELSE "stale"
  /\ dirty' = {}

(***************************************************************************)
(* The files of ROOT-C that reached the disk, when only those of s did.    *)
(* .md5sum is a digest of `ls --full-time -lR /rootc/*': it matches again  *)
(* only if it and all the files it was taken over are on disk together.    *)
(***************************************************************************)
Flush(s) ==
  /\ recorded' = [f \in RecordFiles |->
                    IF f \in s THEN boot.param[f] ELSE recorded[f]]
  /\ md5sum' = IF s = {} THEN md5sum
               ELSE IF Md5File \in s
                    THEN IF RecordFiles \subseteq s THEN "match" ELSE "stale"
                    ELSE IF md5sum = "absent" THEN "absent" ELSE "stale"
  /\ dirty' = {}

-----------------------------------------------------------------------------

\* GRUB loads the configured kernel and the initramfs from ROOT-C, which
\* works for certain only if both partitions are whole.
GrubLoads ==
  /\ pc = "off"
  /\ efi.whole
  /\ KernelShipped(efi.cfg, rootC.fw)
  /\ \E bp \in Breakpoints :
       /\ boot' = [param |-> ParamOf(efi.cfg, rootC.fw), rebuild |-> FALSE,
                   valid |-> FALSE, breakpoint |-> bp]
       /\ pc' = IF bp = 1 THEN "halt" ELSE "decide"
  /\ UNCHANGED <<diskVars, dirty, built>>

\* A missing kernel, or a partition that was being overwritten: GRUB stops.
GrubFails ==
  /\ GoTo("off", "halt")
  /\ ~ (efi.whole /\ rootC.whole /\ KernelShipped(efi.cfg, rootC.fw))
  /\ UNCHANGED <<diskVars, boot, dirty, built>>

\* Mount ROOT-C and compare its record with this boot.
Decide ==
  /\ pc = "decide"
  /\ boot' = [boot EXCEPT !.rebuild = NeedsRebuild(boot.param)]
  /\ pc' = IF boot.breakpoint = 2 THEN "halt" ELSE "probe"
  /\ UNCHANGED <<diskVars, dirty, built>>

\* Mutant: a rebuild at every boot.
ProbeAlways ==
  LET valid == rootB.state # "unreadable" IN
  /\ pc = "probe"
  /\ boot' = [boot EXCEPT !.valid = valid]
  /\ pc' = IF valid THEN "copy" ELSE "umountC"
  /\ UNCHANGED <<diskVars, dirty, built>>

\* ROOT-B is only mounted and listed: a torn image may pass.
ProbeRootB ==
  LET valid == boot.rebuild /\ rootB.state # "unreadable" IN
  /\ pc = "probe"
  /\ boot' = [boot EXCEPT !.valid = valid]
  /\ pc' = IF valid THEN "copy" ELSE "umountC"
  /\ UNCHANGED <<diskVars, dirty, built>>

\* pv ROOT-B > ROOT-A starts: the old ROOT-A is gone, and the new one is as
\* whole or as torn as ROOT-B.
StartCopy ==
  /\ GoTo("copy", "copying")
  /\ rootA' = [phase |-> "partial", img |-> rootB.img, state |-> rootB.state,
               fw |-> rootC.fw, param |-> boot.param]
  /\ UNCHANGED <<rootB, rootC, recorded, md5sum, prio, efi, stateful,
                 boot, dirty, built>>

\* Mutant: the update is acknowledged once ROOT-B is copied.
FinishCopyAndAck ==
  /\ GoTo("copying", "patch")
  /\ prio' = [a |-> 15, b |-> 0]
  /\ UNCHANGED <<rootA, rootB, rootC, recorded, md5sum, efi, stateful,
                 boot, dirty, built>>

\* ROOT-A as it should be, or not.
Outcomes == {rootA.state} \cup {"failed" : x \in Unnoticed \cap {"rebuild"}}

\* The copy ends, the rw flag is set, the file system is grown and the
\* modules of the running kernel replace those of ChromeOS.  No exit status
\* is looked at: a failure changes the contents, not the course.
FinishCopy ==
  /\ GoTo("copying", "patch")
  /\ \E s \in Outcomes : rootA' = [rootA EXCEPT !.state = s]
  /\ UNCHANGED <<rootB, rootC, recorded, md5sum, prio, efi, stateful,
                 boot, dirty, built>>

\* The STATE partition of a new installation becomes ext4, unless mkfs fails.
FormatState ==
  stateful' \in IF stateful.fs = "ext4" THEN {stateful}
               ELSE {[fs |-> "ext4", data |-> FALSE]}
                      \cup {[stateful EXCEPT !.fs = "unformatted"] :
                              x \in Unnoticed \cap {"mkfs"}}

\* Every patch is run with the options, a failure is only logged; those of a
\* ROOT-C that is not whole are not what they were meant to be.
ApplyPatches ==
  /\ GoTo("patch", "umountA")
  /\ \E s \in IF rootC.whole THEN Outcomes ELSE {"failed"} :
       rootA' = [rootA EXCEPT !.state = s]
  /\ FormatState
  /\ UNCHANGED <<rootB, rootC, recorded, md5sum, prio, efi, boot, dirty, built>>

\* Mutant: umount -l, which returns before ROOT-A is on disk.
LazyUnmountRootA ==
  /\ GoTo("umountA", "ackA")
  /\ built' = built \cup {boot.param}
  /\ UNCHANGED <<diskVars, boot, dirty>>

\* umount /roota flushes the new root file system.
UnmountRootA ==
  /\ GoTo("umountA", "ackA")
  /\ rootA' = [rootA EXCEPT !.phase = "complete"]
  /\ built' = built \cup {boot.param}
  /\ UNCHANGED <<rootB, rootC, recorded, md5sum, prio, efi, stateful, boot, dirty>>

\* cgpt add -i 2 -P 15
RaiseKernA ==
  /\ GoTo("ackA", "ackB")
  /\ prio' = [prio EXCEPT !.a = 15]
  /\ UNCHANGED <<rootA, rootB, rootC, recorded, md5sum, efi, stateful,
                 boot, dirty, built>>

\* Mutant: KERN-B keeps its priority.
KeepKernB ==
  /\ GoTo("ackB", "debug")
  /\ UNCHANGED <<diskVars, boot, dirty, built>>

\* cgpt add -i 4 -P 0
LowerKernB ==
  /\ GoTo("ackB", "debug")
  /\ prio' = [prio EXCEPT !.b = 0]
  /\ UNCHANGED <<rootA, rootB, rootC, recorded, md5sum, efi, stateful,
                 boot, dirty, built>>

\* echo ... > /rootc/<file>, in the page cache only.
WriteRecord(file, to) ==
  /\ GoTo(file, to)
  /\ dirty' = dirty \cup {file}
  /\ UNCHANGED <<diskVars, boot, built>>

\* The digest of the listing, taken when all three files are written.
WriteMd5sum ==
  /\ GoTo("sum", "umountC")
  /\ dirty' = dirty \cup {Md5File}
  /\ UNCHANGED <<diskVars, boot, built>>

\* umount /rootc puts the record on disk.
UnmountRootC ==
  /\ GoTo("umountC", "switch")
  /\ Flush(dirty)
  /\ UNCHANGED <<rootA, rootB, rootC, prio, efi, stateful, boot, built>>

\* The script ends in a debug shell, or with an unusable root (kernel panic),
\* or ChromeOS starts.  A partial ROOT-A may still mount and start.
SwitchRoot ==
  /\ pc = "switch"
  /\ \/ /\ \/ boot.breakpoint \in {3, 4}
           \/ rootA.phase = "partial"
        /\ pc' = "halt"
        /\ UNCHANGED stateful
     \/ /\ boot.breakpoint \notin {3, 4}
        /\ pc' = "running"
        /\ stateful' = [stateful EXCEPT !.data = TRUE]
  /\ UNCHANGED <<rootA, rootB, rootC, recorded, md5sum, prio, efi, boot, dirty, built>>

\* One step of brunch-init.
BootStep ==
  \/ Decide \/ ProbeRootB
  \/ StartCopy \/ FinishCopy \/ ApplyPatches \/ UnmountRootA
  \/ RaiseKernA \/ LowerKernB
  \/ WriteRecord("debug", "kernel_version")
  \/ WriteRecord("kernel_version", "options")
  \/ WriteRecord("options", "sum")
  \/ WriteMd5sum \/ UnmountRootC \/ SwitchRoot

-----------------------------------------------------------------------------

\* brunch-setup, from a session (edit-brunch-config) or from GRUB's settings
\* entry, which runs it before any of the steps above and then reboots.
EditSettings ==
  /\ pc \in {"off", "running"}
  /\ efi.whole
  /\ \E s \in Settings : efi' = [efi EXCEPT !.cfg = s]
  /\ UNCHANGED <<rootA, rootB, rootC, recorded, md5sum, prio, stateful, initVars>>

\* The machine goes off with the files s of ROOT-C on disk.
Down(s) ==
  /\ pc' = "off"
  /\ Flush(s)
  /\ boot' = NoBoot
  /\ UNCHANGED <<rootA, rootB, rootC, prio, efi, stateful, built>>

\* Power lost while brunch-init runs: the cached writes reach the disk in any
\* combination.
PowerLoss == pc \in BootSteps /\ \E s \in SUBSET dirty : Down(s)

\* The user restarts a running system, a debug shell or a dead boot.
Restart == pc \in {"running", "halt"} /\ Down(dirty)

InitNext == GrubLoads \/ GrubFails \/ BootStep \/ EditSettings \/ PowerLoss \/ Restart

=============================================================================
