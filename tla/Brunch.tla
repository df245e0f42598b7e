------------------------------- MODULE Brunch -------------------------------
(***************************************************************************)
(* A brunch machine: brunch-init boots it, power may be lost at any time,  *)
(* users change settings and run chromeos-update, and ChromeOS may update  *)
(* itself.                                                                 *)
(***************************************************************************)
EXTENDS BrunchInit, ChromeosUpdate

vars == <<diskVars, initVars, updVars>>

Init == DiskInit /\ InitInit /\ UpdInit

\* Booting, and everything the user does while ChromeOS is not running.
Boot ==
  /\ GrubLoads \/ GrubFails \/ BootStep \/ EditSettings \/ PowerLoss
  /\ UNCHANGED updVars

\* Any process running in the session dies with it.
Reboot == Restart /\ UpdKilled

\* The history of builds starts anew when another framework is found on ROOT-C.
InSession ==
  /\ pc = "running"
  /\ built' = IF rootC'.fw = rootC.fw THEN built ELSE {}
  /\ UNCHANGED <<pc, boot, dirty>>

Session(w) == (Begin(w) \/ UpdaterStep(w)) /\ InSession

Engine == EngineStep /\ InSession

Next == Boot \/ Reboot \/ (\E w \in Updaters : Session(w)) \/ Engine

Spec == Init /\ [][Next]_vars

\* brunch-init is a script that runs to its end; a user turns a machine on
\* that is off and eventually restarts it.  Nothing is assumed of updaters.
Fairness ==
  /\ WF_vars(BootStep /\ UNCHANGED updVars)
  /\ WF_vars(GrubLoads /\ UNCHANGED updVars)
  /\ WF_vars(Reboot)

FairSpec == Spec /\ Fairness

-----------------------------------------------------------------------------

\* Types of all state.
TypeOK == DiskTypeOK /\ InitTypeOK /\ UpdTypeOK

\* A rebuild cut short by a power loss is decided again at the next boot with
\* the same parameters: neither the record nor the priorities may say that
\* ROOT-A is fine while it is being overwritten (brunch-init, 129-204).
RetryGuarantee == rootA.phase = "partial" => NeedsRebuild(rootA.param)

\* Whatever combination of cached writes a power loss leaves on ROOT-C, a
\* record that would be believed names parameters ROOT-A has really been
\* built with under this framework (brunch-init, 133-141 and 199-203).
RecordedWasBuilt ==
  ~ RecordMissing /\ md5sum = "match" => recorded \in built

\* An update announced by a process that had ROOT-B for itself stays on ROOT-B,
\* all of it, until another is begun; and until ROOT-A has been rebuilt from
\* that image it is pending, across reboots, power losses and further updates
\* of the framework.  Nothing torn is taken for it; only a failure of the
\* rebuild itself, which nobody looks at, may spoil what is on ROOT-A
\* (99-updater.sh, 104-117, with brunch-init, 129-198).
UpdateNeverForgotten ==
  said # None /\ said.alone =>
    /\ rootB = [img |-> said.img, state |-> "whole"]
    /\ Pending \/ (rootA.img = said.img /\ rootA.state # "torn")

\* The rebuild of this boot's parameters ran to its end.
OwnBuild ==
  rootA.phase = "complete" /\ rootA.fw = rootC.fw /\ rootA.param = boot.param

\* A boot goes on with anything but a complete build for its own parameters
\* and framework only if ROOT-B cannot be listed, or if a rebuild for other
\* parameters was given up while the record of this boot's still stood.
BootExplained ==
  pc = "switch" /\ ~ OwnBuild
    => \/ rootB.state = "unreadable"
       \/ recorded = boot.param /\ rootA.param # boot.param

\* A rebuild that ran to its end is not repeated by the next boot: its own
\* record must not change the listing the record is compared with.
NoRebuildLoop == pc = "switch" /\ boot.valid => ~ NeedsRebuild(boot.param)

-----------------------------------------------------------------------------
(***************************************************************************)
(* Why these hold: the inductive invariant.                                *)
(***************************************************************************)

Building  == {"copying", "patch", "umountA"}
Recording == {"ackA", "ackB", "debug", "kernel_version", "options", "sum"}

\* brunch-init has finished a rebuild in this boot.
Rebuilt ==
  \/ pc \in Recording
  \/ boot.valid /\ pc \in {"umountC", "switch"}

\* ROOT-C has unwritten data only while the record is written, and by the
\* time it is unmounted all of the record.
CacheInv ==
  /\ dirty # {} => pc \in {"kernel_version", "options", "sum", "umountC"}
  /\ pc = "kernel_version" => dirty = {"debug"}
  /\ pc = "options" => dirty = {"debug", "kernel_version"}
  /\ pc = "sum" => dirty = RecordFiles
  /\ pc = "umountC" => dirty = IF boot.valid THEN RecordFiles \cup {Md5File} ELSE {}

\* What the boot found out is still true while it acts on it.
DecisionInv ==
  /\ pc = "probe" => (boot.rebuild <=> NeedsRebuild(boot.param))
  /\ pc = "decide" => ~ boot.valid
  /\ pc \in {"copy"} \cup Building \cup Recording =>
       boot.valid /\ rootB.state # "unreadable"
  /\ pc = "copy" => NeedsRebuild(boot.param)
  /\ pc \in {"umountC", "switch"} /\ ~ boot.valid =>
       rootB.state = "unreadable" \/ ~ NeedsRebuild(boot.param)

\* ROOT-A belongs to this boot from the start of the copy on, and a record that
\* is believed to the framework it was built with.
RootAInv ==
  /\ pc \in Building \/ Rebuilt =>
       /\ rootA.img = rootB.img
       /\ rootA.state \in {"failed", rootB.state}
       /\ rootA.fw = rootC.fw
       /\ rootA.param = boot.param
  /\ Rebuilt => rootA.phase = "complete" /\ boot.param \in built
  /\ pc = "umountA" \/ Rebuilt => rootC.whole \/ rootA.state = "failed"
  /\ ~ RecordMissing /\ md5sum = "match" => rootA.fw = rootC.fw

\* The update is acknowledged before the record is written.
PriorityInv ==
  /\ pc = "ackB" => prio.a = 15
  /\ Rebuilt /\ pc \notin {"ackA", "ackB"} => prio = [a |-> 15, b |-> 0]
  /\ pc = "switch" /\ boot.valid => recorded = boot.param /\ md5sum = "match"

\* Processes live in a session and have what they were asked to install.
SessionInv ==
  /\ pc # "running" => \A w \in Writers : upc[w] = "idle"
  /\ \A w \in Writers : upc[w] \in {"extract", "writeC"} => job[w].fw # None
  /\ \A w \in Writers :
       upc[w] \in {"sizes", "writeB"} \cup HandingOver => job[w].img # None

\* Before the first of the two priorities is set, ROOT-B has all of the image
\* that is about to be announced, if no other process has written it.
HandOverInv ==
  \A w \in Writers :
    /\ clean[w] /\ upc[w] \in {"writeB"} \cup HandingOver => rootB.img = job[w].img
    /\ clean[w] /\ upc[w] \in HandingOver => rootB.state = "whole"

\* As long as STATE was not to be formatted, no boot has got to ChromeOS.
FreshInv ==
  stateful.fs = "ext2" =>
    /\ ~ stateful.data /\ RecordMissing /\ rootB.state = "whole"
    /\ pc = "probe" => boot.rebuild
    /\ pc \in {"off", "halt", "decide", "probe", "copy", "copying", "patch"}

\* All of it but the two promises about the record.
CoreInv ==
  /\ TypeOK
  /\ CacheInv /\ DecisionInv /\ RootAInv /\ PriorityInv /\ SessionInv
  /\ HandOverInv /\ FreshInv /\ UpdateNeverForgotten

IInv == CoreInv /\ RetryGuarantee /\ RecordedWasBuilt

-----------------------------------------------------------------------------

\* A pending update is acknowledged only when ROOT-A has been rebuilt to the
\* end from what is on ROOT-B and ROOT-C, and is on disk.  It is as whole as
\* ROOT-B is, and ROOT-C too, unless a command of the rebuild failed, at which
\* the script does not look: what it does see is that ROOT-B can be listed
\* (brunch-init, 156-198).  That a torn ROOT-B passes is RebuiltFromWholeRootB.
AckOnlyAfterBuild ==
  [][Pending /\ ~ Pending' =>
       /\ rootA.phase = "complete"
       /\ rootA.img = rootB.img /\ rootA.fw = rootC.fw
       /\ rootB.state # "unreadable"
       /\ \/ rootA.state = "failed"
          \/ rootA.state = rootB.state /\ rootC.whole]_vars

\* Formatting STATE is for new installations: what a session has stored there
\* is never wiped by a later rebuild, whatever file system the installer left,
\* unless the mkfs.ext4 of the first one failed (brunch-init, 133, 193-195).
UserDataSurvives ==
  [][stateful.data /\ stateful.fs # "unformatted" => stateful'.data]_vars

-----------------------------------------------------------------------------

\* The record vouches for the parameters it names.
Vouched == IF RecordMissing \/ md5sum # "match" THEN {} ELSE {recorded}

Protocol == INSTANCE RebuildProtocol WITH
  phase <- rootA.phase, target <- rootA.param,
  committed <- Vouched, pending <- Pending

\* The scripts implement the redo transaction: two cgpt calls, four files in
\* the page cache and a crash at any point amount to atomic steps of it.
ImplementsProtocol == Protocol!ProtocolSpec

-----------------------------------------------------------------------------

Bootable ==
  efi.whole /\ rootC.whole /\ KernelShipped(efi.cfg, rootC.fw)

\* Power is eventually no longer lost in the middle of a boot.
StablePower == <>[][~ PowerLoss]_vars

\* A pending update is eventually built and acknowledged, as long as the
\* machine can boot and ROOT-B can be listed.
PendingIsBuilt ==
  StablePower =>
    ((Pending /\ rootB.state # "unreadable" /\ Bootable)
       ~> (~ Pending \/ rootB.state = "unreadable" \/ ~ Bootable))

-----------------------------------------------------------------------------
(***************************************************************************)
(* Statements of the sources that the code does not keep.                  *)
(***************************************************************************)

\* brunch-init:145, "rebuilding ChromeOS rootfs not necessary": ROOT-A is
\* complete and built with the parameters of this boot.
NotNecessaryMeansBuilt ==
  pc = "probe" /\ ~ boot.rebuild
    => rootA.phase = "complete" /\ rootA.param = boot.param

\* 99-updater.sh:105-106, after a failed copy "the next boot is unaffected":
\* a boot that rebuilds ROOT-A still finds an image on ROOT-B.
UnaffectedByFailedCopy ==
  [][\A w \in Updaters : RootBFailed(w) => rootB'.state = "whole"]_vars

\* 99-updater.sh:110-117, ROOT-B is handed over only when "known-good", and
\* "ChromeOS updated.": what is then built and acknowledged is no torn image.
UpdatedIsKnownGood ==
  said # None /\ ~ Pending => rootA.state # "torn"

\* brunch-init:165, "the framework will not be rebuilt until the update is
\* fully applied".
RebuiltFromWholeRootB == pc = "copying" => rootB.state = "whole"

=============================================================================
