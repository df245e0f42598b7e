----------------------------- MODULE BrunchClone ----------------------------
(***************************************************************************)
(* chromeos-install of a running brunch (99-installer.sh): the machine     *)
(* copies its own disk, one partition after the other, while updaters may  *)
(* be writing to it, and the clone is then booted on its own.              *)
(***************************************************************************)
EXTENDS Brunch

VARIABLES
  cpc,    \* the partition that is being copied
  copy,   \* what the clone has so far, None when there is no clone
  touched,\* the partition that is being copied was written meanwhile
  lost    \* history: the machine is a clone ROOT-A did not arrive on, and what
          \* came with ROOT-C is still its record

cloneVars == <<cpc, copy, touched, lost>>
allVars == <<vars, cloneVars>>

Copies == [arrived : BOOLEAN,
           rootB : [img : Images, state : {"whole", "torn", "unreadable"}],
           rootC : [fw : Frameworks, whole : BOOLEAN],
           recorded : [RecordFiles -> ParamValues \cup {None}],
           md5sum : {"absent", "match", "stale"},
           built : SUBSET Params,
           efi : [cfg : Settings, whole : BOOLEAN]]

CloneTypeOK ==
  /\ cpc \in {"none", "p5", "p7", "p12", "cloned"}
  /\ copy \in Copies \cup {None}
  /\ touched \in BOOLEAN
  /\ lost \in BOOLEAN

CloneInit ==
  Init /\ cpc = "none" /\ copy = None /\ touched = FALSE /\ lost = FALSE

\* Everything of the disk that the clone gets by pv.  ROOT-A does not change in
\* a session: it arrived, or it did not.
Now == [arrived |-> copy # None => copy.arrived, rootB |-> rootB, rootC |-> rootC,
        recorded |-> recorded, md5sum |-> md5sum, efi |-> efi, built |-> built]

\* The clone is only made in a session.
CloneGoTo(from, to) ==
  pc = "running" /\ cpc = from /\ cpc' = to /\ UNCHANGED <<vars, lost>>

-----------------------------------------------------------------------------

\* The table is written, mkfs makes a new STATE, and pv copies p2 to p4, then
\* starts with ROOT-B.  No status of pv is looked at: ROOT-A may have arrived
\* or not, and the destination held nothing of use before.
StartClone ==
  /\ CloneGoTo("none", "p5")
  /\ \E arrived \in BOOLEAN : copy' = [Now EXCEPT !.arrived = arrived]
  /\ touched' = FALSE

\* ROOT-B is copied, but for an error of pv; a copy made while it was written
\* is neither image.
CopyRootB ==
  /\ CloneGoTo("p5", "p7")
  /\ \/ ~ touched /\ copy' = Now
     \/ \E s \in {"torn", "unreadable"}, i \in {copy.rootB.img, rootB.img} :
          copy' = [Now EXCEPT !.rootB = [img |-> i, state |-> s]]
  /\ touched' = FALSE

\* What a part of ROOT-C brings: its record with the listing it was taken over,
\* the record with another listing, or no record.
Part(c) ==
  LET cut == [c EXCEPT !.rootC.whole = FALSE] IN
  {cut, [cut EXCEPT !.md5sum = Stale(@)],
   [cut EXCEPT !.recorded = NoRecord, !.md5sum = "absent"]}

\* ROOT-C is copied, or a part of what it was before or is now.
CopyRootC ==
  /\ CloneGoTo("p7", "p12")
  /\ LET before == [copy EXCEPT !.efi = efi]
         now    == [Now EXCEPT !.rootB = copy.rootB]
     IN  copy' \in Part(before) \cup Part(now) \cup (IF touched THEN {} ELSE {now})
  /\ touched' = FALSE

\* Mutant: ROOT-A is not copied, the clone can build its own.
StartWithoutRootA(c) ==
  /\ rootA' = [rootA EXCEPT !.phase = "partial", !.state = "failed"]
  /\ built' = {}
  /\ rootB' = c.rootB /\ rootC' = c.rootC
  /\ recorded' = c.recorded /\ md5sum' = c.md5sum
  /\ lost' = ~ c.arrived

\* The disk of the clone, and how it came about.
StartFrom(c) ==
  /\ rootA' = IF c.arrived THEN rootA
              ELSE [rootA EXCEPT !.phase = "partial", !.state = "failed"]
  /\ built' = IF c.arrived THEN c.built ELSE {}
  /\ rootB' = c.rootB /\ rootC' = c.rootC
  /\ recorded' = c.recorded /\ md5sum' = c.md5sum
  /\ lost' = ~ c.arrived

\* The last partition is copied, or not: "ChromeOS installed."  From here on
\* the machine is one that boots from the clone; its KERN-A has the priority.
BootClone ==
  /\ pc = "running" /\ pc' = "off"
  /\ cpc = "p12" /\ cpc' = "cloned"
  /\ StartFrom(copy)
  /\ \E whole \in {FALSE, efi.whole /\ ~ touched} :
       efi' = [copy.efi EXCEPT !.whole = whole]
  /\ prio' = [a |-> 15, b |-> 0]
  /\ stateful' = [fs |-> "ext4", data |-> FALSE]
  /\ boot' = NoBoot
  /\ dirty' = {}
  /\ upc' = [w \in Writers |-> "idle"]
  /\ job' = [w \in Writers |-> NoJob]
  /\ clean' = [w \in Writers |-> FALSE]
  /\ said' = None
  /\ copy' = None /\ touched' = FALSE

CloneStep == StartClone \/ CopyRootB \/ CopyRootC \/ BootClone

\* The partition under way changes.
WrittenMeanwhile ==
  \/ cpc = "p5" /\ rootB' # rootB
  \/ cpc = "p7" /\ rootC' # rootC
  \/ cpc = "p12" /\ efi' # efi

\* The record is another one than came with the clone, or a rebuild wrote it.
Recorded ==
  (recorded' # recorded \/ md5sum' # md5sum)
    \/ (UnmountRootC /\ boot.valid)

\* A step of the machine; a clone that is not finished ends with the session.
MachineStep ==
  /\ Next
  /\ IF pc' = "running" \/ cpc = "cloned"
     THEN touched' = (touched \/ WrittenMeanwhile) /\ UNCHANGED <<cpc, copy>>
     ELSE cpc' = "none" /\ copy' = None /\ touched' = FALSE
  /\ lost' = (lost /\ ~ Recorded)

CloneNext == CloneStep \/ MachineStep

CloneSpec == CloneInit /\ [][CloneNext]_allVars

-----------------------------------------------------------------------------
(***************************************************************************)
(* Statements of the sources that the code does not keep.                  *)
(***************************************************************************)

\* 99-updater.sh:110-111: brunch-init rebuilds ROOT-A from ROOT-B on the next
\* boot when an update is pending; so does a clone that is made before it.
PendingIsCloned ==
  [][BootClone /\ said # None => Pending' \/ rootA'.img = rootB'.img]_allVars

\* 99-installer.sh:257, "ChromeOS installed.": a clone whose ROOT-A was cut
\* short is at least rebuilt by its first boot.
ClonesRetry == cpc = "cloned" => RetryGuarantee

-----------------------------------------------------------------------------

\* A session never runs on a ROOT-A that only the priorities, which the clone
\* does not get, would have rebuilt.
SessionRecordInv ==
  rootA.phase = "partial" /\ ~ RecordMissing /\ ~ RecordDiffers(rootA.param) =>
    rootB.state # "unreadable" /\ pc \notin {"umountC", "switch", "running"}

\* A record that would be believed on the clone is that of a build of ROOT-A.
GoodCopy(c) ==
  /\ c \in Copies
  /\ c.md5sum = "match" /\ (\A f \in RecordFiles : c.recorded[f] # None) =>
       /\ rootA.fw = c.rootC.fw
       /\ c.recorded \in c.built
       /\ rootA.phase = "partial" => c.recorded # rootA.param

CopyInv ==
  /\ lost => cpc = "cloned"
  /\ cpc \in {"p5", "p7", "p12"} => pc = "running" /\ GoodCopy(copy)

RecordPromises == RetryGuarantee /\ RecordedWasBuilt /\ SessionRecordInv

\* The promises about the record hold on the machine and on the clone of it; but
\* when ROOT-A did not arrive on the clone, not before the record is another.
CloneInv ==
  /\ CloneTypeOK /\ CoreInv
  /\ lost \/ RecordPromises
  /\ CopyInv

=============================================================================
