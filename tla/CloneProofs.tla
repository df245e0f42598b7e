---------------------------- MODULE CloneProofs -----------------------------
(***************************************************************************)
(* A clone made by chromeos-install of a running brunch is a machine for   *)
(* which the invariants of Brunch hold, whatever was written to the disk   *)
(* while it was copied and whatever did not arrive; but when ROOT-A did    *)
(* not, its record is not to be believed before there is another.          *)
(***************************************************************************)
EXTENDS BrunchClone, BrunchProofs

LEMMA InitClone == CloneInit => CloneInv
<1> SUFFICES ASSUME CloneInit PROVE CloneInv
  OBVIOUS
<1>1. IInv
  BY InitIInv DEF CloneInit
<1>2. CloneTypeOK
  BY DEF CloneInit, CloneTypeOK
<1>3. SessionRecordInv
  BY DEF CloneInit, Init, DiskInit, SessionRecordInv, RecordMissing
<1>4. CopyInv
  BY DEF CloneInit, CopyInv
<1> QED
  BY <1>1, <1>2, <1>3, <1>4 DEF CloneInv, RecordPromises, IInv

(***************************************************************************)
(* What the machine does on its own.                                       *)
(***************************************************************************)

\* From a partial ROOT-A that only the priorities would have rebuilt, a boot
\* gets no further than to the copy.
LEMMA MachineRecord ==
  ASSUME CoreInv, RetryGuarantee, SessionRecordInv, Next
  PROVE  SessionRecordInv'
<1> SUFFICES ASSUME rootA'.phase = "partial", ~ RecordMissing',
                    ~ RecordDiffers(rootA.param)'
             PROVE  /\ rootB'.state # "unreadable"
                    /\ pc' \notin {"umountC", "switch", "running"}
  BY DEF SessionRecordInv
<1>1. UNCHANGED <<recorded, md5sum>>
  <2>1. md5sum' = "match"
    BY DEF RecordDiffers
  <2>2. ~ (Rebuilt /\ UNCHANGED rootA)
    BY DEF CoreInv, RootAInv
  <2> QED BY <2>1, <2>2, RecordSteps
<1>2. CASE StartCopy
  BY <1>2 DEF StartCopy, GoTo, CoreInv, DecisionInv
<1>3. CASE ~ StartCopy
  <2>1. rootA.phase = "partial" /\ rootA'.param = rootA.param
    BY <1>3, RootASteps
  <2>2. ~ RecordMissing /\ ~ RecordDiffers(rootA.param)
    BY <1>1, <2>1 DEF RecordMissing, RecordDiffers
  <2>3. rootB.state # "unreadable" /\ pc \notin {"umountC", "switch", "running"}
    BY <2>1, <2>2 DEF SessionRecordInv
  <2>4. pc \notin Recording
    BY <2>1 DEF CoreInv, RootAInv, Rebuilt
  <2>5. CASE ProbeRootB
    <3>1. Pending
      BY <2>1, <2>2 DEF RetryGuarantee, NeedsRebuild
    <3>2. boot.rebuild
      BY <2>5, <3>1 DEF ProbeRootB, CoreInv, DecisionInv, NeedsRebuild
    <3> QED
      BY <2>3, <2>5, <3>2 DEF ProbeRootB, diskVars
  <2>6. CASE \/ GrubLoads \/ GrubFails \/ Decide \/ FinishCopy \/ ApplyPatches
             \/ UnmountRootA \/ EditSettings \/ PowerLoss \/ Restart
    BY <2>3, <2>6 DEF GrubLoads, GrubFails, Decide, FinishCopy, ApplyPatches,
       UnmountRootA, EditSettings, PowerLoss, Restart, Down, GoTo, diskVars, initVars
  <2>7. CASE \/ RaiseKernA \/ LowerKernB
             \/ WriteRecord("debug", "kernel_version")
             \/ WriteRecord("kernel_version", "options")
             \/ WriteRecord("options", "sum")
             \/ WriteMd5sum \/ UnmountRootC \/ SwitchRoot
    BY <2>3, <2>4, <2>7 DEF RaiseKernA, LowerKernB, WriteRecord, WriteMd5sum,
       UnmountRootC, SwitchRoot, GoTo, Recording
  <2>8. ~ ((\E w \in Updaters : Session(w)) \/ Engine)
    BY <2>3 DEF Session, Engine, InSession
  <2> QED
    BY <1>3, <2>5, <2>6, <2>7, <2>8 DEF Next, Boot, Reboot, BootStep
<1> QED
  BY <1>2, <1>3

\* A record that is kept, made or no longer believed is one to be relied on.
LEMMA MachinePromises ==
  ASSUME CoreInv, Next, RecordPromises
  PROVE  RecordPromises'
BY RetryKept, RecordedKept, MachineRecord DEF RecordPromises

\* When the record is another one, it is good, even if it was not before.
LEMMA NewRecord ==
  ASSUME CoreInv, Next, Recorded
  PROVE  RecordPromises'
<1>1. CASE md5sum' # "match"
  BY <1>1 DEF RecordPromises, RetryGuarantee, RecordedWasBuilt, SessionRecordInv,
     NeedsRebuild, RecordDiffers
<1>2. CASE /\ Rebuilt /\ recorded' = boot.param /\ md5sum' = "match"
           /\ UNCHANGED <<rootA, built>>
  <2>1. rootA'.phase = "complete" /\ recorded' \in built'
    BY <1>2 DEF CoreInv, RootAInv
  <2> QED
    BY <2>1 DEF RecordPromises, RetryGuarantee, RecordedWasBuilt, SessionRecordInv
<1>3. CASE UnmountRootC /\ boot.valid
  <2>1. pc = "umountC" /\ dirty \in SUBSET dirty /\ Flush(dirty) /\ UNCHANGED <<rootA, built>>
    BY <1>3 DEF UnmountRootC, GoTo
  <2>2. dirty = RecordFiles \cup {Md5File} /\ dirty # {}
    BY <1>3, <2>1 DEF CoreInv, CacheInv
  <2>3. recorded' = boot.param /\ md5sum' = "match"
    BY <2>1, <2>2, FlushCases DEF CoreInv, TypeOK
  <2>4. Rebuilt
    BY <1>3, <2>1 DEF Rebuilt
  <2> QED
    BY <1>2, <2>1, <2>3, <2>4
<1> QED
  BY <1>1, <1>2, <1>3, RecordSteps DEF Recorded

(***************************************************************************)
(* What the machine does while it is copied.                               *)
(***************************************************************************)

\* A session leaves ROOT-A alone.
LEMMA SessionKeepsRootA ==
  ASSUME Next, pc = "running", pc' = "running"
  PROVE  rootA' = rootA
<1>1. CASE GrubLoads \/ GrubFails \/ BootStep \/ PowerLoss
  BY <1>1 DEF GrubLoads, GrubFails, BootStep, PowerLoss, BootSteps, Decide, ProbeRootB,
     StartCopy, FinishCopy, ApplyPatches, UnmountRootA, RaiseKernA, LowerKernB,
     WriteRecord, WriteMd5sum, UnmountRootC, SwitchRoot, GoTo
<1>2. CASE EditSettings
  BY <1>2 DEF EditSettings
<1>3. CASE Reboot
  BY <1>3 DEF Reboot, Restart, Down
<1>4. CASE \E w \in Updaters : Session(w)
  BY <1>4 DEF Session, Begin, UpdaterStep, StartFramework, FrameworkWritten, EfiWritten,
     LowerKernA, FrameworkDone, StartRootB, RootBWritten, RootBFailed, RecoveryDone,
     Abort, diskVars
<1>5. CASE Engine
  BY <1>5 DEF Engine, EngineStep, EngineStart, EngineVerify, EngineDone
<1> QED
  BY <1>1, <1>2, <1>3, <1>4, <1>5 DEF Next, Boot

LEMMA MachineClone ==
  ASSUME CloneInv, MachineStep
  PROVE  CloneInv'
<1>1. CoreInv'
  BY NextCore DEF CloneInv, MachineStep
<1>2. lost' \/ RecordPromises'
  <2>1. lost' = (lost /\ ~ Recorded)
    BY DEF MachineStep
  <2>2. CASE lost
    BY <2>1, <2>2, NewRecord DEF CloneInv, MachineStep
  <2>3. CASE ~ lost
    BY <2>3, MachinePromises DEF CloneInv, MachineStep
  <2> QED
    BY <2>2, <2>3
<1>3. CloneTypeOK'
  <2>1. cpc' \in {"none", "p5", "p7", "p12", "cloned"} /\ copy' \in Copies \cup {None}
    BY DEF CloneInv, CloneTypeOK, MachineStep
  <2>2. touched' \in BOOLEAN /\ lost' \in BOOLEAN
    BY DEF CloneInv, CloneTypeOK, MachineStep
  <2> QED
    BY <2>1, <2>2 DEF CloneTypeOK
<1>4. CopyInv'
  <2>1. lost' => lost
    BY DEF MachineStep
  <2>2. CASE ~ (pc' = "running" \/ cpc = "cloned")
    BY <2>1, <2>2 DEF MachineStep, CloneInv, CopyInv
  <2>3. CASE pc' = "running" \/ cpc = "cloned"
    <3>1. copy' = copy /\ cpc' = cpc
      BY <2>3 DEF MachineStep
    <3>2. CASE cpc \in {"p5", "p7", "p12"}
      <4>1. pc = "running" /\ pc' = "running"
        BY <2>3, <3>2 DEF CloneInv, CopyInv
      <4>2. rootA' = rootA
        BY <4>1, SessionKeepsRootA DEF MachineStep
      <4> QED
        BY <2>1, <3>1, <3>2, <4>1, <4>2 DEF CloneInv, CopyInv, GoodCopy
    <3>3. CASE cpc \notin {"p5", "p7", "p12"}
      BY <2>1, <3>1, <3>3 DEF CloneInv, CopyInv
    <3> QED
      BY <3>2, <3>3
  <2> QED
    BY <2>2, <2>3
<1> QED
  BY <1>1, <1>2, <1>3, <1>4 DEF CloneInv

(***************************************************************************)
(* The steps of the clone.                                                 *)
(***************************************************************************)

\* What is on the disk now may be copied.
LEMMA NowIsGood ==
  ASSUME CloneInv, pc = "running", cpc \in {"none", "p5", "p7", "p12"},
         NEW arrived \in BOOLEAN
  PROVE  GoodCopy([Now EXCEPT !.arrived = arrived])
<1> DEFINE c == [Now EXCEPT !.arrived = arrived]
<1>1. /\ c.arrived = arrived /\ c.rootB = rootB /\ c.rootC = rootC /\ c.efi = efi
      /\ c.recorded = recorded /\ c.md5sum = md5sum /\ c.built = built
  BY DEF Now
<1>2. c \in Copies
  BY DEF Now, Copies, CloneInv, CoreInv, TypeOK, DiskTypeOK, InitTypeOK
<1>3. RecordPromises /\ CoreInv
  BY DEF CloneInv, CopyInv
<1>4. ASSUME md5sum = "match", \A f \in RecordFiles : recorded[f] # None
      PROVE  /\ rootA.fw = rootC.fw
             /\ recorded \in built
             /\ rootA.phase = "partial" => recorded # rootA.param
  BY <1>3, <1>4 DEF RecordPromises, CoreInv, RootAInv, RecordedWasBuilt,
     SessionRecordInv, RecordMissing, RecordDiffers
<1> QED
  BY <1>1, <1>2, <1>4 DEF GoodCopy

\* A part of a good copy is no worse: what it has of the record either counts
\* for as much, or does not count.
LEMMA PartIsGood ==
  ASSUME NEW c, GoodCopy(c), NEW d \in Part(c)
  PROVE  GoodCopy(d)
<1> DEFINE cut == [c EXCEPT !.rootC.whole = FALSE]
<1>1. cut \in Copies /\ cut.rootC.fw = c.rootC.fw /\ cut.recorded = c.recorded
      /\ cut.md5sum = c.md5sum /\ cut.built = c.built
  BY DEF GoodCopy, Copies
<1>2. CASE d = cut
  BY <1>1, <1>2 DEF GoodCopy
<1>3. CASE d = [cut EXCEPT !.md5sum = Stale(@)]
  <2>1. d \in Copies /\ d.md5sum # "match"
    BY <1>1, <1>3 DEF Copies, Stale
  <2> QED BY <2>1 DEF GoodCopy
<1>4. CASE d = [cut EXCEPT !.recorded = NoRecord, !.md5sum = "absent"]
  <2>1. NoRecord \in [RecordFiles -> ParamValues \cup {None}]
    BY DEF NoRecord
  <2>2. d \in Copies /\ d.md5sum # "match"
    BY <1>1, <1>4, <2>1 DEF Copies
  <2> QED BY <2>2 DEF GoodCopy
<1> QED
  BY <1>2, <1>3, <1>4 DEF Part

\* The machine goes on as it is.
LEMMA SameMachine ==
  ASSUME CloneInv, UNCHANGED <<vars, lost>>
  PROVE  CoreInv' /\ (lost' \/ RecordPromises')
<1>1. CoreInv'
  BY NextCore DEF CloneInv
<1>2. RetryGuarantee /\ RecordedWasBuilt => RetryGuarantee' /\ RecordedWasBuilt'
  BY RetryKept, RecordedKept DEF CloneInv
<1>3. SessionRecordInv => SessionRecordInv'
  BY DEF SessionRecordInv, RecordMissing, RecordDiffers, vars, diskVars, initVars
<1> QED
  BY <1>1, <1>2, <1>3 DEF CloneInv, RecordPromises

LEMMA CopyingInv ==
  ASSUME CloneInv, StartClone \/ CopyRootB \/ CopyRootC
  PROVE  CloneInv'
<1>1. pc = "running" /\ UNCHANGED <<vars, lost>> /\ touched' = FALSE
      /\ cpc \in {"none", "p5", "p7"} /\ cpc' \in {"p5", "p7", "p12"}
  BY DEF StartClone, CopyRootB, CopyRootC, CloneGoTo
<1>2. UNCHANGED <<rootA, pc>>
  BY <1>1 DEF vars, diskVars, initVars
<1>3. GoodCopy(copy')
  <2>1. CASE StartClone
    <3>1. PICK arrived \in BOOLEAN : copy' = [Now EXCEPT !.arrived = arrived]
      BY <2>1 DEF StartClone
    <3> QED BY <1>1, <3>1, NowIsGood
  <2>2. ASSUME cpc \in {"p5", "p7"}
        PROVE  GoodCopy(copy) /\ GoodCopy(Now) /\ copy.rootB \in [img : Images,
                                   state : {"whole", "torn", "unreadable"}]
    <3>1. GoodCopy(copy)
      BY <2>2 DEF CloneInv, CopyInv
    <3>2. copy.rootB \in [img : Images, state : {"whole", "torn", "unreadable"}]
      BY <3>1 DEF GoodCopy, Copies
    <3>3. Now.arrived \in BOOLEAN /\ Now = [Now EXCEPT !.arrived = Now.arrived]
      BY DEF Now
    <3>4. GoodCopy([Now EXCEPT !.arrived = Now.arrived])
      BY <1>1, <3>3, NowIsGood
    <3> QED BY <3>1, <3>2, <3>3, <3>4
  <2>3. CASE CopyRootB
    <3>1. GoodCopy(copy) /\ GoodCopy(Now)
      BY <2>2, <2>3 DEF CopyRootB, CloneGoTo
    <3>2. CASE copy' = Now
      BY <3>1, <3>2
    <3>3. CASE \E s \in {"torn", "unreadable"}, i \in {copy.rootB.img, rootB.img} :
                 copy' = [Now EXCEPT !.rootB = [img |-> i, state |-> s]]
      <4>1. PICK s \in {"torn", "unreadable"}, i \in {copy.rootB.img, rootB.img} :
                 copy' = [Now EXCEPT !.rootB = [img |-> i, state |-> s]]
        BY <3>3
      <4>2. i \in Images
        BY <3>1 DEF GoodCopy, Copies, CloneInv, CoreInv, TypeOK, DiskTypeOK
      <4>3. Now \in Copies
        BY <3>1 DEF GoodCopy
      <4>4. copy' \in Copies /\ copy'.rootC = Now.rootC /\ copy'.recorded = Now.recorded
            /\ copy'.md5sum = Now.md5sum /\ copy'.built = Now.built
        BY <4>1, <4>2, <4>3 DEF Copies
      <4> QED BY <3>1, <4>4 DEF GoodCopy
    <3> QED BY <2>3, <3>2, <3>3 DEF CopyRootB
  <2>4. CASE CopyRootC
    <3> DEFINE before == [copy EXCEPT !.efi = efi]
               now == [Now EXCEPT !.rootB = copy.rootB]
    <3>1. /\ GoodCopy(copy) /\ GoodCopy(Now)
          /\ copy.rootB \in [img : Images, state : {"whole", "torn", "unreadable"}]
      BY <2>2, <2>4 DEF CopyRootC, CloneGoTo
    <3>2. efi \in [cfg : Settings, whole : BOOLEAN]
      BY DEF CloneInv, CoreInv, TypeOK, DiskTypeOK
    <3>3. GoodCopy(before)
      <4>1. copy \in Copies
        BY <3>1 DEF GoodCopy
      <4>2. before \in Copies /\ before.rootC = copy.rootC
            /\ before.recorded = copy.recorded /\ before.md5sum = copy.md5sum
            /\ before.built = copy.built
        BY <3>2, <4>1 DEF Copies
      <4> QED BY <3>1, <4>2 DEF GoodCopy
    <3>4. GoodCopy(now)
      <4>1. Now \in Copies
        BY <3>1 DEF GoodCopy
      <4>2. now \in Copies /\ now.rootC = Now.rootC
            /\ now.recorded = Now.recorded /\ now.md5sum = Now.md5sum
            /\ now.built = Now.built
        BY <3>1, <4>1 DEF Copies
      <4> QED BY <3>1, <4>2 DEF GoodCopy
    <3>5. copy' \in Part(before) \cup Part(now) \cup {now}
      BY <2>4 DEF CopyRootC
    <3> HIDE DEF before, now
    <3> QED BY <3>3, <3>4, <3>5, PartIsGood
  <2> QED
    BY <2>1, <2>3, <2>4
<1>4. CopyInv'
  BY <1>1, <1>2, <1>3 DEF CloneInv, CopyInv, GoodCopy
<1>5. CloneTypeOK'
  BY <1>1, <1>3 DEF CloneInv, CloneTypeOK, GoodCopy
<1>6. CoreInv' /\ (lost' \/ RecordPromises')
  BY <1>1, SameMachine
<1> QED
  BY <1>4, <1>5, <1>6 DEF CloneInv

\* The clone is a machine that is off: its record is missing, or it is that of
\* a build of the ROOT-A that was copied.
LEMMA BootCloneInv ==
  ASSUME CloneInv, BootClone
  PROVE  CloneInv'
<1>1. /\ pc = "running" /\ cpc = "p12" /\ copy \in Copies
      /\ copy.md5sum = "match" /\ (\A f \in RecordFiles : copy.recorded[f] # None) =>
           /\ rootA.fw = copy.rootC.fw
           /\ copy.recorded \in copy.built
           /\ rootA.phase = "partial" => copy.recorded # rootA.param
  BY DEF CloneInv, CopyInv, GoodCopy, BootClone
<1>2. /\ rootB' = copy.rootB /\ rootC' = copy.rootC
      /\ recorded' = copy.recorded /\ md5sum' = copy.md5sum
      /\ lost' = ~ copy.arrived
      /\ built' = IF copy.arrived THEN copy.built ELSE {}
      /\ rootA' = IF copy.arrived THEN rootA
                  ELSE [rootA EXCEPT !.phase = "partial", !.state = "failed"]
  BY DEF BootClone, StartFrom
<1>3. /\ pc' = "off" /\ cpc' = "cloned" /\ copy' = None /\ touched' = FALSE
      /\ prio' = [a |-> 15, b |-> 0] /\ stateful' = [fs |-> "ext4", data |-> FALSE]
      /\ boot' = NoBoot /\ dirty' = {}
      /\ upc' = [w \in Writers |-> "idle"] /\ job' = [w \in Writers |-> NoJob]
      /\ clean' = [w \in Writers |-> FALSE] /\ said' = None
  BY DEF BootClone
<1>4. DiskTypeOK'
  <2>1. efi' \in [cfg : Settings, whole : BOOLEAN]
    <3>1. PICK whole \in {FALSE, efi.whole /\ ~ touched} :
            efi' = [copy.efi EXCEPT !.whole = whole]
      BY DEF BootClone
    <3>2. copy.efi \in [cfg : Settings, whole : BOOLEAN]
      BY <1>1 DEF Copies
    <3>3. whole \in BOOLEAN
      OBVIOUS
    <3> QED
      BY <3>1, <3>2, <3>3
  <2>2. prio' \in [a : Priorities, b : Priorities]
    BY <1>3 DEF Priorities
  <2>3. rootA' \in [phase : {"partial", "complete"}, img : Images,
                    state : {"whole", "torn", "failed"}, fw : Frameworks, param : Params]
    <3>1. rootA \in [phase : {"partial", "complete"}, img : Images,
                     state : {"whole", "torn", "failed"}, fw : Frameworks, param : Params]
      BY DEF CloneInv, CoreInv, TypeOK, DiskTypeOK
    <3>2. [rootA EXCEPT !.phase = "partial", !.state = "failed"]
            \in [phase : {"partial", "complete"}, img : Images,
                 state : {"whole", "torn", "failed"}, fw : Frameworks, param : Params]
      BY <3>1
    <3> QED BY <1>2, <3>1, <3>2
  <2> QED
    BY <1>1, <1>2, <1>3, <2>1, <2>2, <2>3 DEF DiskTypeOK, Copies
<1>5. InitTypeOK'
  <2>1. rootA.param \in Params
    BY DEF CloneInv, CoreInv, TypeOK, DiskTypeOK
  <2>2. NoBoot \in [param : Params, rebuild : BOOLEAN, valid : BOOLEAN, breakpoint : 0 .. 4]
    BY <2>1 DEF NoBoot
  <2>3. built' \in SUBSET Params
    BY <1>1, <1>2 DEF Copies
  <2> QED
    BY <1>3, <2>2, <2>3 DEF InitTypeOK
<1>6. UpdTypeOK'
  BY <1>3 DEF UpdTypeOK, NoJob, Jobs
<1>7. rootA'.fw = rootA.fw
  BY <1>2 DEF CloneInv, CoreInv, TypeOK, DiskTypeOK
<1>8. CacheInv' /\ DecisionInv' /\ PriorityInv' /\ SessionInv' /\ HandOverInv'
  BY <1>3 DEF CacheInv, DecisionInv, PriorityInv, SessionInv, HandOverInv, HandingOver,
     Rebuilt, Recording, Building
<1>9. RootAInv'
  BY <1>1, <1>2, <1>3, <1>7 DEF RootAInv, Rebuilt, Recording, Building, RecordMissing
<1>10. FreshInv' /\ UpdateNeverForgotten'
  BY <1>3 DEF FreshInv, UpdateNeverForgotten
<1>11. CASE copy.arrived
  <2>1. rootA' = rootA /\ built' = copy.built
    BY <1>2, <1>11
  <2>2. RecordPromises'
    BY <1>1, <1>2, <1>3, <2>1 DEF RecordPromises, RetryGuarantee, RecordedWasBuilt,
       SessionRecordInv, NeedsRebuild, RecordMissing, RecordDiffers
  <2>3. CloneTypeOK' /\ CopyInv'
    BY <1>2, <1>3, <1>11 DEF CloneTypeOK, CopyInv
  <2> QED
    BY <1>4, <1>5, <1>6, <1>8, <1>9, <1>10, <2>2, <2>3 DEF CloneInv, CoreInv, TypeOK
<1>12. CASE ~ copy.arrived
  <2>1. lost' /\ CloneTypeOK' /\ CopyInv'
    BY <1>2, <1>3, <1>12 DEF CloneTypeOK, CopyInv
  <2> QED
    BY <1>4, <1>5, <1>6, <1>8, <1>9, <1>10, <2>1 DEF CloneInv, CoreInv, TypeOK
<1> QED
  BY <1>11, <1>12

LEMMA NextClone == CloneInv /\ [CloneNext]_allVars => CloneInv'
<1> SUFFICES ASSUME CloneInv, [CloneNext]_allVars PROVE CloneInv'
  OBVIOUS
<1>1. CASE CloneNext
  BY <1>1, MachineClone, CopyingInv, BootCloneInv DEF CloneNext, CloneStep
<1>2. CASE UNCHANGED allVars
  <2>1. UNCHANGED vars /\ UNCHANGED <<cpc, copy, touched, lost>>
    BY <1>2 DEF allVars, cloneVars
  <2>2. CloneTypeOK' /\ CopyInv'
    <3>1. UNCHANGED <<rootA, pc>>
      BY <2>1 DEF vars, diskVars, initVars
    <3> QED
      BY <2>1, <3>1 DEF CloneInv, CloneTypeOK, CopyInv, GoodCopy
  <2>3. CoreInv' /\ (lost' \/ RecordPromises')
    BY <2>1, SameMachine
  <2> QED
    BY <2>2, <2>3 DEF CloneInv
<1> QED
  BY <1>1, <1>2

\* The core of the invariant holds on every clone, and the promises about the
\* record on one that ROOT-A has arrived on or that has been recorded anew.
THEOREM CloneInvariance == CloneSpec => []CloneInv
BY InitClone, NextClone, PTL DEF CloneSpec

\* A clone believes no ROOT-A it does not have; for one that ROOT-A did not
\* arrive on, that is so only from the next change of its record on.
THEOREM CloneRetries == CloneSpec => [](lost \/ RetryGuarantee)
<1>1. CloneInv => lost \/ RetryGuarantee
  BY DEF CloneInv, RecordPromises
<1> QED
  BY CloneInvariance, <1>1, PTL

\* The record of a clone names a build of the ROOT-A that arrived.
THEOREM CloneRecordIsTrue == CloneSpec => [](lost \/ RecordedWasBuilt)
<1>1. CloneInv => lost \/ RecordedWasBuilt
  BY DEF CloneInv, RecordPromises
<1> QED
  BY CloneInvariance, <1>1, PTL

\* The clone boots without a build of its own for the same two reasons only,
\* and for a third: ROOT-A did not arrive and the record did.
THEOREM CloneBootIsExplained == CloneSpec => [](lost \/ BootExplained)
<1>1. CloneInv => lost \/ BootExplained
  BY ExplainedByInv DEF CloneInv, RecordPromises
<1> QED
  BY CloneInvariance, <1>1, PTL

=============================================================================
