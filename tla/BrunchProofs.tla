---------------------------- MODULE BrunchProofs ----------------------------
(***************************************************************************)
(* Proofs about Brunch, for every set of images, releases, kernels,        *)
(* options and chromeos-update processes.  CoreInv is inductive, and each  *)
(* of the two promises about the record is inductive relative to it; the   *)
(* safety properties and the refinement of RebuildProtocol follow.         *)
(***************************************************************************)
EXTENDS Brunch, TLAPS

(***************************************************************************)
(* Facts about the operators of the model.                                 *)
(***************************************************************************)

\* The parameters of a boot into a kernel that exists are well typed.
LEMMA ParamOfType ==
  ASSUME NEW s \in Settings, NEW fw \in Frameworks, KernelShipped(s, fw)
  PROVE  ParamOf(s, fw) \in Params
BY DiskAssumption
   DEF Settings, KernelShipped, ParamOf, Params, ParamValues, RecordFiles

\* A recorded value is never "no value", so a complete record is not missing.
LEMMA ParamIsARecord ==
  ASSUME NEW p \in Params
  PROVE  \A f \in RecordFiles : p[f] # None
BY DiskAssumption DEF Params

\* What reaches ROOT-C is the old record, the new one, or one that md5sum
\* disowns: .md5sum matches only together with the three files.
LEMMA FlushCases ==
  ASSUME DiskTypeOK, InitTypeOK, NEW s \in SUBSET dirty, Flush(s)
  PROVE  /\ dirty' = {}
         /\ recorded' \in [RecordFiles -> ParamValues \cup {None}]
         /\ md5sum' \in {"absent", "match", "stale"}
         /\ \/ s = {} /\ recorded' = recorded /\ md5sum' = md5sum
            \/ /\ s = RecordFiles \cup {Md5File}
               /\ recorded' = boot.param
               /\ md5sum' = "match"
            \/ /\ s # {} /\ s # RecordFiles \cup {Md5File}
               /\ md5sum' # "match"
<1>1. dirty' = {} /\ md5sum' \in {"absent", "match", "stale"}
  BY DEF Flush, DiskTypeOK
<1>2. boot.param \in [RecordFiles -> ParamValues]
  BY DEF InitTypeOK, Params
<1>3. recorded' \in [RecordFiles -> ParamValues \cup {None}]
  BY <1>2 DEF Flush, DiskTypeOK
<1>4. CASE s = {}
  <2>1. recorded' = recorded /\ md5sum' = md5sum
    BY <1>4 DEF Flush, DiskTypeOK
  <2> QED BY <1>1, <1>3, <1>4, <2>1
<1>5. CASE RecordFiles \subseteq s /\ Md5File \in s
  <2>1. s = RecordFiles \cup {Md5File}
    BY <1>5 DEF InitTypeOK
  <2>2. recorded' = boot.param
    BY <1>2, <1>5 DEF Flush
  <2>3. md5sum' = "match"
    BY <1>5 DEF Flush
  <2> QED BY <1>1, <1>3, <2>1, <2>2, <2>3
<1>6. CASE s # {} /\ ~ (RecordFiles \subseteq s /\ Md5File \in s)
  <2>1. md5sum' # "match"
    BY <1>6 DEF Flush
  <2> QED BY <1>1, <1>3, <1>6, <2>1
<1> QED BY <1>4, <1>5, <1>6

\* There are cached writes only after the rebuild they record.
LEMMA DirtyMeansRebuilt ==
  ASSUME CoreInv, dirty # {}
  PROVE  Rebuilt
BY DEF CoreInv, CacheInv, Rebuilt, Recording

(***************************************************************************)
(* A new installation.                                                     *)
(***************************************************************************)

LEMMA InitIInv == Init => IInv
<1> SUFFICES ASSUME Init PROVE IInv
  OBVIOUS
<1>1. PICK fw \in Frameworks, img \in Images, fs \in {"ext2", "ext4"} :
    /\ KernelShipped(DefaultSettings, fw)
    /\ rootA = [phase |-> "partial", img |-> img, state |-> "whole", fw |-> fw,
                param |-> ParamOf(DefaultSettings, fw)]
    /\ rootB = [img |-> img, state |-> "whole"]
    /\ rootC = [fw |-> fw, whole |-> TRUE]
    /\ recorded = NoRecord
    /\ md5sum = "absent"
    /\ prio = [a |-> 15, b |-> 0]
    /\ efi = [cfg |-> DefaultSettings, whole |-> TRUE]
    /\ stateful = [fs |-> fs, data |-> FALSE]
  BY DEF Init, DiskInit
<1>2. ParamOf(DefaultSettings, fw) \in Params
  BY <1>1, ParamOfType, DiskAssumption
<1>3. TypeOK
  <2>1. DiskTypeOK
    BY <1>1, <1>2, DiskAssumption DEF DiskTypeOK, NoRecord, Priorities
  <2>2. InitTypeOK
    BY <1>1, <1>2 DEF Init, InitInit, InitTypeOK, NoBoot, BootSteps
  <2>3. UpdTypeOK
    BY DEF Init, UpdInit, UpdTypeOK, NoJob, Jobs
  <2> QED BY <2>1, <2>2, <2>3 DEF TypeOK
<1>4. CacheInv /\ DecisionInv /\ RootAInv /\ PriorityInv
  BY <1>1 DEF Init, InitInit, CacheInv, DecisionInv, RootAInv, PriorityInv,
              Rebuilt, Recording, Building, RecordMissing, NoBoot
<1>5. SessionInv /\ HandOverInv /\ FreshInv
  BY <1>1 DEF Init, InitInit, UpdInit, SessionInv, HandOverInv, FreshInv, HandingOver,
              RecordMissing
<1>6. RetryGuarantee /\ RecordedWasBuilt /\ UpdateNeverForgotten
  BY <1>1 DEF Init, UpdInit, RetryGuarantee, RecordedWasBuilt,
              UpdateNeverForgotten, RecordMissing, NeedsRebuild
<1> QED BY <1>3, <1>4, <1>5, <1>6 DEF IInv, CoreInv

(***************************************************************************)
(* What a step need not be looked at for.                                  *)
(***************************************************************************)

\* A step that leaves the disk and the last announcement alone.
LEMMA QuietOnDisk ==
  ASSUME CoreInv, UNCHANGED <<diskVars, said>>
  PROVE  DiskTypeOK' /\ UpdateNeverForgotten'
BY DEF CoreInv, TypeOK, DiskTypeOK, diskVars, UpdateNeverForgotten, Pending

\* A step of the script that does not touch ROOT-B keeps the processes of the
\* session, of which there are none, in order.
LEMMA QuietInSession ==
  ASSUME CoreInv, pc # "running" \/ pc' = "running", UNCHANGED <<updVars, rootB>>
  PROVE  UpdTypeOK' /\ SessionInv' /\ HandOverInv'
BY DEF CoreInv, TypeOK, UpdTypeOK, updVars, SessionInv, HandOverInv, HandingOver

\* A step of a session leaves brunch-init out of play.
LEMMA QuietInScript ==
  ASSUME CoreInv, InSession, stateful' = stateful
  PROVE  InitTypeOK' /\ CacheInv' /\ DecisionInv' /\ PriorityInv' /\ FreshInv'
<1>1. InitTypeOK'
  BY DEF CoreInv, TypeOK, InitTypeOK, InSession
<1>2. CacheInv' /\ DecisionInv' /\ PriorityInv'
  BY DEF CoreInv, InSession, CacheInv, DecisionInv, PriorityInv, Rebuilt, Recording,
         Building
<1>3. FreshInv'
  BY DEF CoreInv, InSession, FreshInv
<1> QED BY <1>1, <1>2, <1>3

(***************************************************************************)
(* The steps of brunch-init.                                               *)
(***************************************************************************)

\* GRUB hands over to brunch-init, or stops.
LEMMA GrubInv ==
  ASSUME CoreInv, GrubLoads \/ GrubFails, UNCHANGED updVars
  PROVE  CoreInv'
<1>1. UNCHANGED <<diskVars, built, dirty, updVars>> /\ pc = "off"
  BY DEF GrubLoads, GrubFails, GoTo
<1>2. DiskTypeOK' /\ UpdateNeverForgotten'
  BY <1>1, QuietOnDisk DEF updVars
<1>3. UpdTypeOK' /\ SessionInv' /\ HandOverInv'
  BY <1>1, QuietInSession DEF diskVars
<1>4. boot'.param \in Params /\ pc' \in {"halt", "decide"} /\ InitTypeOK'
  <2>1. CASE GrubLoads
    <3>1. ParamOf(efi.cfg, rootC.fw) \in Params
      BY <2>1, ParamOfType DEF GrubLoads, CoreInv, TypeOK, DiskTypeOK
    <3> QED
      BY <2>1, <3>1, InitAssumption DEF GrubLoads, CoreInv, TypeOK, InitTypeOK, BootSteps
  <2>2. CASE GrubFails
    BY <2>2 DEF GrubFails, GoTo, CoreInv, TypeOK, InitTypeOK
  <2> QED BY <2>1, <2>2
<1>5. CacheInv' /\ DecisionInv' /\ RootAInv' /\ PriorityInv'
  <2>1. pc' = "decide" => ~ boot'.valid
    BY DEF GrubLoads, GrubFails, GoTo
  <2> QED
    BY <1>1, <1>4, <2>1 DEF CoreInv, CacheInv, DecisionInv, RootAInv, PriorityInv,
       Rebuilt, Recording, Building, RecordMissing, diskVars
<1>6. FreshInv'
  BY <1>1, <1>4 DEF CoreInv, FreshInv, RecordMissing, diskVars
<1> QED BY <1>2, <1>3, <1>4, <1>5, <1>6 DEF CoreInv, TypeOK

\* The decision is taken and ROOT-B is probed: both stay true, as nothing else
\* writes the disk during a boot.
LEMMA DecideInv ==
  ASSUME CoreInv, Decide \/ ProbeRootB, UNCHANGED updVars
  PROVE  CoreInv'
<1>1. /\ UNCHANGED <<diskVars, built, dirty, updVars>>
      /\ pc \in {"decide", "probe"}
  BY DEF Decide, ProbeRootB
<1>2. DiskTypeOK' /\ UpdateNeverForgotten'
  BY <1>1, QuietOnDisk DEF updVars
<1>3. UpdTypeOK' /\ SessionInv' /\ HandOverInv'
  BY <1>1, QuietInSession DEF diskVars
<1>4. /\ boot'.param = boot.param
      /\ NeedsRebuild(boot.param)' <=> NeedsRebuild(boot.param)
  <2>1. boot'.param = boot.param
    BY DEF Decide, ProbeRootB, CoreInv, TypeOK, InitTypeOK
  <2> QED
    BY <1>1, <2>1 DEF NeedsRebuild, Pending, RecordMissing, RecordDiffers, diskVars
<1>5. CASE Decide
  <2>1. /\ boot'.rebuild = NeedsRebuild(boot.param)
        /\ boot'.param = boot.param /\ boot'.valid = boot.valid
        /\ pc' \in {"halt", "probe"}
    BY <1>5 DEF Decide, CoreInv, TypeOK, InitTypeOK
  <2>2. NeedsRebuild(boot.param) \in BOOLEAN
    BY DEF NeedsRebuild, Pending, RecordMissing, RecordDiffers
  <2>3. InitTypeOK'
    BY <1>1, <1>5, <2>1, <2>2 DEF Decide, CoreInv, TypeOK, InitTypeOK, BootSteps
  <2>4. DecisionInv'
    BY <1>4, <1>5, <2>1 DEF Decide, CoreInv, DecisionInv, Building, Recording
  <2>5. CacheInv' /\ RootAInv' /\ PriorityInv'
    BY <1>1, <2>1 DEF CoreInv, CacheInv, RootAInv, PriorityInv, Rebuilt,
       Recording, Building, RecordMissing, diskVars
  <2>6. FreshInv'
    <3>1. RecordMissing' <=> RecordMissing
      BY <1>1 DEF RecordMissing, diskVars
    <3>2. RecordMissing => boot'.rebuild
      BY <2>1 DEF NeedsRebuild
    <3> QED
      BY <1>1, <2>1, <3>1, <3>2 DEF CoreInv, FreshInv, diskVars
  <2> QED BY <1>2, <1>3, <2>3, <2>4, <2>5, <2>6 DEF CoreInv, TypeOK
<1>6. CASE ProbeRootB
  <2> DEFINE v == boot.rebuild /\ rootB.state # "unreadable"
  <2>1. /\ boot'.valid = v /\ boot'.param = boot.param
        /\ pc = "probe" /\ pc' = IF v THEN "copy" ELSE "umountC"
    BY <1>6 DEF ProbeRootB, CoreInv, TypeOK, InitTypeOK
  <2>2. InitTypeOK'
    BY <1>1, <1>6 DEF ProbeRootB, CoreInv, TypeOK, InitTypeOK, BootSteps
  <2>3. DecisionInv'
    <3>1. boot.rebuild <=> NeedsRebuild(boot.param)
      BY <2>1 DEF CoreInv, DecisionInv
    <3> QED
      BY <1>1, <1>4, <2>1, <3>1 DEF DecisionInv, Building, Recording, diskVars
  <2>4. CacheInv' /\ RootAInv' /\ PriorityInv'
    BY <1>1, <2>1 DEF CoreInv, CacheInv, RootAInv, PriorityInv, Rebuilt,
       Recording, Building, RecordMissing, diskVars
  <2>5. FreshInv'
    BY <1>1, <2>1 DEF CoreInv, FreshInv, RecordMissing, diskVars
  <2> QED BY <1>2, <1>3, <2>2, <2>3, <2>4, <2>5 DEF CoreInv, TypeOK
<1> QED BY <1>5, <1>6

\* The rebuild.  ROOT-A gets the state of ROOT-B or fails, STATE is formatted
\* before it is over.
LEMMA RebuildInv ==
  ASSUME CoreInv, StartCopy \/ FinishCopy \/ ApplyPatches \/ UnmountRootA,
         UNCHANGED updVars
  PROVE  CoreInv'
<1>1. /\ UNCHANGED <<rootB, rootC, recorded, md5sum, prio, efi, boot, dirty, updVars>>
      /\ pc \in {"copy"} \cup Building
      /\ pc' \in Building \cup {"ackA"}
      /\ pc' = "ackA" <=> pc = "umountA"
      /\ built' = built \/ built' = built \cup {boot.param}
  BY DEF StartCopy, FinishCopy, ApplyPatches, UnmountRootA, GoTo, Building
<1>2. rootA' \in [phase : {"partial", "complete"}, img : Images,
                  state : {"whole", "torn", "failed"}, fw : Frameworks, param : Params]
  <2>1. CASE StartCopy
    <3>1. rootB.state \in {"whole", "torn"}
      BY <2>1 DEF StartCopy, GoTo, CoreInv, DecisionInv, TypeOK, DiskTypeOK
    <3> QED
      BY <2>1, <3>1 DEF StartCopy, CoreInv, TypeOK, DiskTypeOK, InitTypeOK
  <2>2. CASE FinishCopy \/ ApplyPatches
    <3>1. PICK s \in Outcomes \cup {"failed"} : rootA' = [rootA EXCEPT !.state = s]
      BY <2>2 DEF FinishCopy, ApplyPatches, Outcomes
    <3>2. s \in {"whole", "torn", "failed"}
      BY DEF Outcomes, CoreInv, TypeOK, DiskTypeOK
    <3> QED BY <3>1, <3>2 DEF CoreInv, TypeOK, DiskTypeOK
  <2>3. CASE UnmountRootA
    BY <2>3 DEF UnmountRootA, CoreInv, TypeOK, DiskTypeOK
  <2> QED BY <2>1, <2>2, <2>3
<1>3. /\ stateful' \in [fs : {"ext2", "ext4", "unformatted"}, data : BOOLEAN]
      /\ stateful'.fs = "ext2" => stateful' = stateful /\ pc' \in {"copying", "patch"}
  <2>1. CASE StartCopy \/ FinishCopy
    BY <2>1 DEF StartCopy, FinishCopy, GoTo, CoreInv, TypeOK, DiskTypeOK
  <2>2. CASE ApplyPatches
    <3>1. \/ stateful.fs = "ext4" /\ stateful' = stateful
          \/ stateful' = [fs |-> "ext4", data |-> FALSE]
          \/ stateful' = [stateful EXCEPT !.fs = "unformatted"]
      BY <2>2 DEF ApplyPatches, FormatState
    <3>2. stateful \in [fs : {"ext2", "ext4", "unformatted"}, data : BOOLEAN]
      BY DEF CoreInv, TypeOK, DiskTypeOK
    <3>3. CASE stateful.fs = "ext4" /\ stateful' = stateful
      BY <3>2, <3>3
    <3>4. CASE stateful' = [fs |-> "ext4", data |-> FALSE]
      BY <3>4
    <3>5. CASE stateful' = [stateful EXCEPT !.fs = "unformatted"]
      BY <3>2, <3>5
    <3> QED BY <3>1, <3>3, <3>4, <3>5
  <2>3. CASE UnmountRootA
    BY <2>3 DEF UnmountRootA, GoTo, CoreInv, FreshInv, TypeOK, DiskTypeOK
  <2> QED BY <2>1, <2>2, <2>3
<1>4. TypeOK'
  <2>1. DiskTypeOK'
    BY <1>1, <1>2, <1>3 DEF CoreInv, TypeOK, DiskTypeOK
  <2>2. InitTypeOK'
    BY <1>1 DEF CoreInv, TypeOK, InitTypeOK, BootSteps, Building
  <2> QED BY <1>1, <2>1, <2>2 DEF CoreInv, TypeOK, UpdTypeOK, updVars
<1>5. CacheInv' /\ DecisionInv' /\ PriorityInv'
  BY <1>1 DEF CoreInv, CacheInv, DecisionInv, PriorityInv, Rebuilt, Recording, Building
<1>6. SessionInv' /\ HandOverInv'
  BY <1>1, QuietInSession DEF Building
<1>7. RootAInv'
  <2>1. CASE StartCopy
    BY <1>1, <2>1 DEF StartCopy, GoTo, CoreInv, TypeOK, DiskTypeOK,
       RootAInv, Rebuilt, Recording, Building, RecordMissing
  <2>2. CASE FinishCopy \/ ApplyPatches
    <3>1. PICK s \in {rootA.state, "failed"} :
            /\ rootA' = [rootA EXCEPT !.state = s]
            /\ pc' = "umountA" => rootC.whole \/ s = "failed"
      BY <2>2 DEF FinishCopy, ApplyPatches, Outcomes, GoTo
    <3>2. /\ rootA'.state = s /\ rootA'.img = rootA.img /\ rootA'.fw = rootA.fw
          /\ rootA'.param = rootA.param
      BY <3>1 DEF CoreInv, TypeOK, DiskTypeOK
    <3>3. pc \in Building /\ pc' \in {"patch", "umountA"}
      BY <2>2 DEF FinishCopy, ApplyPatches, GoTo, Building
    <3> QED
      BY <1>1, <3>1, <3>2, <3>3 DEF CoreInv, RootAInv, Rebuilt, Recording, Building,
         RecordMissing
  <2>3. CASE UnmountRootA
    <3>1. /\ rootA'.state = rootA.state /\ rootA'.img = rootA.img /\ rootA'.fw = rootA.fw
          /\ rootA'.param = rootA.param /\ rootA'.phase = "complete"
          /\ pc = "umountA" /\ boot.param \in built'
      BY <2>3 DEF UnmountRootA, GoTo, CoreInv, TypeOK, DiskTypeOK
    <3> QED
      BY <1>1, <3>1 DEF CoreInv, RootAInv, Rebuilt, Recording, Building, RecordMissing
  <2> QED BY <2>1, <2>2, <2>3
<1>8. UpdateNeverForgotten'
  <2>1. CASE StartCopy
    BY <1>1, <2>1 DEF StartCopy, updVars, CoreInv, UpdateNeverForgotten, Pending
  <2>2. CASE ~ StartCopy
    <3>1. pc \in Building /\ rootA'.img = rootA.img
      BY <2>2 DEF FinishCopy, ApplyPatches, UnmountRootA, GoTo, Building, CoreInv, TypeOK,
         DiskTypeOK
    <3>2. rootA'.state \in {rootA.state, "failed"}
      BY <2>2 DEF FinishCopy, ApplyPatches, UnmountRootA, Outcomes, CoreInv, TypeOK,
         DiskTypeOK
    <3> QED
      BY <1>1, <3>1, <3>2 DEF updVars, CoreInv, UpdateNeverForgotten, Pending
  <2> QED BY <2>1, <2>2
<1>9. FreshInv'
  BY <1>1, <1>3 DEF CoreInv, FreshInv, RecordMissing, Building
<1> QED BY <1>4, <1>5, <1>6, <1>7, <1>8, <1>9 DEF CoreInv

\* The two cgpt calls: ROOT-A holds what ROOT-B does, so nothing is forgotten
\* when Pending becomes false.
LEMMA AckInv ==
  ASSUME CoreInv, RaiseKernA \/ LowerKernB, UNCHANGED updVars
  PROVE  CoreInv'
<1>1. /\ UNCHANGED <<rootA, rootB, rootC, recorded, md5sum, efi, stateful,
                     boot, dirty, built, updVars>>
      /\ \/ pc = "ackA" /\ pc' = "ackB" /\ prio' = [prio EXCEPT !.a = 15]
         \/ pc = "ackB" /\ pc' = "debug" /\ prio' = [prio EXCEPT !.b = 0]
  BY DEF RaiseKernA, LowerKernB, GoTo
<1>2. TypeOK'
  <2>1. DiskTypeOK'
    BY <1>1 DEF CoreInv, TypeOK, DiskTypeOK, Priorities
  <2>2. InitTypeOK' /\ UpdTypeOK'
    BY <1>1 DEF CoreInv, TypeOK, InitTypeOK, UpdTypeOK, updVars, BootSteps
  <2> QED BY <2>1, <2>2 DEF TypeOK
<1>3. CacheInv' /\ DecisionInv' /\ RootAInv'
  BY <1>1 DEF CoreInv, CacheInv, DecisionInv, RootAInv, Rebuilt, Recording, Building,
     RecordMissing
<1>4. PriorityInv'
  BY <1>1 DEF CoreInv, TypeOK, DiskTypeOK, PriorityInv, Rebuilt, Recording
<1>5. SessionInv' /\ HandOverInv'
  BY <1>1, QuietInSession
<1>6. UpdateNeverForgotten'
  <2>1. rootA.img = rootB.img /\ rootA.state \in {"failed", rootB.state}
    BY <1>1 DEF CoreInv, RootAInv, Rebuilt, Recording
  <2> QED BY <1>1, <2>1 DEF CoreInv, UpdateNeverForgotten, updVars
<1>7. FreshInv'
  BY <1>1 DEF CoreInv, FreshInv
<1> QED BY <1>2, <1>3, <1>4, <1>5, <1>6, <1>7 DEF CoreInv

\* The four files are written to the page cache, one after the other.
LEMMA RecordInv ==
  ASSUME CoreInv, UNCHANGED updVars,
         \/ WriteRecord("debug", "kernel_version")
         \/ WriteRecord("kernel_version", "options")
         \/ WriteRecord("options", "sum")
         \/ WriteMd5sum
  PROVE  CoreInv'
<1>1. UNCHANGED <<diskVars, boot, built>>
  BY DEF WriteRecord, WriteMd5sum
<1>2. \/ pc = "debug" /\ pc' = "kernel_version" /\ dirty' = dirty \cup {"debug"}
      \/ /\ pc = "kernel_version" /\ pc' = "options"
         /\ dirty' = dirty \cup {"kernel_version"}
      \/ pc = "options" /\ pc' = "sum" /\ dirty' = dirty \cup {"options"}
      \/ pc = "sum" /\ pc' = "umountC" /\ dirty' = dirty \cup {Md5File}
  BY DEF WriteRecord, WriteMd5sum, GoTo
<1>3. DiskTypeOK' /\ UpdateNeverForgotten'
  BY <1>1, QuietOnDisk DEF updVars
<1>4. UpdTypeOK' /\ SessionInv' /\ HandOverInv'
  BY <1>1, <1>2, QuietInSession DEF diskVars
<1>5. InitTypeOK'
  BY <1>1, <1>2 DEF CoreInv, TypeOK, InitTypeOK, BootSteps, RecordFiles
<1>6. CacheInv'
  <2>1. pc \in Recording /\ boot.valid
    BY <1>2 DEF CoreInv, DecisionInv, Recording
  <2> QED
    BY <1>1, <1>2, <2>1 DEF CoreInv, CacheInv, RecordFiles
<1>7. DecisionInv' /\ RootAInv' /\ PriorityInv'
  BY <1>1, <1>2 DEF CoreInv, DecisionInv, RootAInv, PriorityInv, Rebuilt, Recording,
     Building, RecordMissing, diskVars
<1>8. FreshInv'
  BY <1>1, <1>2 DEF CoreInv, FreshInv, diskVars
<1> QED BY <1>3, <1>4, <1>5, <1>6, <1>7, <1>8 DEF CoreInv, TypeOK

\* ROOT-C is unmounted with nothing or with the whole record to be written.
LEMMA UnmountInv ==
  ASSUME CoreInv, UnmountRootC, UNCHANGED updVars
  PROVE  CoreInv'
<1>1. /\ UNCHANGED <<rootA, rootB, rootC, prio, efi, stateful, boot, built, updVars>>
      /\ pc = "umountC" /\ pc' = "switch"
      /\ Flush(dirty)
  BY DEF UnmountRootC, GoTo
<1>2. /\ dirty' = {}
      /\ recorded' \in [RecordFiles -> ParamValues \cup {None}]
      /\ md5sum' \in {"absent", "match", "stale"}
      /\ \/ ~ boot.valid /\ recorded' = recorded /\ md5sum' = md5sum
         \/ boot.valid /\ recorded' = boot.param /\ md5sum' = "match"
  <2>1. dirty = IF boot.valid THEN RecordFiles \cup {Md5File} ELSE {}
    BY <1>1 DEF CoreInv, CacheInv
  <2>2. DiskTypeOK /\ InitTypeOK
    BY DEF CoreInv, TypeOK
  <2>3. RecordFiles \cup {Md5File} # {}
    OBVIOUS
  <2> QED BY <1>1, <2>1, <2>2, <2>3, FlushCases
<1>3. TypeOK'
  BY <1>1, <1>2 DEF CoreInv, TypeOK, DiskTypeOK, InitTypeOK, UpdTypeOK, updVars, BootSteps
<1>4. SessionInv' /\ HandOverInv'
  BY <1>1, QuietInSession
<1>5. UpdateNeverForgotten'
  BY <1>1 DEF CoreInv, UpdateNeverForgotten, Pending, updVars
<1>6. FreshInv'
  BY <1>1 DEF CoreInv, FreshInv
<1>7. CASE ~ boot.valid
  <2>1. recorded' = recorded /\ md5sum' = md5sum
    BY <1>2, <1>7
  <2>2. CacheInv' /\ DecisionInv' /\ RootAInv' /\ PriorityInv'
    BY <1>1, <1>2, <1>7, <2>1 DEF CoreInv, CacheInv, DecisionInv, RootAInv, PriorityInv,
       Rebuilt, Recording, Building, NeedsRebuild, Pending, RecordMissing, RecordDiffers
  <2> QED BY <1>3, <1>4, <1>5, <1>6, <2>2 DEF CoreInv
<1>8. CASE boot.valid
  <2>1. recorded' = boot.param /\ md5sum' = "match" /\ Rebuilt /\ Rebuilt'
    BY <1>1, <1>2, <1>8 DEF Rebuilt
  <2>2. CacheInv' /\ DecisionInv' /\ RootAInv' /\ PriorityInv'
    BY <1>1, <1>2, <1>8, <2>1 DEF CoreInv, CacheInv, DecisionInv, RootAInv,
       PriorityInv, Rebuilt, Recording, Building
  <2> QED BY <1>3, <1>4, <1>5, <1>6, <2>2 DEF CoreInv
<1> QED BY <1>7, <1>8

\* ChromeOS starts, or does not.
LEMMA SwitchInv ==
  ASSUME CoreInv, SwitchRoot, UNCHANGED updVars
  PROVE  CoreInv'
<1>1. /\ UNCHANGED <<rootA, rootB, rootC, recorded, md5sum, prio, efi, boot, dirty, built,
                     updVars>>
      /\ pc = "switch" /\ pc' \in {"halt", "running"}
  BY DEF SwitchRoot
<1>a. /\ stateful' \in [fs : {"ext2", "ext4", "unformatted"}, data : BOOLEAN]
      /\ stateful'.fs = stateful.fs
  <2>1. stateful \in [fs : {"ext2", "ext4", "unformatted"}, data : BOOLEAN]
    BY DEF CoreInv, TypeOK, DiskTypeOK
  <2>2. CASE UNCHANGED stateful
    BY <2>1, <2>2
  <2>3. CASE stateful' = [stateful EXCEPT !.data = TRUE]
    BY <2>1, <2>3
  <2> QED BY <2>2, <2>3 DEF SwitchRoot
<1>2. TypeOK'
  BY <1>1, <1>a DEF CoreInv, TypeOK, DiskTypeOK, InitTypeOK, UpdTypeOK, updVars
<1>3. SessionInv' /\ HandOverInv'
  BY <1>1, QuietInSession
<1>4. CacheInv' /\ DecisionInv' /\ RootAInv' /\ PriorityInv'
  BY <1>1 DEF CoreInv, CacheInv, DecisionInv, RootAInv, PriorityInv, Rebuilt, Recording,
     Building, RecordMissing
<1>5. UpdateNeverForgotten'
  BY <1>1 DEF CoreInv, UpdateNeverForgotten, updVars, Pending
<1>6. FreshInv'
  BY <1>1, <1>a DEF CoreInv, FreshInv
<1> QED BY <1>2, <1>3, <1>4, <1>5, <1>6 DEF CoreInv

\* Settings only matter once a kernel has been booted with them.
LEMMA SettingsInv ==
  ASSUME CoreInv, EditSettings, UNCHANGED updVars
  PROVE  CoreInv'
<1>1. /\ UNCHANGED <<rootA, rootB, rootC, recorded, md5sum, prio, stateful, initVars>>
      /\ efi' \in [cfg : Settings, whole : BOOLEAN]
  BY DEF EditSettings, CoreInv, TypeOK, DiskTypeOK
<1>2. TypeOK'
  BY <1>1 DEF CoreInv, TypeOK, DiskTypeOK, InitTypeOK, UpdTypeOK, initVars, updVars
<1>3. SessionInv' /\ HandOverInv'
  BY <1>1, QuietInSession DEF initVars
<1>4. CacheInv' /\ DecisionInv' /\ RootAInv' /\ PriorityInv'
  BY <1>1 DEF CoreInv, CacheInv, DecisionInv, RootAInv, PriorityInv, Rebuilt, initVars,
     NeedsRebuild, Pending, RecordMissing, RecordDiffers
<1>5. UpdateNeverForgotten' /\ FreshInv'
  BY <1>1 DEF CoreInv, UpdateNeverForgotten, FreshInv, initVars, updVars, Pending,
     RecordMissing
<1> QED BY <1>2, <1>3, <1>4, <1>5 DEF CoreInv

\* The machine goes off with any part of the cached record written.  If the
\* record is believed at the next boot, it is the old one or all of the new
\* one, and the new one belongs to a complete ROOT-A.
LEMMA DownCases ==
  ASSUME CoreInv, NEW s \in SUBSET dirty, Down(s)
  PROVE  /\ dirty' = {}
         /\ recorded' \in [RecordFiles -> ParamValues \cup {None}]
         /\ md5sum' \in {"absent", "match", "stale"}
         /\ \/ recorded' = recorded /\ md5sum' = md5sum
            \/ recorded' = boot.param /\ md5sum' = "match" /\ Rebuilt
            \/ md5sum' # "match" /\ Rebuilt
BY FlushCases, DirtyMeansRebuilt DEF Down, CoreInv, TypeOK

LEMMA DownInv ==
  ASSUME CoreInv, NEW s \in SUBSET dirty, Down(s),
         UpdTypeOK', \A w \in Writers : upc'[w] = "idle", said' = said
  PROVE  CoreInv'
<1>1. /\ UNCHANGED <<rootA, rootB, rootC, prio, efi, stateful, built, said>>
      /\ pc' = "off"
      /\ boot'.param = rootA.param
      /\ boot' = NoBoot
  BY DEF Down, NoBoot
<1>2. /\ dirty' = {}
      /\ recorded' \in [RecordFiles -> ParamValues \cup {None}]
      /\ md5sum' \in {"absent", "match", "stale"}
      /\ \/ recorded' = recorded /\ md5sum' = md5sum
         \/ recorded' = boot.param /\ md5sum' = "match" /\ Rebuilt
         \/ md5sum' # "match" /\ Rebuilt
  BY DownCases
<1>3. TypeOK'
  <2>1. DiskTypeOK'
    BY <1>1, <1>2 DEF CoreInv, TypeOK, DiskTypeOK
  <2>2. InitTypeOK'
    BY <1>1, <1>2 DEF CoreInv, TypeOK, DiskTypeOK, InitTypeOK, NoBoot
  <2> QED BY <2>1, <2>2 DEF TypeOK
<1>4. SessionInv' /\ HandOverInv'
  BY DEF SessionInv, HandOverInv, HandingOver
<1>5. CacheInv' /\ DecisionInv' /\ PriorityInv'
  BY <1>1, <1>2 DEF CacheInv, DecisionInv, PriorityInv, Rebuilt, Recording, Building
<1>6. RootAInv'
  BY <1>1, <1>2 DEF CoreInv, RootAInv, Rebuilt, Recording, Building, RecordMissing
<1>7. UpdateNeverForgotten'
  BY <1>1 DEF CoreInv, UpdateNeverForgotten, Pending
<1>8. FreshInv'
  <2>1. stateful.fs = "ext2" => ~ Rebuilt
    BY DEF CoreInv, FreshInv, Rebuilt, Recording
  <2> QED
    BY <1>1, <1>2, <2>1 DEF CoreInv, FreshInv, RecordMissing
<1> QED BY <1>3, <1>4, <1>5, <1>6, <1>7, <1>8 DEF CoreInv

(***************************************************************************)
(* The steps of a session.                                                 *)
(***************************************************************************)

\* A process that has begun has an argument to work on.
LEMMA SessionInvKept ==
  ASSUME CoreInv, InSession, NEW w \in Writers,
         NEW from, NEW to, GoOn(w, from, to),
         to # "extract", to = "writeC" => job[w].fw # None,
         to \in {"sizes", "writeB"} \cup HandingOver => job[w].img # None
  PROVE  SessionInv'
<1>1. pc' = "running" /\ pc = "running"
  BY DEF InSession
<1>2. \A o \in Writers : o # w => upc'[o] = upc[o] /\ job'[o] = job[o]
  BY DEF GoOn, CoreInv, TypeOK, UpdTypeOK
<1>3. upc'[w] = to
  BY DEF GoOn, CoreInv, TypeOK, UpdTypeOK
<1>4. to # "idle" => job'[w] = job[w]
  BY DEF GoOn
<1> QED
  BY <1>1, <1>2, <1>3, <1>4 DEF CoreInv, SessionInv, HandingOver

\* A copy that is handed over stays what it is while nobody begins another.
LEMMA HandOverKept ==
  ASSUME CoreInv, NEW w \in Writers, NEW from, NEW to, GoOn(w, from, to),
         to # "writeB",
         rootB' = rootB \/ rootB' = [rootB EXCEPT !.state = "whole"],
         \A o \in Writers \ {w} : clean'[o] => clean[o],
         clean'[w] /\ to \in HandingOver =>
           clean[w] /\ from \in {"writeB"} \cup HandingOver /\ rootB'.state = "whole"
  PROVE  HandOverInv'
<1>1. /\ rootB'.img = rootB.img
      /\ rootB.state = "whole" => rootB'.state = "whole"
  BY DEF CoreInv, TypeOK, DiskTypeOK
<1>2. \A o \in Writers : o # w => upc'[o] = upc[o] /\ job'[o] = job[o]
  BY DEF GoOn, CoreInv, TypeOK, UpdTypeOK
<1>3. upc'[w] = to /\ upc[w] = from
  BY DEF GoOn, CoreInv, TypeOK, UpdTypeOK
<1>4. to # "idle" => job'[w] = job[w]
  BY DEF GoOn
<1>5. ASSUME NEW o \in Writers, o # w
      PROVE  /\ clean'[o] /\ upc'[o] \in {"writeB"} \cup HandingOver =>
                  rootB'.img = job'[o].img
             /\ clean'[o] /\ upc'[o] \in HandingOver => rootB'.state = "whole"
  <2>1. clean'[o] => clean[o]
    BY <1>5
  <2> QED
    BY <1>1, <1>2, <1>5, <2>1 DEF CoreInv, HandOverInv
<1>6. /\ clean'[w] /\ upc'[w] \in {"writeB"} \cup HandingOver => rootB'.img = job'[w].img
      /\ clean'[w] /\ upc'[w] \in HandingOver => rootB'.state = "whole"
  BY <1>1, <1>3, <1>4 DEF CoreInv, HandOverInv, HandingOver
<1> QED
  BY <1>5, <1>6 DEF HandOverInv

\* Types of what a process of the session changes for itself.
LEMMA UpdTypeKept ==
  ASSUME CoreInv, NEW w \in Writers, NEW from, NEW to, GoOn(w, from, to),
         to \in {"idle", "extract", "writeC", "writeEfi", "fPrioA", "fPrioB",
                 "sizes", "writeB", "rPrioA", "rPrioB"},
         said' \in Announcements \cup {None},
         \/ UNCHANGED clean \/ Close(w)
         \/ Overlap(w, "writeC", {}) \/ Overlap(w, "writeB", HandingOver)
  PROVE  UpdTypeOK'
<1>1. clean' \in [Writers -> BOOLEAN]
  BY DEF Close, Overlap, CoreInv, TypeOK, UpdTypeOK
<1>2. job' \in [Writers -> Jobs]
  BY DEF GoOn, CoreInv, TypeOK, UpdTypeOK, NoJob, Jobs
<1> QED BY <1>1, <1>2 DEF GoOn, CoreInv, TypeOK, UpdTypeOK

\* Closing or keeping one's partition takes nothing from the others.
LEMMA OthersKept ==
  ASSUME CoreInv, NEW w \in Writers,
         UNCHANGED clean \/ Close(w) \/ Overlap(w, "writeC", {})
  PROVE  \A o \in Writers \ {w} : clean'[o] => clean[o]
BY DEF Close, Overlap, CoreInv, TypeOK, UpdTypeOK

\* A chromeos-update is started, or gives up.
LEMMA BeginAbortInv ==
  ASSUME CoreInv, NEW w \in Updaters, Begin(w) \/ Abort(w), InSession
  PROVE  CoreInv'
<1>1. UNCHANGED <<diskVars, said>> /\ w \in Writers
  BY DEF Begin, Abort, Writers
<1>2. DiskTypeOK' /\ UpdateNeverForgotten'
  BY <1>1, QuietOnDisk
<1>3. InitTypeOK' /\ CacheInv' /\ DecisionInv' /\ PriorityInv' /\ FreshInv'
  BY <1>1, QuietInScript DEF diskVars
<1>4. RootAInv'
  BY <1>1 DEF InSession, CoreInv, RootAInv, Rebuilt, Recording, Building, RecordMissing,
     diskVars
<1>5. UpdTypeOK' /\ SessionInv' /\ HandOverInv'
  <2>1. CASE Begin(w)
    <3>1. PICK j \in Jobs :
            /\ j.fw # None \/ j.img # None
            /\ job' = [job EXCEPT ![w] = j]
            /\ upc' = [upc EXCEPT ![w] = IF j.fw # None THEN "extract" ELSE "sizes"]
      BY <2>1, UpdaterAssumption DEF Begin
    <3>2. clean' = clean
      BY <2>1 DEF Begin
    <3>3. UpdTypeOK'
      BY <1>1, <3>1, <3>2 DEF CoreInv, TypeOK, UpdTypeOK
    <3>4. /\ upc'[w] \in {"extract", "sizes"} /\ job'[w] = j
          /\ upc'[w] = "extract" <=> j.fw # None
          /\ \A o \in Writers : o # w => upc'[o] = upc[o] /\ job'[o] = job[o]
      BY <1>1, <3>1 DEF CoreInv, TypeOK, UpdTypeOK
    <3>5. SessionInv'
      BY <3>1, <3>4 DEF CoreInv, SessionInv, HandingOver, InSession
    <3>6. HandOverInv'
      BY <1>1, <3>2, <3>4 DEF CoreInv, HandOverInv, HandingOver, diskVars
    <3> QED BY <3>3, <3>5, <3>6
  <2>2. CASE Abort(w)
    <3>1. PICK from \in {"extract", "writeC", "writeEfi", "sizes"} : GoOn(w, from, "idle")
      BY <2>2 DEF Abort
    <3>2. Close(w)
      BY <2>2 DEF Abort
    <3>3. UpdTypeOK'
      BY <1>1, <3>1, <3>2, UpdTypeKept DEF CoreInv, TypeOK, UpdTypeOK
    <3>4. SessionInv'
      BY <1>1, <3>1, SessionInvKept DEF HandingOver
    <3>5. \A o \in Writers \ {w} : clean'[o] => clean[o]
      BY <1>1, <3>2, OthersKept
    <3>6. HandOverInv'
      BY <1>1, <3>1, <3>5, HandOverKept DEF HandingOver, diskVars
    <3> QED BY <3>3, <3>4, <3>6
  <2> QED BY <2>1, <2>2
<1> QED BY <1>2, <1>3, <1>4, <1>5 DEF CoreInv, TypeOK

\* ROOT-C is being overwritten: the record stays as it was, with its
\* framework, or no longer counts.
LEMMA StartFrameworkInv ==
  ASSUME CoreInv, NEW w \in Updaters, StartFramework(w), InSession
  PROVE  CoreInv'
<1>1. /\ w \in Writers /\ GoOn(w, "extract", "writeC") /\ Overlap(w, "writeC", {})
      /\ UNCHANGED <<rootA, rootB, prio, efi, stateful, said>>
  BY DEF StartFramework, Writers
<1>2. job[w].fw \in Frameworks /\ job[w].fw # None
  BY <1>1 DEF GoOn, CoreInv, SessionInv, TypeOK, UpdTypeOK, Jobs
<1>3. /\ rootC' \in [fw : Frameworks, whole : BOOLEAN]
      /\ recorded' \in [RecordFiles -> ParamValues \cup {None}]
      /\ md5sum' \in {"absent", "match", "stale"}
      /\ md5sum' = "match" =>
           rootC'.fw = rootC.fw /\ UNCHANGED <<recorded, md5sum>>
  <2>1. rootC \in [fw : Frameworks, whole : BOOLEAN]
    BY DEF CoreInv, TypeOK, DiskTypeOK
  <2>2. CASE rootC' = [rootC EXCEPT !.whole = FALSE] /\ UNCHANGED <<recorded, md5sum>>
    BY <2>1, <2>2 DEF CoreInv, TypeOK, DiskTypeOK
  <2>3. CASE /\ \E fw \in {rootC.fw, job[w].fw} : rootC' = [fw |-> fw, whole |-> FALSE]
             /\ md5sum' = Stale(md5sum) /\ UNCHANGED recorded
    BY <1>2, <2>1, <2>3 DEF Stale, CoreInv, TypeOK, DiskTypeOK
  <2>4. CASE /\ rootC' = [fw |-> job[w].fw, whole |-> FALSE]
             /\ recorded' = NoRecord /\ md5sum' = "absent"
    BY <1>2, <2>4 DEF NoRecord
  <2> QED BY <2>2, <2>3, <2>4 DEF StartFramework
<1>4. DiskTypeOK'
  BY <1>1, <1>3 DEF CoreInv, TypeOK, DiskTypeOK
<1>5. UpdTypeOK'
  BY <1>1, UpdTypeKept DEF CoreInv, TypeOK, UpdTypeOK
<1>6. InitTypeOK' /\ CacheInv' /\ DecisionInv' /\ PriorityInv' /\ FreshInv'
  BY <1>1, QuietInScript
<1>7. SessionInv'
  BY <1>1, <1>2, SessionInvKept DEF HandingOver
<1>8. RootAInv'
  BY <1>1, <1>3 DEF InSession, CoreInv, RootAInv, Rebuilt, Recording, Building,
     RecordMissing
<1>9. HandOverInv'
  <2>1. \A o \in Writers \ {w} : clean'[o] => clean[o]
    BY <1>1, OthersKept
  <2> QED BY <1>1, <2>1, HandOverKept DEF HandingOver
<1>10. UpdateNeverForgotten'
  BY <1>1 DEF CoreInv, UpdateNeverForgotten, Pending
<1> QED BY <1>4, <1>5, <1>6, <1>7, <1>8, <1>9, <1>10 DEF CoreInv, TypeOK

\* The rest of -f, and the first of the two priorities: each of them leaves
\* P(KERN-B) >= P(KERN-A).
LEMMA FrameworkInv ==
  ASSUME CoreInv, NEW w \in Updaters, InSession,
         \/ FrameworkWritten(w) \/ EfiWritten(w) \/ FrameworkDone(w)
         \/ LowerKernA(w, "fPrioA", "fPrioB")
         \/ LowerKernA(w, "rPrioA", "rPrioB")
  PROVE  CoreInv'
<1>1. /\ UNCHANGED <<rootA, rootB, stateful, said>>
      /\ UNCHANGED clean \/ Close(w)
      /\ w \in Writers
  BY DEF FrameworkWritten, EfiWritten, FrameworkDone, LowerKernA, Writers
<1>2. PICK from, to :
        /\ GoOn(w, from, to)
        /\ to \in {"idle", "writeEfi", "fPrioA", "fPrioB", "sizes", "rPrioB"}
        /\ to = "sizes" => job[w].img # None
        /\ to = "rPrioB" => from = "rPrioA" /\ UNCHANGED clean
        /\ \/ /\ from = "writeC"
              /\ rootC' = [fw |-> job[w].fw, whole |-> clean[w]]
              /\ recorded' = NoRecord /\ md5sum' = "absent"
           \/ UNCHANGED <<rootC, recorded, md5sum>>
  BY DEF FrameworkWritten, EfiWritten, FrameworkDone, LowerKernA
<1>3. DiskTypeOK'
  <2>1. /\ rootC' \in [fw : Frameworks, whole : BOOLEAN]
        /\ recorded' \in [RecordFiles -> ParamValues \cup {None}]
        /\ md5sum' \in {"absent", "match", "stale"}
    <3>1. from = "writeC" => job[w].fw \in Frameworks
      BY <1>1, <1>2 DEF GoOn, CoreInv, SessionInv, TypeOK, UpdTypeOK, Jobs
    <3>2. clean[w] \in BOOLEAN
      BY <1>1 DEF CoreInv, TypeOK, UpdTypeOK
    <3> QED BY <1>2, <3>1, <3>2 DEF NoRecord, CoreInv, TypeOK, DiskTypeOK
  <2>2. efi' \in [cfg : Settings, whole : BOOLEAN]
    <3>1. \/ efi' = efi
          \/ efi' = [efi EXCEPT !.whole = FALSE]
          \/ efi' = [cfg |-> DefaultSettings, whole |-> TRUE]
      BY DEF FrameworkWritten, EfiWritten, FrameworkDone, LowerKernA
    <3>2. DefaultSettings \in Settings
      BY DiskAssumption
    <3>3. efi \in [cfg : Settings, whole : BOOLEAN]
      BY DEF CoreInv, TypeOK, DiskTypeOK
    <3>4. CASE efi' = [efi EXCEPT !.whole = FALSE]
      BY <3>3, <3>4
    <3>5. CASE efi' = [cfg |-> DefaultSettings, whole |-> TRUE]
      BY <3>2, <3>5
    <3> QED BY <3>1, <3>3, <3>4, <3>5
  <2>3. prio' \in [a : Priorities, b : Priorities]
    BY DEF FrameworkWritten, EfiWritten, FrameworkDone, LowerKernA,
       CoreInv, TypeOK, DiskTypeOK, Priorities
  <2> QED BY <1>1, <2>1, <2>2, <2>3 DEF CoreInv, TypeOK, DiskTypeOK
<1>4. UpdTypeOK'
  BY <1>1, <1>2, UpdTypeKept DEF CoreInv, TypeOK, UpdTypeOK
<1>5. InitTypeOK' /\ CacheInv' /\ DecisionInv' /\ PriorityInv' /\ FreshInv'
  BY <1>1, QuietInScript
<1>6. SessionInv'
  <2>1. to = "rPrioB" => job[w].img # None
    BY <1>1, <1>2 DEF GoOn, CoreInv, SessionInv, HandingOver
  <2> QED BY <1>1, <1>2, <2>1, SessionInvKept DEF HandingOver
<1>7. prio' = prio \/ prio'.b >= prio'.a
  BY DEF FrameworkWritten, EfiWritten, FrameworkDone, LowerKernA,
     CoreInv, TypeOK, DiskTypeOK, Priorities
<1>8. RootAInv'
  BY <1>1, <1>2 DEF InSession, CoreInv, RootAInv, Rebuilt, Recording, Building,
     RecordMissing
<1>9. HandOverInv'
  <2>1. \A o \in Writers \ {w} : clean'[o] => clean[o]
    BY <1>1, OthersKept
  <2>2. to = "rPrioB" /\ clean'[w] => clean[w] /\ rootB'.state = "whole"
    BY <1>1, <1>2 DEF GoOn, CoreInv, HandOverInv, HandingOver
  <2> QED BY <1>1, <1>2, <2>1, <2>2, HandOverKept DEF HandingOver
<1>10. UpdateNeverForgotten'
  BY <1>1, <1>7 DEF CoreInv, UpdateNeverForgotten, Pending
<1> QED BY <1>3, <1>4, <1>5, <1>6, <1>8, <1>9, <1>10 DEF CoreInv, TypeOK

\* A copy to ROOT-B begins: whoever was writing or announcing one has lost it.
LEMMA StartCopyToB ==
  ASSUME CoreInv, InSession,
         \/ \E w \in Updaters : StartRootB(w)
         \/ EngineStart
  PROVE  CoreInv'
<1>1. UNCHANGED <<rootA, rootC, recorded, md5sum, prio, efi, stateful>> /\ said' = None
  BY DEF StartRootB, EngineStart
<1>2. PICK w \in Writers :
        /\ upc' = [upc EXCEPT ![w] = "writeB"]
        /\ Overlap(w, "writeB", HandingOver)
        /\ job' \in [Writers -> Jobs]
        /\ \A o \in Writers : o # w => job'[o] = job[o]
        /\ job'[w].img \in Images /\ job'[w].img # None
        /\ rootB'.img = job'[w].img
        /\ rootB' \in [img : Images, state : {"whole", "torn", "unreadable"}]
  <2>1. CASE \E w \in Updaters : StartRootB(w)
    <3>1. PICK w \in Updaters : StartRootB(w)
      BY <2>1
    <3>2. w \in Writers /\ upc[w] = "sizes" /\ job' = job
          /\ upc' = [upc EXCEPT ![w] = "writeB"] /\ Overlap(w, "writeB", HandingOver)
      BY <3>1 DEF StartRootB, GoOn, Writers
    <3>3. job[w].img \in Images /\ job[w].img # None /\ job \in [Writers -> Jobs]
      BY <3>2 DEF CoreInv, SessionInv, TypeOK, UpdTypeOK, Jobs
    <3>4. rootB'.img = job[w].img
          /\ rootB' \in [img : Images, state : {"whole", "torn", "unreadable"}]
      BY <3>1, <3>3 DEF StartRootB
    <3> QED BY <3>2, <3>3, <3>4
  <2>2. CASE EngineStart
    <3>1. PICK i \in Images, s \in {"torn", "unreadable"} :
            /\ rootB' = [img |-> i, state |-> s]
            /\ job' = [job EXCEPT ![UpdateEngine] = [NoJob EXCEPT !.img = i]]
      BY <2>2 DEF EngineStart
    <3>2. UpdateEngine \in Writers
      BY DEF Writers
    <3>3. [NoJob EXCEPT !.img = i] \in Jobs /\ [NoJob EXCEPT !.img = i].img = i
      BY DEF NoJob, Jobs
    <3>4. job \in [Writers -> Jobs] /\ i # None
      BY DiskAssumption DEF CoreInv, TypeOK, UpdTypeOK
    <3>5. /\ upc' = [upc EXCEPT ![UpdateEngine] = "writeB"]
          /\ Overlap(UpdateEngine, "writeB", HandingOver)
      BY <2>2 DEF EngineStart
    <3> QED BY <3>1, <3>2, <3>3, <3>4, <3>5
  <2> QED BY <2>1, <2>2
<1>3. DiskTypeOK'
  BY <1>1, <1>2 DEF CoreInv, TypeOK, DiskTypeOK
<1>4. clean' \in [Writers -> BOOLEAN]
      /\ \A o \in Writers : o # w /\ clean'[o] =>
           upc[o] \notin {"writeB"} \cup HandingOver
  BY <1>2 DEF Overlap, CoreInv, TypeOK, UpdTypeOK
<1>5. UpdTypeOK'
  BY <1>1, <1>2, <1>4 DEF CoreInv, TypeOK, UpdTypeOK
<1>6. upc'[w] = "writeB" /\ \A o \in Writers : o # w => upc'[o] = upc[o]
  BY <1>2 DEF CoreInv, TypeOK, UpdTypeOK
<1>7. SessionInv'
  BY <1>2, <1>6 DEF InSession, CoreInv, SessionInv
<1>8. HandOverInv'
  BY <1>2, <1>4, <1>6 DEF HandOverInv, HandingOver
<1>9. InitTypeOK' /\ CacheInv' /\ DecisionInv' /\ PriorityInv' /\ FreshInv'
  BY <1>1, QuietInScript
<1>10. RootAInv' /\ UpdateNeverForgotten'
  BY <1>1 DEF InSession, CoreInv, RootAInv, Rebuilt, Recording, Building, RecordMissing,
     UpdateNeverForgotten
<1> QED BY <1>3, <1>5, <1>7, <1>8, <1>9, <1>10 DEF CoreInv, TypeOK

\* A copy to ROOT-B ends, well or not, and is announced: what is announced by a
\* process that was alone is what is there.
LEMMA EndCopyToB ==
  ASSUME CoreInv, InSession,
         \/ \E w \in Updaters : RootBWritten(w) \/ RootBFailed(w) \/ RecoveryDone(w)
         \/ EngineVerify \/ EngineDone
  PROVE  CoreInv'
<1>1. UNCHANGED <<rootA, rootC, recorded, md5sum, efi, stateful>>
  BY DEF RootBWritten, RootBFailed, RecoveryDone, EngineVerify, EngineDone, diskVars
<1>2. PICK w \in Writers, from \in {"writeB", "rPrioB"}, to \in {"rPrioA", "rPrioB", "idle"} :
        /\ GoOn(w, from, to)
        /\ UNCHANGED clean \/ Close(w)
        /\ to # "idle" => from = "writeB"
        /\ \/ /\ from = "writeB" /\ UNCHANGED <<prio, said>>
              /\ \/ rootB' = rootB /\ (to # "idle" => ~ clean[w])
                 \/ rootB' = [rootB EXCEPT !.state = "whole"]
           \/ /\ from = "rPrioB" /\ to = "idle" /\ rootB' = rootB
              /\ prio' \in [a : Priorities, b : Priorities] /\ prio'.b >= prio'.a
              /\ said' = [img |-> job[w].img, alone |-> clean[w]]
  <2>1. CASE \E w \in Updaters : RootBWritten(w) \/ RootBFailed(w)
    BY <2>1 DEF RootBWritten, RootBFailed, Writers, HandingOver, diskVars
  <2>2. CASE \E w \in Updaters : RecoveryDone(w)
    BY <2>2 DEF RecoveryDone, Writers, CoreInv, TypeOK, DiskTypeOK, Priorities
  <2>3. CASE EngineVerify
    BY <2>3 DEF EngineVerify, Writers, HandingOver
  <2>4. CASE EngineDone
    BY <2>4 DEF EngineDone, Writers, Priorities
  <2> QED BY <2>1, <2>2, <2>3, <2>4
<1>3. /\ rootB' = rootB \/ rootB' = [rootB EXCEPT !.state = "whole"]
      /\ rootB' \in [img : Images, state : {"whole", "torn", "unreadable"}]
      /\ prio' \in [a : Priorities, b : Priorities]
  BY <1>2 DEF CoreInv, TypeOK, DiskTypeOK
<1>4. DiskTypeOK'
  BY <1>1, <1>3 DEF CoreInv, TypeOK, DiskTypeOK
<1>5. from \in {"writeB", "rPrioB"} /\ upc[w] = from /\ job[w].img \in Images
      /\ job[w].img # None /\ clean[w] \in BOOLEAN
  BY <1>2 DEF GoOn, CoreInv, SessionInv, HandingOver, TypeOK, UpdTypeOK, Jobs
<1>6. UpdTypeOK'
  <2>1. said' \in Announcements \cup {None}
    BY <1>2, <1>5 DEF Announcements, CoreInv, TypeOK, UpdTypeOK
  <2> QED BY <1>2, <2>1, UpdTypeKept
<1>7. SessionInv'
  BY <1>2, <1>5, SessionInvKept
<1>8. HandOverInv'
  <2>1. \A o \in Writers \ {w} : clean'[o] => clean[o]
    BY <1>2, OthersKept
  <2>2. clean'[w] => clean[w]
    BY <1>2 DEF Close, CoreInv, TypeOK, UpdTypeOK
  <2>3. clean[w] /\ to # "idle" => rootB'.state = "whole" /\ from = "writeB"
    BY <1>2, <1>5 DEF CoreInv, TypeOK, DiskTypeOK
  <2> QED BY <1>2, <1>3, <2>1, <2>2, <2>3, HandOverKept DEF HandingOver
<1>9. InitTypeOK' /\ CacheInv' /\ DecisionInv' /\ PriorityInv' /\ FreshInv'
  BY <1>1, QuietInScript
<1>10. RootAInv'
  BY <1>1 DEF InSession, CoreInv, RootAInv, Rebuilt, Recording, Building, RecordMissing
<1>11. UpdateNeverForgotten'
  <2>1. CASE from = "writeB"
    <3>1. said # None /\ said.alone => rootB' = rootB
      BY <1>3 DEF CoreInv, UpdateNeverForgotten, TypeOK, DiskTypeOK
    <3> QED
      BY <1>1, <1>2, <2>1, <3>1 DEF CoreInv, UpdateNeverForgotten, Pending
  <2>2. CASE from = "rPrioB"
    <3>1. clean[w] => rootB = [img |-> job[w].img, state |-> "whole"]
      BY <1>5, <2>2 DEF CoreInv, HandOverInv, HandingOver, TypeOK, DiskTypeOK
    <3>2. Pending'
      BY <1>2, <2>2 DEF Pending
    <3> QED
      BY <1>2, <2>2, <3>1, <3>2 DEF UpdateNeverForgotten
  <2> QED BY <1>5, <2>1, <2>2
<1> QED BY <1>4, <1>6, <1>7, <1>8, <1>9, <1>10, <1>11 DEF CoreInv, TypeOK

(***************************************************************************)
(* Every step.                                                             *)
(***************************************************************************)

\* No step leaves the core of the invariant.
LEMMA NextCore == CoreInv /\ [Next]_vars => CoreInv'
<1> SUFFICES ASSUME CoreInv, [Next]_vars PROVE CoreInv'
  OBVIOUS
<1>1. CASE Boot
  <2>1. UNCHANGED updVars
    BY <1>1 DEF Boot
  <2>2. CASE GrubLoads \/ GrubFails
    BY <2>1, <2>2, GrubInv
  <2>3. CASE BootStep
    BY <2>1, <2>3, DecideInv, RebuildInv, AckInv, RecordInv, UnmountInv, SwitchInv
       DEF BootStep
  <2>4. CASE EditSettings
    BY <2>1, <2>4, SettingsInv
  <2>5. CASE PowerLoss
    <3>1. PICK s \in SUBSET dirty : pc \in BootSteps /\ Down(s)
      BY <2>5 DEF PowerLoss
    <3>2. pc # "running"
      BY <3>1 DEF BootSteps
    <3>3. UpdTypeOK' /\ (\A w \in Writers : upc'[w] = "idle") /\ said' = said
      BY <2>1, <3>2 DEF CoreInv, TypeOK, UpdTypeOK, SessionInv, updVars
    <3> QED BY <3>1, <3>3, DownInv
  <2> QED BY <1>1, <2>2, <2>3, <2>4, <2>5 DEF Boot
<1>2. CASE Reboot
  <2>1. Down(dirty) /\ UpdKilled
    BY <1>2 DEF Reboot, Restart
  <2>2. dirty \in SUBSET dirty
    OBVIOUS
  <2>3. UpdTypeOK' /\ (\A w \in Writers : upc'[w] = "idle") /\ said' = said
    BY <2>1 DEF UpdKilled, UpdTypeOK, NoJob, Jobs, CoreInv, TypeOK
  <2> QED BY <2>1, <2>2, <2>3, DownInv
<1>3. CASE \E w \in Updaters : Session(w)
  <2>1. PICK w \in Updaters : (Begin(w) \/ UpdaterStep(w)) /\ InSession
    BY <1>3 DEF Session
  <2> QED
    BY <2>1, BeginAbortInv, StartFrameworkInv, FrameworkInv, StartCopyToB, EndCopyToB
       DEF UpdaterStep
<1>4. CASE Engine
  BY <1>4, StartCopyToB, EndCopyToB DEF Engine, EngineStep
<1>5. CASE UNCHANGED vars
  <2>1. UNCHANGED <<diskVars, initVars, updVars>>
    BY <1>5 DEF vars
  <2>2. UNCHANGED <<pc, boot, dirty, built>> /\ UNCHANGED <<upc, job, clean, said>>
    BY <2>1 DEF initVars, updVars
  <2>3. DiskTypeOK' /\ UpdateNeverForgotten'
    BY <2>1, <2>2, QuietOnDisk
  <2>4. UpdTypeOK' /\ SessionInv' /\ HandOverInv' /\ FreshInv'
    BY <2>1, <2>2 DEF CoreInv, TypeOK, UpdTypeOK, SessionInv, HandOverInv, FreshInv,
       RecordMissing, diskVars
  <2>5. InitTypeOK' /\ CacheInv' /\ DecisionInv' /\ RootAInv' /\ PriorityInv'
    BY <2>1, <2>2 DEF CoreInv, TypeOK, InitTypeOK, CacheInv, DecisionInv, RootAInv,
       PriorityInv, Rebuilt, diskVars,
       NeedsRebuild, Pending, RecordMissing, RecordDiffers
  <2> QED BY <2>3, <2>4, <2>5 DEF CoreInv, TypeOK
<1> QED BY <1>1, <1>2, <1>3, <1>4, <1>5 DEF Next

(***************************************************************************)
(* The two promises about the record.                                      *)
(***************************************************************************)

\* Only the two cgpt calls of brunch-init lower P(KERN-B) below P(KERN-A).
LEMMA PrioritySteps ==
  ASSUME CoreInv, [Next]_vars
  PROVE  RaiseKernA \/ LowerKernB \/ prio' = prio \/ prio'.b >= prio'.a
<1>1. CASE Boot
  BY <1>1 DEF Boot, GrubLoads, GrubFails, BootStep, Decide, ProbeRootB, StartCopy,
     FinishCopy, ApplyPatches, UnmountRootA, WriteRecord, WriteMd5sum, UnmountRootC,
     SwitchRoot, EditSettings, PowerLoss, Down, diskVars
<1>2. CASE Reboot
  BY <1>2 DEF Reboot, Restart, Down
<1>3. CASE \E w \in Updaters : Session(w)
  BY <1>3 DEF Session, Begin, UpdaterStep, StartFramework, FrameworkWritten, EfiWritten,
     LowerKernA, FrameworkDone, StartRootB, RootBWritten, RootBFailed, RecoveryDone,
     Abort, diskVars, CoreInv, TypeOK, DiskTypeOK, Priorities
<1>4. CASE Engine
  BY <1>4 DEF Engine, EngineStep, EngineStart, EngineVerify, EngineDone, CoreInv, TypeOK,
     DiskTypeOK
<1>5. CASE UNCHANGED vars
  BY <1>5 DEF vars, diskVars
<1> QED BY <1>1, <1>2, <1>3, <1>4, <1>5 DEF Next

\* A step leaves the record, completes it for a ROOT-A that is complete, or
\* leaves one that is not believed.
LEMMA RecordSteps ==
  ASSUME CoreInv, [Next]_vars
  PROVE  \/ UNCHANGED <<recorded, md5sum>>
         \/ md5sum' # "match"
         \/ /\ Rebuilt /\ recorded' = boot.param /\ md5sum' = "match"
            /\ UNCHANGED <<rootA, built>>
<1>1. CASE Boot \/ Reboot
  <2>1. CASE UnmountRootC
    <3>1. dirty \in SUBSET dirty /\ Flush(dirty) /\ UNCHANGED <<rootA, built>>
      BY <2>1 DEF UnmountRootC
    <3> QED BY <3>1, FlushCases, DirtyMeansRebuilt DEF CoreInv, TypeOK
  <2>2. CASE PowerLoss \/ Restart
    <3>1. PICK s \in SUBSET dirty : Down(s)
      BY <2>2 DEF PowerLoss, Restart
    <3> QED BY <3>1, DownCases DEF Down
  <2>3. CASE \/ GrubLoads \/ GrubFails \/ EditSettings \/ Decide \/ ProbeRootB
             \/ StartCopy \/ FinishCopy \/ ApplyPatches \/ UnmountRootA
             \/ RaiseKernA \/ LowerKernB
    BY <2>3 DEF GrubLoads, GrubFails, EditSettings, Decide, ProbeRootB, StartCopy,
       FinishCopy, ApplyPatches, UnmountRootA, RaiseKernA, LowerKernB, diskVars
  <2>4. CASE \/ WriteRecord("debug", "kernel_version")
             \/ WriteRecord("kernel_version", "options")
             \/ WriteRecord("options", "sum")
             \/ WriteMd5sum \/ SwitchRoot
    BY <2>4 DEF WriteRecord, WriteMd5sum, SwitchRoot, diskVars
  <2> QED BY <1>1, <2>1, <2>2, <2>3, <2>4 DEF Boot, Reboot, BootStep
<1>2. CASE \E w \in Updaters : Session(w)
  <2>1. ASSUME NEW w \in Updaters, StartFramework(w) \/ FrameworkWritten(w)
        PROVE  UNCHANGED <<recorded, md5sum>> \/ md5sum' # "match"
    BY <2>1 DEF StartFramework, FrameworkWritten, Stale
  <2>2. ASSUME NEW w \in Updaters, Begin(w) \/ UpdaterStep(w),
               ~ StartFramework(w), ~ FrameworkWritten(w)
        PROVE  UNCHANGED <<recorded, md5sum>>
    BY <2>2 DEF Begin, UpdaterStep, EfiWritten, LowerKernA, FrameworkDone, StartRootB,
       RootBWritten, RootBFailed, RecoveryDone, Abort, diskVars
  <2> QED BY <1>2, <2>1, <2>2 DEF Session
<1>3. CASE Engine
  BY <1>3 DEF Engine, EngineStep, EngineStart, EngineVerify, EngineDone
<1>4. CASE UNCHANGED vars
  BY <1>4 DEF vars, diskVars
<1> QED BY <1>1, <1>2, <1>3, <1>4 DEF Next

\* ROOT-A changes what it is (being) built with only when a copy starts, and
\* how far that got only then or when it is unmounted.
LEMMA RootASteps ==
  ASSUME CoreInv, [Next]_vars
  PROVE  \/ StartCopy
         \/ rootA'.phase = "complete"
         \/ rootA'.phase = rootA.phase /\ rootA'.param = rootA.param
<1>1. CASE Boot \/ Reboot
  <2>1. CASE FinishCopy \/ ApplyPatches \/ UnmountRootA
    BY <2>1 DEF FinishCopy, ApplyPatches, UnmountRootA, CoreInv, TypeOK, DiskTypeOK
  <2>2. CASE \/ GrubLoads \/ GrubFails \/ EditSettings \/ Decide \/ ProbeRootB
             \/ RaiseKernA \/ LowerKernB \/ PowerLoss \/ Reboot
             \/ WriteRecord("debug", "kernel_version")
             \/ WriteRecord("kernel_version", "options")
             \/ WriteRecord("options", "sum")
             \/ WriteMd5sum \/ UnmountRootC \/ SwitchRoot
    BY <2>2 DEF GrubLoads, GrubFails, EditSettings, Decide, ProbeRootB, RaiseKernA,
       LowerKernB, PowerLoss, Reboot, Restart, Down, WriteRecord, WriteMd5sum,
       UnmountRootC, SwitchRoot, diskVars
  <2> QED BY <1>1, <2>1, <2>2 DEF Boot, BootStep
<1>2. CASE \E w \in Updaters : Session(w)
  BY <1>2 DEF Session, Begin, UpdaterStep, StartFramework, FrameworkWritten, EfiWritten,
     LowerKernA, FrameworkDone, StartRootB, RootBWritten, RootBFailed, RecoveryDone,
     Abort, diskVars
<1>3. CASE Engine
  BY <1>3 DEF Engine, EngineStep, EngineStart, EngineVerify, EngineDone
<1>4. CASE UNCHANGED vars
  BY <1>4 DEF vars, diskVars
<1> QED BY <1>1, <1>2, <1>3, <1>4 DEF Next

\* Builds are forgotten only with their framework, whose record goes with it.
LEMMA BuiltSteps ==
  ASSUME CoreInv, [Next]_vars
  PROVE  built \subseteq built' \/ md5sum' # "match"
<1>1. CASE Boot \/ Reboot
  BY <1>1 DEF Boot, GrubLoads, GrubFails, BootStep, Decide, ProbeRootB, StartCopy,
     FinishCopy, ApplyPatches, UnmountRootA, RaiseKernA, LowerKernB, WriteRecord,
     WriteMd5sum, UnmountRootC, SwitchRoot, EditSettings, PowerLoss, Reboot, Restart,
     Down, initVars
<1>2. CASE \E w \in Updaters : Session(w)
  <2>1. ASSUME NEW w \in Updaters, StartFramework(w)
        PROVE  rootC'.fw = rootC.fw \/ md5sum' # "match"
    BY <2>1 DEF StartFramework, Stale, CoreInv, TypeOK, DiskTypeOK
  <2>2. ASSUME NEW w \in Updaters, Begin(w) \/ UpdaterStep(w), ~ StartFramework(w)
        PROVE  rootC' = rootC \/ md5sum' # "match"
    BY <2>2 DEF Begin, UpdaterStep, FrameworkWritten, EfiWritten, LowerKernA,
       FrameworkDone, StartRootB, RootBWritten, RootBFailed, RecoveryDone, Abort, diskVars
  <2> QED BY <1>2, <2>1, <2>2 DEF Session, InSession
<1>3. CASE Engine
  BY <1>3 DEF Engine, EngineStep, EngineStart, EngineVerify, EngineDone, InSession
<1>4. CASE UNCHANGED vars
  BY <1>4 DEF vars, initVars
<1> QED BY <1>1, <1>2, <1>3, <1>4 DEF Next

\* A rebuild starts only when it is needed, and stays needed until ROOT-A is
\* complete.
LEMMA RetryKept ==
  ASSUME CoreInv, RetryGuarantee, [Next]_vars
  PROVE  RetryGuarantee'
<1> SUFFICES ASSUME rootA'.phase = "partial" PROVE NeedsRebuild(rootA.param)'
  BY DEF RetryGuarantee
<1>1. CASE md5sum' # "match"
  BY <1>1 DEF NeedsRebuild, RecordDiffers
<1>2. CASE /\ Rebuilt /\ recorded' = boot.param /\ md5sum' = "match"
           /\ UNCHANGED <<rootA, built>>
  BY <1>2 DEF CoreInv, RootAInv
<1>3. CASE UNCHANGED <<recorded, md5sum>>
  <2>1. CASE StartCopy
    <3>1. NeedsRebuild(boot.param) /\ rootA'.param = boot.param /\ prio' = prio
      BY <2>1 DEF StartCopy, GoTo, CoreInv, DecisionInv
    <3> QED
      BY <1>3, <3>1 DEF NeedsRebuild, Pending, RecordMissing, RecordDiffers
  <2>2. CASE ~ StartCopy
    <3>1. rootA.phase = "partial" /\ rootA'.param = rootA.param
      BY <2>2, RootASteps
    <3>2. NeedsRebuild(rootA.param)
      BY <3>1 DEF RetryGuarantee
    <3>3. Pending => Pending'
      <4>1. ~ RaiseKernA /\ ~ LowerKernB
        BY <3>1 DEF RaiseKernA, LowerKernB, GoTo, CoreInv, RootAInv, Rebuilt, Recording
      <4> QED BY <4>1, PrioritySteps DEF Pending
    <3> QED
      BY <1>3, <3>1, <3>2, <3>3 DEF NeedsRebuild, RecordMissing, RecordDiffers
  <2> QED BY <2>1, <2>2
<1> QED BY <1>1, <1>2, <1>3, RecordSteps

\* The record is completed with the parameters of a build.
LEMMA RecordedKept ==
  ASSUME CoreInv, RecordedWasBuilt, [Next]_vars
  PROVE  RecordedWasBuilt'
<1> SUFFICES ASSUME ~ RecordMissing', md5sum' = "match" PROVE recorded' \in built'
  BY DEF RecordedWasBuilt
<1>1. CASE UNCHANGED <<recorded, md5sum>>
  BY <1>1, BuiltSteps DEF RecordedWasBuilt, RecordMissing
<1>2. CASE Rebuilt /\ recorded' = boot.param /\ UNCHANGED built
  BY <1>2 DEF CoreInv, RootAInv
<1> QED BY <1>1, <1>2, RecordSteps

LEMMA NextIInv == IInv /\ [Next]_vars => IInv'
BY NextCore, RetryKept, RecordedKept DEF IInv

(***************************************************************************)
(* What a brunch machine keeps.                                            *)
(***************************************************************************)

\* IInv holds in every state a brunch machine reaches.
THEOREM Invariance == Spec => []IInv
<1>1. Init => IInv
  BY InitIInv
<1>2. IInv /\ [Next]_vars => IInv'
  BY NextIInv
<1> QED BY <1>1, <1>2, PTL DEF Spec

\* All state has its type.
THEOREM TypeCorrect == Spec => []TypeOK
<1>1. IInv => TypeOK
  BY DEF IInv, CoreInv
<1> QED BY <1>1, Invariance, PTL

\* An interrupted rebuild is decided again, whenever power was lost and
\* whatever was on its way to the disk.
THEOREM RetryIsGuaranteed == Spec => []RetryGuarantee
<1>1. IInv => RetryGuarantee
  BY DEF IInv
<1> QED BY <1>1, Invariance, PTL

\* A record that is believed names a build that was completed.
THEOREM RecordIsTrue == Spec => []RecordedWasBuilt
<1>1. IInv => RecordedWasBuilt
  BY DEF IInv
<1> QED BY <1>1, Invariance, PTL

\* An update that was announced by a process that had ROOT-B for itself is on
\* ROOT-B as a whole, and pending or on ROOT-A.
THEOREM UpdateIsRemembered == Spec => []UpdateNeverForgotten
<1>1. IInv => UpdateNeverForgotten
  BY DEF IInv, CoreInv
<1> QED BY <1>1, Invariance, PTL

\* A boot that decided not to rebuild found its record.
LEMMA ExplainedByInv == CoreInv /\ RetryGuarantee => BootExplained
<1> SUFFICES ASSUME CoreInv, RetryGuarantee, pc = "switch", rootB.state # "unreadable",
                    ~ OwnBuild
             PROVE  recorded = boot.param /\ rootA.param # boot.param
  BY DEF BootExplained
<1>1. ~ boot.valid
  BY DEF CoreInv, RootAInv, Rebuilt, OwnBuild
<1>2. ~ NeedsRebuild(boot.param)
  BY <1>1 DEF CoreInv, DecisionInv
<1>3. recorded = boot.param /\ rootA.fw = rootC.fw
  BY <1>2 DEF NeedsRebuild, RecordDiffers, CoreInv, RootAInv
<1>4. CASE rootA.param = boot.param
  <2>1. rootA.phase = "complete"
    BY <1>2, <1>4 DEF CoreInv, RetryGuarantee, TypeOK, DiskTypeOK
  <2> QED BY <1>3, <1>4, <2>1 DEF OwnBuild
<1> QED BY <1>3, <1>4

\* The only two reasons for a boot to go on without its own build.
THEOREM BootIsExplained == Spec => []BootExplained
BY Invariance, ExplainedByInv, PTL DEF IInv

\* A finished rebuild is not owed again.
THEOREM RebuildsDoNotLoop == Spec => []NoRebuildLoop
<1>1. IInv => NoRebuildLoop
  <2> SUFFICES ASSUME IInv, pc = "switch", boot.valid
               PROVE  ~ NeedsRebuild(boot.param)
    BY DEF NoRebuildLoop
  <2>1. recorded = boot.param /\ md5sum = "match" /\ prio = [a |-> 15, b |-> 0]
    BY DEF IInv, CoreInv, PriorityInv, Rebuilt
  <2>2. ~ RecordMissing
    BY <2>1, ParamIsARecord DEF RecordMissing, IInv, CoreInv, TypeOK, InitTypeOK
  <2> QED BY <2>1, <2>2 DEF NeedsRebuild, Pending, RecordDiffers
<1> QED BY <1>1, Invariance, PTL

=============================================================================
