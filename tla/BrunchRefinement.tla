-------------------------- MODULE BrunchRefinement --------------------------
(***************************************************************************)
(* Proofs about the steps of Brunch: what may never be done in one, and    *)
(* that each is a step of RebuildProtocol or none.                         *)
(***************************************************************************)
EXTENDS BrunchProofs

(***************************************************************************)
(* What may never be done in one step.                                     *)
(***************************************************************************)

\* A pending update is acknowledged only when ROOT-A holds what is on ROOT-B, as
\* whole as it is there, or a command of the rebuild failed.
THEOREM AcksAreEarned == Spec => AckOnlyAfterBuild
<1> DEFINE Earned ==
      /\ rootA.phase = "complete"
      /\ rootA.img = rootB.img /\ rootA.fw = rootC.fw
      /\ rootB.state # "unreadable"
      /\ \/ rootA.state = "failed"
         \/ rootA.state = rootB.state /\ rootC.whole
<1>1. IInv /\ [Next]_vars => (Pending /\ ~ Pending' => Earned)
  <2> SUFFICES ASSUME IInv, [Next]_vars, Pending, ~ Pending'
               PROVE  Earned
    OBVIOUS
  <2>1. RaiseKernA \/ LowerKernB
    BY PrioritySteps DEF Pending, IInv
  <2>2. pc \in Recording
    BY <2>1 DEF RaiseKernA, LowerKernB, GoTo, Recording
  <2>3. Rebuilt
    BY <2>2 DEF Rebuilt
  <2>4. rootB.state # "unreadable"
    BY <2>2 DEF IInv, CoreInv, DecisionInv
  <2>5. /\ rootA.phase = "complete"
        /\ rootA.img = rootB.img /\ rootA.fw = rootC.fw
        /\ rootA.state \in {"failed", rootB.state}
        /\ rootC.whole \/ rootA.state = "failed"
    BY <2>3 DEF IInv, CoreInv, RootAInv
  <2> QED BY <2>4, <2>5
<1> QED BY <1>1, Invariance, PTL DEF Spec, AckOnlyAfterBuild

\* What a session stored on STATE is never wiped: the only step that wipes is
\* the first rebuild of a new installation, before any session.
THEOREM DataIsKept == Spec => UserDataSurvives
<1>1. IInv /\ [Next]_vars =>
        (stateful.data /\ stateful.fs # "unformatted" => stateful'.data)
  <2> SUFFICES ASSUME IInv, [Next]_vars, stateful.data, stateful.fs # "unformatted"
               PROVE  stateful'.data
    OBVIOUS
  <2>1. CASE ApplyPatches
    <3>1. stateful.fs = "ext4"
      BY DEF IInv, CoreInv, FreshInv, TypeOK, DiskTypeOK
    <3> QED BY <2>1, <3>1 DEF ApplyPatches, FormatState
  <2>2. CASE SwitchRoot
    <3>1. CASE UNCHANGED stateful
      BY <3>1
    <3>2. CASE stateful' = [stateful EXCEPT !.data = TRUE]
      BY <3>2 DEF IInv, CoreInv, TypeOK, DiskTypeOK
    <3> QED BY <2>2, <3>1, <3>2 DEF SwitchRoot
  <2>3. CASE (Boot \/ Reboot) /\ ~ ApplyPatches /\ ~ SwitchRoot
    BY <2>3 DEF Boot, GrubLoads, GrubFails, BootStep, Decide, ProbeRootB, StartCopy,
       FinishCopy, UnmountRootA, RaiseKernA, LowerKernB, WriteRecord,
       WriteMd5sum, UnmountRootC, EditSettings, PowerLoss, Reboot, Restart,
       Down, diskVars
  <2>4. CASE (\E w \in Updaters : Session(w)) \/ Engine
    BY <2>4 DEF Session, Begin, UpdaterStep, StartFramework, FrameworkWritten,
       EfiWritten, LowerKernA, FrameworkDone, StartRootB, RootBWritten, RootBFailed,
       RecoveryDone, Abort, Engine, EngineStep, EngineStart, EngineVerify, EngineDone,
       diskVars
  <2>5. CASE UNCHANGED vars
    BY <2>5 DEF vars, diskVars
  <2> QED BY <2>1, <2>2, <2>3, <2>4, <2>5 DEF Next
<1> QED BY <1>1, Invariance, PTL DEF Spec, UserDataSurvives

(***************************************************************************)
(* The refinement.                                                         *)
(***************************************************************************)

\* A rebuild is owed under the protocol exactly when brunch-init decides one.
LEMMA OwedIsNeeded ==
  ASSUME NEW p
  PROVE  Protocol!Owed(p) <=> NeedsRebuild(p)
BY DEF Protocol!Owed, Vouched, NeedsRebuild, RecordDiffers

\* The protocol's variables change only through the four of the disk.
LEMMA ProtocolStutter ==
  ASSUME UNCHANGED <<rootA, recorded, md5sum, prio>>
  PROVE  UNCHANGED Protocol!protocolVars
BY DEF Protocol!protocolVars, Vouched, RecordMissing, Pending

\* So does one that only changes how well ROOT-A came out.
LEMMA PatchingStutters ==
  ASSUME IInv, FinishCopy \/ ApplyPatches
  PROVE  UNCHANGED Protocol!protocolVars
<1>1. UNCHANGED <<recorded, md5sum, prio>>
  BY DEF FinishCopy, ApplyPatches
<1>2. rootA'.phase = rootA.phase /\ rootA'.param = rootA.param
  BY DEF FinishCopy, ApplyPatches, IInv, CoreInv, TypeOK, DiskTypeOK
<1> QED
  BY <1>1, <1>2 DEF Protocol!protocolVars, Vouched, RecordMissing, Pending

\* A record that is not believed vouches for nothing.
LEMMA ForgetRefines ==
  ASSUME UNCHANGED <<rootA, prio>>, md5sum' # "match"
  PROVE  [Protocol!ProtocolNext]_(Protocol!protocolVars)
<1>1. Vouched' = {} /\ Pending' = Pending
  BY DEF Vouched, Pending
<1>2. Protocol!Forget
  BY <1>1 DEF Protocol!Forget
<1> QED BY <1>2 DEF Protocol!ProtocolNext

\* Writing back the record: all of it is a Commit, a part a Forget.
LEMMA FlushRefines ==
  ASSUME IInv, NEW s \in SUBSET dirty, Flush(s), UNCHANGED <<rootA, prio>>
  PROVE  [Protocol!ProtocolNext]_(Protocol!protocolVars)
<1>1. Pending' = Pending
  BY DEF Pending
<1>2. /\ \/ recorded' = recorded /\ md5sum' = md5sum
         \/ recorded' = boot.param /\ md5sum' = "match" /\ Rebuilt
         \/ md5sum' # "match" /\ Rebuilt
  BY FlushCases, DirtyMeansRebuilt DEF IInv, CoreInv, TypeOK
<1>3. CASE recorded' = recorded /\ md5sum' = md5sum
  BY <1>3, ProtocolStutter
<1>4. CASE recorded' = boot.param /\ md5sum' = "match" /\ Rebuilt
  <2>1. rootA.phase = "complete" /\ rootA.param = boot.param
    BY <1>4 DEF IInv, CoreInv, RootAInv
  <2>2. \A f \in RecordFiles : boot.param[f] # None
    BY ParamIsARecord DEF IInv, CoreInv, TypeOK, InitTypeOK
  <2>3. Vouched' = {rootA.param}
    BY <1>4, <2>1, <2>2 DEF Vouched, RecordMissing
  <2>4. Protocol!Commit
    BY <1>1, <2>1, <2>3 DEF Protocol!Commit
  <2> QED BY <2>4 DEF Protocol!ProtocolNext
<1>5. CASE md5sum' # "match"
  BY <1>5, ForgetRefines
<1> QED BY <1>2, <1>3, <1>4, <1>5

\* A step that can only make an update pending is an Announce.
LEMMA AnnounceRefines ==
  ASSUME UNCHANGED <<rootA, recorded, md5sum>>,
         Pending' \/ prio' = prio
  PROVE  [Protocol!ProtocolNext]_(Protocol!protocolVars)
<1>1. Vouched' = Vouched
  BY DEF Vouched, RecordMissing
<1>2. CASE prio' = prio
  BY <1>2, ProtocolStutter
<1>3. CASE Pending'
  <2>1. Pending' = TRUE
    BY <1>3 DEF Pending
  <2>2. Protocol!Announce
    BY <1>1, <2>1 DEF Protocol!Announce
  <2> QED BY <2>2 DEF Protocol!ProtocolNext
<1> QED BY <1>2, <1>3

\* brunch-init: StartCopy is Start, umount of ROOT-A is Complete, the second
\* cgpt call at the latest is Acknowledge.
LEMMA BootStepRefines ==
  ASSUME IInv, BootStep
  PROVE  [Protocol!ProtocolNext]_(Protocol!protocolVars)
<1>1. CASE StartCopy
  <2>1. Protocol!Owed(boot.param) /\ boot.param \in Params
    BY <1>1, OwedIsNeeded DEF StartCopy, GoTo, IInv, CoreInv, DecisionInv, TypeOK, InitTypeOK
  <2>2. rootA'.param = boot.param /\ rootA'.phase = "partial"
    BY <1>1 DEF StartCopy
  <2>3. Vouched' = Vouched /\ Pending' = Pending
    BY <1>1 DEF StartCopy, Vouched, RecordMissing, Pending
  <2>4. Protocol!Start
    BY <2>1, <2>2, <2>3 DEF Protocol!Start
  <2> QED BY <2>4 DEF Protocol!ProtocolNext
<1>2. CASE UnmountRootA
  <2>1. rootA'.param = rootA.param /\ rootA'.phase = "complete"
    BY <1>2 DEF UnmountRootA, IInv, CoreInv, TypeOK, DiskTypeOK
  <2>2. Vouched' = Vouched /\ Pending' = Pending
    BY <1>2 DEF UnmountRootA, Vouched, RecordMissing, Pending
  <2>3. Protocol!Complete
    BY <2>1, <2>2 DEF Protocol!Complete
  <2> QED BY <2>3 DEF Protocol!ProtocolNext
<1>3. CASE RaiseKernA \/ LowerKernB
  <2>1. UNCHANGED <<rootA, recorded, md5sum>>
    BY <1>3 DEF RaiseKernA, LowerKernB
  <2>2. CASE Pending'
    BY <2>1, <2>2, AnnounceRefines
  <2>3. CASE ~ Pending'
    <3>1. rootA.phase = "complete"
      BY <1>3 DEF RaiseKernA, LowerKernB, GoTo, IInv, CoreInv, RootAInv, Rebuilt, Recording
    <3>2. Vouched' = Vouched
      BY <2>1 DEF Vouched, RecordMissing
    <3>3. Pending' = FALSE
      BY <2>3 DEF Pending
    <3>4. Protocol!Acknowledge
      BY <2>1, <3>1, <3>2, <3>3 DEF Protocol!Acknowledge
    <3> QED BY <3>4 DEF Protocol!ProtocolNext
  <2> QED BY <2>2, <2>3
<1>4. CASE UnmountRootC
  <2>1. Flush(dirty) /\ UNCHANGED <<rootA, prio>>
    BY <1>4 DEF UnmountRootC
  <2>2. dirty \in SUBSET dirty
    OBVIOUS
  <2> QED BY <2>1, <2>2, FlushRefines
<1>5. CASE FinishCopy \/ ApplyPatches
  BY <1>5, PatchingStutters
<1>6. CASE \/ Decide \/ ProbeRootB
           \/ WriteRecord("debug", "kernel_version")
           \/ WriteRecord("kernel_version", "options")
           \/ WriteRecord("options", "sum")
           \/ WriteMd5sum \/ SwitchRoot
  BY <1>6, ProtocolStutter DEF Decide, ProbeRootB, WriteRecord, WriteMd5sum, SwitchRoot,
     diskVars
<1> QED BY <1>1, <1>2, <1>3, <1>4, <1>5, <1>6 DEF BootStep

\* The machine going off is a Commit, a Forget or nothing.
LEMMA DownRefines ==
  ASSUME IInv, NEW s \in SUBSET dirty, Down(s)
  PROVE  [Protocol!ProtocolNext]_(Protocol!protocolVars)
BY FlushRefines DEF Down

\* chromeos-update and update_engine announce, and a new framework forgets.
LEMMA SessionRefines ==
  ASSUME IInv, [Next]_vars,
         (\E w \in Updaters : Session(w)) \/ Engine
  PROVE  [Protocol!ProtocolNext]_(Protocol!protocolVars)
<1>1. pc = "running"
  BY DEF Session, Engine, InSession
<1>2. Pending' \/ prio' = prio
  <2>1. ~ RaiseKernA /\ ~ LowerKernB
    BY <1>1 DEF RaiseKernA, LowerKernB, GoTo
  <2> QED BY <2>1, PrioritySteps DEF Pending, IInv
<1>3. CASE \E w \in Updaters : StartFramework(w) \/ FrameworkWritten(w)
  <2>1. UNCHANGED <<rootA, prio>>
    BY <1>3 DEF StartFramework, FrameworkWritten
  <2>2. UNCHANGED <<recorded, md5sum>> \/ md5sum' # "match"
    BY <1>3 DEF StartFramework, FrameworkWritten, Stale
  <2> QED BY <2>1, <2>2, ForgetRefines, ProtocolStutter
<1>4. CASE ~ \E w \in Updaters : StartFramework(w) \/ FrameworkWritten(w)
  <2>1. UNCHANGED <<rootA, recorded, md5sum>>
    BY <1>4 DEF Session, Begin, UpdaterStep, EfiWritten, LowerKernA,
       FrameworkDone, StartRootB, RootBWritten, RootBFailed, RecoveryDone, Abort,
       Engine, EngineStep, EngineStart, EngineVerify, EngineDone, diskVars
  <2> QED BY <1>2, <2>1, AnnounceRefines
<1> QED BY <1>3, <1>4

\* Every step of a brunch machine is a step of the redo transaction or none.
LEMMA NextRefines ==
  IInv /\ [Next]_vars => [Protocol!ProtocolNext]_(Protocol!protocolVars)
<1> SUFFICES ASSUME IInv, [Next]_vars
             PROVE  [Protocol!ProtocolNext]_(Protocol!protocolVars)
  OBVIOUS
<1>1. CASE BootStep
  BY <1>1, BootStepRefines
<1>2. CASE PowerLoss \/ Reboot
  <2>1. PICK s \in SUBSET dirty : Down(s)
    <3>1. CASE PowerLoss
      BY <3>1 DEF PowerLoss
    <3>2. CASE Reboot
      <4>1. Down(dirty) /\ dirty \in SUBSET dirty
        BY <3>2 DEF Reboot, Restart
      <4> QED BY <4>1
    <3> QED BY <1>2, <3>1, <3>2
  <2> QED BY <2>1, DownRefines
<1>3. CASE GrubLoads \/ GrubFails \/ EditSettings \/ UNCHANGED vars
  BY <1>3, ProtocolStutter DEF GrubLoads, GrubFails, EditSettings, vars, diskVars
<1>4. CASE (\E w \in Updaters : Session(w)) \/ Engine
  BY <1>4, SessionRefines
<1> QED BY <1>1, <1>2, <1>3, <1>4 DEF Next, Boot

\* A new installation owes its first build to everybody.
LEMMA InitRefines == Init => Protocol!ProtocolInit
<1> SUFFICES ASSUME Init PROVE Protocol!ProtocolInit
  OBVIOUS
<1>1. rootA.phase = "partial" /\ Vouched = {} /\ Pending = FALSE
  BY DEF Init, DiskInit, Vouched, RecordMissing, Pending
<1>2. rootA.param \in Params
  BY InitIInv DEF IInv, CoreInv, TypeOK, DiskTypeOK
<1> QED BY <1>1, <1>2 DEF Protocol!ProtocolInit

\* The scripts implement RebuildProtocol.
THEOREM Refinement == Spec => ImplementsProtocol
<1>1. Init => Protocol!ProtocolInit
  BY InitRefines
<1>2. IInv /\ [Next]_vars => [Protocol!ProtocolNext]_(Protocol!protocolVars)
  BY NextRefines
<1> QED
  BY <1>1, <1>2, Invariance, PTL DEF Spec, ImplementsProtocol, Protocol!ProtocolSpec

=============================================================================
