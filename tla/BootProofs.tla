------------------------------ MODULE BootProofs ------------------------------
(***************************************************************************)
(* Which disk brunch-init boots from and which settings it finds there:    *)
(* the scan for any number of disks, any order in which they appear and    *)
(* every command line, and settings.cfg, which never mixes two             *)
(* selections, for all values a selection may have.                        *)
(***************************************************************************)
EXTENDS BrunchSetup, Discovery, TLAPS

-----------------------------------------------------------------------------
(***************************************************************************)
(* The scan.                                                               *)
(***************************************************************************)

\* The scan starts from nothing.
LEMMA InitScan == DiscoveryInit => DiscoveryTypeOK /\ ScanInv
<1> SUFFICES ASSUME DiscoveryInit PROVE DiscoveryTypeOK /\ ScanInv
    OBVIOUS
<1> USE DiscoveryAssumption
<1>1. DiscoveryTypeOK
  <2>1. holders \in SUBSET Disks
      BY DEF DiscoveryInit
  <2>2. timer \in Nat /\ 1 \in 1 .. Last + 1 /\ NoDisk \in 0 .. Last + 1
      BY DEF DiscoveryInit, NoDisk
  <2> QED BY <2>1, <2>2 DEF DiscoveryInit, DiscoveryTypeOK
<1>2. ScanInv
    BY DEF DiscoveryInit, ScanInv
<1> QED BY <1>1, <1>2

\* Every step keeps the types.
LEMMA TypeStep == DiscoveryTypeOK /\ [DiscoveryNext]_discoveryVars => DiscoveryTypeOK'
<1> SUFFICES ASSUME DiscoveryTypeOK, [DiscoveryNext]_discoveryVars PROVE DiscoveryTypeOK'
    OBVIOUS
<1> USE DiscoveryAssumption DEF DiscoveryTypeOK
<1>1. CASE Start
    BY <1>1 DEF Start, Jump, machine
<1>2. CASE FindPartition \/ Retry \/ GiveUp
    BY <1>2 DEF FindPartition, Retry, GiveUp, Jump, machine
<1>3. CASE OpenImage
    BY <1>3 DEF OpenImage, Jump, Sdz, machine
<1>4. CASE ListDisks \/ EndScan \/ Check
    BY <1>4 DEF ListDisks, EndScan, Check, Jump, machine
<1>5. CASE Pass \/ FoundRemovable \/ FoundFixed
    BY <1>5 DEF Pass, FoundRemovable, FoundFixed, Jump, machine
<1>6. CASE \E d \in Disks : Appear(d)
    BY <1>6 DEF Appear, machine
<1>7. CASE UNCHANGED discoveryVars
    BY <1>7 DEF discoveryVars, machine
<1> QED
    BY <1>1, <1>2, <1>3, <1>4, <1>5, <1>6, <1>7 DEF DiscoveryNext, Script

\* Every step accounts for the disk it passes.
LEMMA ScanStep == DiscoveryTypeOK /\ ScanInv /\ [DiscoveryNext]_discoveryVars => ScanInv'
<1> SUFFICES ASSUME DiscoveryTypeOK, ScanInv, [DiscoveryNext]_discoveryVars PROVE ScanInv'
    OBVIOUS
<1> USE DiscoveryAssumption DEF Jump, machine, NoDisk, Sdz, Patience
<1>1. CASE Start
    BY <1>1 DEF Start, ScanInv
<1>2. CASE FindPartition \/ Retry \/ GiveUp
    BY <1>2 DEF FindPartition, Retry, GiveUp, ScanInv
<1>3. CASE OpenImage
    BY <1>3 DEF OpenImage, ScanInv
<1>4. CASE ListDisks
  <2>1. Scanned' = {}
      BY <1>4 DEF ListDisks, ScanInv, Scanned, Found, Disks
  <2> QED BY <1>4, <2>1 DEF ListDisks, ScanInv
<1>5. ASSUME stage = "scan", UNCHANGED <<machine, listed>>
      PROVE Found' = Found /\ Removables' = Removables
    BY <1>5 DEF Found, Removables, Candidate, Disks
<1>6. CASE Pass
  <2>1. Scanned' = Scanned
      BY <1>5, <1>6 DEF Pass, Scanned, Found, Disks, DiscoveryTypeOK
  <2> QED BY <1>6, <2>1 DEF Pass, ScanInv
<1>7. CASE FoundRemovable
  <2>1. next \in Removables /\ next \in Disks
      BY <1>7 DEF FoundRemovable, Removables, Found, Disks, DiscoveryTypeOK
  <2>2. \A d \in Removables : next <= d
      BY <1>7 DEF FoundRemovable, Removables, Found, Scanned, Disks, DiscoveryTypeOK, ScanInv
  <2>3. Chosen'
      BY <1>5, <1>7, <2>1, <2>2 DEF FoundRemovable, Chosen
  <2> QED BY <1>7, <2>1, <2>3 DEF FoundRemovable, ScanInv, Disks
<1>8. CASE FoundFixed
  <2>1. Scanned' = Scanned \cup {next}
      BY <1>5, <1>8 DEF FoundFixed, Scanned, Found, Disks, DiscoveryTypeOK
  <2>2. \A d \in Scanned' : ~ disk[d].removable /\ d <= next
      BY <1>8, <2>1 DEF FoundFixed, ScanInv, Scanned, Found, Disks, DiscoveryTypeOK
  <2> QED BY <1>8, <2>1, <2>2 DEF FoundFixed, ScanInv
<1>9. CASE EndScan
  <2>1. Scanned = Found
      BY <1>9 DEF EndScan, Scanned, Found, Disks
  <2>2. Chosen
      BY <1>9, <2>1 DEF EndScan, ScanInv, Chosen, Removables, Found, Disks
  <2>3. Chosen'
      BY <1>5, <1>9, <2>2 DEF EndScan, Chosen
  <2> QED BY <1>9, <2>3 DEF EndScan, ScanInv
<1>10. ASSUME UNCHANGED <<machine, listed, next, bootdevice>>
       PROVE (Chosen <=> Chosen') /\ Scanned' = Scanned
  <2>1. Found' = Found /\ Removables' = Removables
      BY <1>10 DEF Found, Removables, Candidate, Disks
  <2> QED BY <1>10, <2>1 DEF Chosen, Scanned
<1>11. CASE Check
    BY <1>10, <1>11 DEF Check, ScanInv
<1>12. CASE \E d \in Disks : Appear(d)
    BY <1>10, <1>12 DEF Appear, ScanInv
<1>13. CASE UNCHANGED discoveryVars
    BY <1>10, <1>13 DEF discoveryVars, ScanInv
<1> QED
    BY <1>1, <1>2, <1>3, <1>4, <1>6, <1>7, <1>8, <1>9, <1>11, <1>12, <1>13
       DEF DiscoveryNext, Script

\* What the scan ends with is what it prefers.
LEMMA ScanChooses == DiscoveryTypeOK /\ ScanInv => ScanPrefersRemovable
<1> SUFFICES ASSUME DiscoveryTypeOK, ScanInv PROVE ScanPrefersRemovable
    OBVIOUS
<1>1. \A d \in Disks : d # NoDisk
    BY DEF Disks, NoDisk
<1>2. Removables \subseteq Found /\ Found \subseteq Disks
    BY DEF Removables, Found
<1> QED BY <1>1, <1>2 DEF ScanPrefersRemovable, ScanInv, Chosen

\* brunch-init, 22-103: the invariant of the scan holds for any number of
\* disks, whatever else is found while it runs.
THEOREM DiscoveryInvariance == DiscoverySpec => []DiscoveryInv
<1>1. DiscoveryInit => DiscoveryTypeOK /\ ScanInv
    BY InitScan
<1>2. DiscoveryTypeOK /\ ScanInv /\ [DiscoveryNext]_discoveryVars => (DiscoveryTypeOK /\ ScanInv)'
    BY TypeStep, ScanStep
<1>3. DiscoveryTypeOK /\ ScanInv => DiscoveryInv
    BY ScanChooses DEF DiscoveryInv
<1> QED BY <1>1, <1>2, <1>3, PTL DEF DiscoverySpec

\* brunch-init, 86-100: the scan ends with the first listed installation on a
\* removable disk, or else with the last one.
THEOREM RemovableFirst == DiscoverySpec => []ScanPrefersRemovable
<1>1. DiscoveryInv => ScanPrefersRemovable
    BY DEF DiscoveryInv
<1> QED BY <1>1, DiscoveryInvariance, PTL

\* Every step of the script takes it nearer to its end: the polls are counted
\* down, the disks are passed once, and a disk that appears changes neither.
THEOREM DiscoveryAdvances == DiscoverySpec => ScriptAdvances
<1> DEFINE Advance == /\ ScriptLeft \in Nat
                      /\ Script => ScriptLeft' < ScriptLeft
                      /\ ~ Script => ScriptLeft' = ScriptLeft
<1>1. DiscoveryInv /\ [DiscoveryNext]_discoveryVars => [Advance]_discoveryVars
  <2> SUFFICES ASSUME DiscoveryInv, DiscoveryNext PROVE Advance
      OBVIOUS
  <2> USE DiscoveryAssumption DEF Jump, Patience
  <2>1. ScriptLeft \in Nat
      BY DEF DiscoveryInv, DiscoveryTypeOK, ScanInv, ScriptLeft
  <2>2. ASSUME Start \/ FindPartition \/ Retry \/ GiveUp \/ OpenImage PROVE ScriptLeft' < ScriptLeft
      BY <2>2 DEF Start, FindPartition, Retry, GiveUp, OpenImage, ScriptLeft,
                  DiscoveryInv, DiscoveryTypeOK, ScanInv
  <2>3. ASSUME ListDisks \/ Pass \/ FoundRemovable \/ FoundFixed \/ EndScan \/ Check
        PROVE  ScriptLeft' < ScriptLeft
      BY <2>3 DEF ListDisks, Pass, FoundRemovable, FoundFixed, EndScan, Check, ScriptLeft,
                  DiscoveryInv, DiscoveryTypeOK, ScanInv
  <2>4. ASSUME \E d \in Disks : Appear(d) PROVE ScriptLeft' = ScriptLeft
      BY <2>4 DEF Appear, ScriptLeft
  <2> QED BY <2>1, <2>2, <2>3, <2>4 DEF DiscoveryNext, Script
<1> QED BY <1>1, DiscoveryInvariance, PTL DEF DiscoverySpec, ScriptAdvances

-----------------------------------------------------------------------------
(***************************************************************************)
(* The settings.                                                           *)
(***************************************************************************)

\* The five lines of settings.cfg are different ones.
LEMMA FieldsDiffer ==
  /\ \A i \in 1 .. 5 : Fields[i] \in Field
  /\ \A i, j \in 1 .. 5 : Fields[i] = Fields[j] => i = j
  /\ \A f \in Field : \E i \in 1 .. 5 : f = Fields[i]
<1>1. \A i \in 1 .. 5 : i = 1 \/ i = 2 \/ i = 3 \/ i = 4 \/ i = 5
  OBVIOUS
<1>2. \A i, j \in 1 .. 5 : Fields[i] = Fields[j] => i = j
  BY <1>1 DEF Fields
<1> QED
  BY <1>2 DEF Field

\* template.cfg, an empty file and none are files without a selection.
LEMMA PlainFiles ==
  \A c \in {Template, Empty, Missing} : c \in File /\ OneSelection(c)
BY DEF Template, Empty, Missing, File, OneSelection

LEMMA InitSetup == Init => SetupInv
<1> SUFFICES ASSUME Init PROVE SetupInv
  OBVIOUS
<1>1. TypeOK
  <2>1. select \in Selection
    <3>1. PICK v \in Values : select = [value |-> v, fields |-> {}, unsafe |-> FALSE]
      BY DEF Init
    <3> QED
      BY <3>1 DEF Selection
  <2>2. /\ pc = "grub" /\ file = Template /\ maybe = {Template} /\ step = 0
        /\ saved = FALSE /\ copied = FALSE /\ mixed = FALSE
    BY DEF Init
  <2>3. file \in File /\ maybe \in SUBSET File /\ step \in 0 .. 5
    BY <2>2, PlainFiles
  <2>4. pc \in {"grub", "session", "menus", "copy", "sed", "umount"}
    BY <2>2
  <2>5. saved \in BOOLEAN /\ copied \in BOOLEAN /\ mixed \in BOOLEAN
    BY <2>2
  <2> QED
    BY <2>1, <2>3, <2>4, <2>5 DEF TypeOK
<1>2. EditInv /\ ProgressInv /\ SavedAsSelected
  BY DEF Init, EditInv, ProgressInv, SavedAsSelected
<1>3. NoMixture
  BY PlainFiles DEF Init, NoMixture
<1> QED
  BY <1>1, <1>2, <1>3 DEF SetupInv

\* Writing a file that has one selection keeps all that may be on the disk so.
LEMMA ReplaceKeeps ==
  ASSUME TypeOK, NoMixture, NEW new \in File, mixed \/ OneSelection(new), Replace(new),
         mixed' = mixed
  PROVE  file' \in File /\ maybe' \in SUBSET File /\ file' \in maybe' /\ NoMixture'
<1>1. file' = new /\ maybe' = maybe \cup {new, Empty, Missing}
  BY DEF Replace
<1>2. file' \in File /\ maybe' \in SUBSET File /\ file' \in maybe'
  BY <1>1, PlainFiles DEF TypeOK
<1>3. mixed \/ \A c \in maybe' \cup {file'} : OneSelection(c)
  BY <1>1, PlainFiles DEF NoMixture
<1> QED
  BY <1>2, <1>3 DEF NoMixture, OneSelection

\* What a substitution makes of a file.
After(f) ==
  IF Usable /\ file.val[f] = Default THEN [file EXCEPT !.val[f] = Wanted.val[f]] ELSE file

\* It is a file, whatever was there before.
LEMMA AfterIsFile ==
  ASSUME TypeOK, NEW f \in Field
  PROVE  /\ After(f) \in File
         /\ Usable /\ file.val[f] = Default =>
              /\ After(f).kind = "text"
              /\ \A g \in Field :
                   After(f).val[g] = IF g = f THEN Wanted.val[f] ELSE file.val[g]
<1>1. file \in File /\ Wanted.val[f] \in Values \cup {Default}
  BY DEF TypeOK, Wanted, Selection
<1>2. CASE Usable /\ file.val[f] = Default
  <2>1. After(f) = [file EXCEPT !.val = [file.val EXCEPT ![f] = Wanted.val[f]]]
    BY <1>2 DEF After
  <2> QED
    BY <1>1, <1>2, <2>1 DEF File, Usable
<1>3. CASE ~ (Usable /\ file.val[f] = Default)
  <2>1. After(f) = file
    BY <1>3 DEF After
  <2> QED
    BY <1>1, <1>3, <2>1
<1> QED
  BY <1>2, <1>3

\* A substitution writes its own field, with Default or the selected value; on a
\* file that cp did not make, whatever it finds.
LEMMA SubstituteSetup ==
  ASSUME SetupInv, Substitute
  PROVE  SetupInv'
<1> DEFINE f == Fields[step + 1]
<1> USE SetupAssumption
<1>1. /\ pc = "sed" /\ step \in 0 .. 4 /\ step' = step + 1 /\ pc' = pc
      /\ select' = select /\ saved' = saved /\ copied' = copied /\ mixed' = mixed
  BY DEF Substitute, SetupInv, TypeOK
<1>2. f \in Field /\ step + 1 \in 1 .. 5
  BY <1>1, FieldsDiffer
<1>3. TypeOK /\ EditInv /\ ProgressInv /\ NoMixture /\ SavedAsSelected
  BY DEF SetupInv
<1>4. ~ saved /\ (copied \/ mixed)
  BY <1>1, <1>3 DEF EditInv, ProgressInv
<1>5. SavedAsSelected'
  BY <1>1, <1>4 DEF SavedAsSelected
<1>6. \/ (SedFails(f) \/ file.kind = "missing") /\ UNCHANGED <<file, maybe>>
      \/ ~ SedFails(f) /\ file.kind # "missing" /\ Replace(After(f))
  BY DEF Substitute, After
<1>7. CASE ~ copied
  <2>1. file' \in File /\ maybe' \in SUBSET File /\ file' \in maybe' /\ NoMixture'
    <3>1. CASE UNCHANGED <<file, maybe>>
      BY <1>1, <1>3, <3>1 DEF TypeOK, EditInv, NoMixture, OneSelection
    <3>2. CASE Replace(After(f))
      BY <1>1, <1>2, <1>3, <1>4, <1>7, <3>2, AfterIsFile, ReplaceKeeps
    <3> QED
      BY <1>6, <3>1, <3>2
  <2>2. TypeOK'
    BY <1>1, <1>2, <1>3, <2>1 DEF TypeOK
  <2>3. EditInv' /\ ProgressInv'
    BY <1>1, <1>3, <1>4, <1>7, <2>1 DEF EditInv, ProgressInv
  <2> QED
    BY <1>5, <2>1, <2>2, <2>3 DEF SetupInv
<1>8. CASE copied
  <2>1. file \in File /\ select \in Selection /\ Usable /\ file.val[f] = Default
    <3>1. ~ (step + 1 <= step)
      BY <1>1
    <3> QED
      BY <1>1, <1>2, <1>3, <1>8, <3>1 DEF TypeOK, EditInv, ProgressInv
  <2>2. Wanted.val[f] \in {Default, select.value}
    BY <1>2 DEF Wanted
  <2>3. CASE SedFails(f)
    <3>1. file' = file /\ maybe' = maybe
      BY <1>6, <2>3
    <3>2. TypeOK' /\ EditInv'
      BY <1>1, <1>3, <3>1 DEF TypeOK, EditInv, Usable
    <3>3. ProgressInv'
      <4>1. \A i \in 1 .. 5 : file.val[Fields[i]] =
              IF i <= step + 1 /\ ~ SedFails(Fields[i]) THEN Wanted.val[Fields[i]] ELSE Default
        <5> SUFFICES ASSUME NEW i \in 1 .. 5
                     PROVE  file.val[Fields[i]] = IF i <= step + 1 /\ ~ SedFails(Fields[i])
                                                  THEN Wanted.val[Fields[i]] ELSE Default
          OBVIOUS
        <5>1. i = step + 1 \/ (i <= step + 1 <=> i <= step)
          BY <1>1
        <5> QED
          BY <1>1, <1>3, <1>8, <2>1, <2>3, <5>1 DEF ProgressInv
      <4>2. \A g \in Field : SedFails(g)' = SedFails(g)
        BY <1>1 DEF SedFails
      <4>3. Wanted' = Wanted
        BY <1>1 DEF Wanted
      <4> QED
        BY <1>1, <1>4, <3>1, <4>1, <4>2, <4>3, FieldsDiffer DEF ProgressInv
    <3>4. NoMixture'
      BY <1>1, <1>3, <3>1 DEF NoMixture, OneSelection
    <3> QED
      BY <1>5, <3>2, <3>3, <3>4 DEF SetupInv
  <2>4. CASE ~ SedFails(f)
    <3>1. Replace(After(f))
      BY <1>6, <2>1, <2>4 DEF Usable
    <3>2. /\ After(f) \in File /\ After(f).kind = "text"
          /\ \A g \in Field :
               After(f).val[g] = IF g = f THEN Wanted.val[f] ELSE file.val[g]
      BY <1>2, <1>3, <2>1, AfterIsFile
    <3>3. \A g \in Field : After(f).val[g] \in {Default, select.value}
      BY <1>3, <1>8, <2>2, <3>2 DEF EditInv
    <3>4. OneSelection(After(f))
      BY <3>3 DEF OneSelection
    <3>5. file' = After(f) /\ file' \in File /\ maybe' \in SUBSET File /\ file' \in maybe' /\ NoMixture'
      BY <1>1, <1>3, <3>1, <3>2, <3>4, ReplaceKeeps DEF Replace
    <3>6. TypeOK' /\ EditInv'
      BY <1>1, <1>2, <1>3, <1>8, <3>2, <3>3, <3>5 DEF TypeOK, EditInv, Usable
    <3>7. ProgressInv'
      <4>1. \A i \in 1 .. 5 : After(f).val[Fields[i]] =
              IF i <= step + 1 /\ ~ SedFails(Fields[i]) THEN Wanted.val[Fields[i]] ELSE Default
        <5> SUFFICES ASSUME NEW i \in 1 .. 5
                     PROVE  After(f).val[Fields[i]] = IF i <= step + 1 /\ ~ SedFails(Fields[i])
                                                      THEN Wanted.val[Fields[i]] ELSE Default
          OBVIOUS
        <5>1. CASE i = step + 1
          BY <1>2, <2>4, <3>2, <5>1
        <5>2. CASE i # step + 1
          <6>1. Fields[i] # f /\ (i <= step + 1 <=> i <= step)
            BY <1>1, <1>2, <5>2, FieldsDiffer
          <6> QED
            BY <1>1, <1>3, <1>8, <3>2, <6>1, FieldsDiffer DEF ProgressInv
        <5> QED
          BY <5>1, <5>2
      <4>2. \A g \in Field : SedFails(g)' = SedFails(g)
        BY <1>1 DEF SedFails
      <4>3. Wanted' = Wanted
        BY <1>1 DEF Wanted
      <4> QED
        BY <1>1, <1>4, <3>5, <4>1, <4>2, <4>3, FieldsDiffer DEF ProgressInv
    <3> QED
      BY <1>5, <3>5, <3>6, <3>7 DEF SetupInv
  <2> QED
    BY <2>3, <2>4
<1> QED
  BY <1>7, <1>8

\* cp starts a new file, of which every field is the default.
LEMMA CopySetup ==
  ASSUME SetupInv, CopyTemplate
  PROVE  SetupInv'
<1>1. TypeOK /\ EditInv /\ ProgressInv /\ NoMixture
  BY DEF SetupInv
<1>2. /\ pc = "copy" /\ pc' = "sed" /\ step' = step /\ step = 0 /\ select' = select
      /\ saved' = saved /\ ~ saved /\ copied' = TRUE /\ mixed' = mixed
  BY <1>1 DEF CopyTemplate, GoTo, EditInv, ProgressInv
<1>3. file' = Template /\ file' \in File /\ maybe' \in SUBSET File /\ file' \in maybe' /\ NoMixture'
  BY <1>1, <1>2, PlainFiles, ReplaceKeeps DEF CopyTemplate, Replace
<1>4. TypeOK' /\ EditInv'
  BY <1>1, <1>2, <1>3 DEF TypeOK, EditInv, Template, Usable
<1>5. ProgressInv' /\ SavedAsSelected'
  <2>1. \A i \in 1 .. 5 : Template.val[Fields[i]] = Default /\ ~ (i <= 0)
    BY FieldsDiffer DEF Template
  <2> QED
    BY <1>1, <1>2, <1>3, <2>1 DEF ProgressInv, SavedAsSelected
<1> QED
  BY <1>3, <1>4, <1>5 DEF SetupInv

\* A cp that fails, or is killed, leaves the file or an empty one, and nothing is
\* promised of the edit.
LEMMA CutShortSetup ==
  ASSUME SetupInv, CutShort, pc = "copy", pc' \in {"sed", "umount"},
         UNCHANGED <<step, select, saved, copied>>,
         mixed' \in BOOLEAN, mixed => mixed', pc' = "sed" => mixed'
  PROVE  SetupInv'
<1>1. TypeOK /\ EditInv /\ ProgressInv /\ NoMixture
  BY DEF SetupInv
<1>2. ~ saved /\ ~ copied
  BY <1>1 DEF EditInv, ProgressInv
<1>3. /\ file' \in maybe' /\ maybe' \subseteq maybe \cup {Empty, Missing}
      /\ file' \in File /\ maybe' \in SUBSET File
  BY <1>1, PlainFiles DEF CutShort, Replace, TypeOK, EditInv
<1>4. TypeOK'
  BY <1>1, <1>3 DEF TypeOK
<1>5. EditInv' /\ ProgressInv' /\ SavedAsSelected'
  BY <1>2, <1>3 DEF EditInv, ProgressInv, SavedAsSelected
<1>6. NoMixture'
  <2>1. mixed' \/ \A c \in maybe' \cup {file'} : OneSelection(c)
    BY <1>1, <1>3, PlainFiles DEF NoMixture
  <2> QED
    BY <2>1 DEF NoMixture, OneSelection
<1> QED
  BY <1>4, <1>5, <1>6 DEF SetupInv

\* When the file of an edit is on the disk, there is nothing else left on it.
LEMMA UnmountSetup ==
  ASSUME SetupInv, Unmount
  PROVE  SetupInv'
<1>1. TypeOK /\ EditInv /\ ProgressInv /\ NoMixture /\ SavedAsSelected
  BY DEF SetupInv
<1>2. /\ pc' = "grub" /\ maybe' = {file} /\ mixed' = (mixed /\ ~ copied)
      /\ UNCHANGED <<file, step, select, saved, copied>>
  BY DEF Unmount, GoTo
<1>3. TypeOK' /\ EditInv' /\ ProgressInv'
  BY <1>1, <1>2 DEF TypeOK, EditInv, ProgressInv, Usable
<1>4. mixed' \/ OneSelection(file)
  <2>1. CASE copied
    <3>1. \A f \in Field : file.val[f] \in {Default, select.value}
      BY <1>1, <2>1 DEF EditInv
    <3> QED
      BY <3>1 DEF OneSelection
  <2>2. CASE ~ copied
    BY <1>1, <1>2, <2>2 DEF NoMixture
  <2> QED
    BY <2>1, <2>2
<1>5. NoMixture'
  BY <1>2, <1>4 DEF NoMixture, OneSelection
<1>6. SavedAsSelected'
  BY <1>1, <1>2 DEF SavedAsSelected, Usable, SedFails, Wanted
<1> QED
  BY <1>3, <1>5, <1>6 DEF SetupInv

\* "saved" is said when all five lines are written.
LEMMA FinishSetup ==
  ASSUME SetupInv, Finish
  PROVE  SetupInv'
<1>1. TypeOK /\ EditInv /\ ProgressInv /\ NoMixture
  BY DEF SetupInv
<1>2. /\ pc = "sed" /\ step = 5 /\ pc' = "umount"
      /\ UNCHANGED <<file, maybe, step, select, copied, mixed>> /\ saved' = TRUE
  BY DEF Finish, GoTo
<1>3. TypeOK' /\ EditInv' /\ ProgressInv'
  BY <1>1, <1>2 DEF TypeOK, EditInv, ProgressInv, Usable
<1>4. NoMixture'
  BY <1>1, <1>2 DEF NoMixture, OneSelection
<1>5. copied => /\ Usable
                /\ \A f \in Field : file.val[f] = IF SedFails(f) THEN Default ELSE Wanted.val[f]
  <2>1. copied => \A i \in 1 .. 5 : file.val[Fields[i]] =
                     IF SedFails(Fields[i]) THEN Default ELSE Wanted.val[Fields[i]]
    BY <1>1, <1>2 DEF ProgressInv
  <2> QED
    BY <1>1, <2>1, FieldsDiffer DEF EditInv
<1>6. SavedAsSelected'
  BY <1>2, <1>5 DEF SavedAsSelected, Usable, SedFails, Wanted
<1> QED
  BY <1>3, <1>4, <1>6 DEF SetupInv

\* The actions that do not write settings.cfg.
LEMMA OtherSetup ==
  ASSUME SetupInv,
         \/ BootChromeOS \/ BootSettings \/ EditInSession \/ Restart \/ UNCHANGED vars
         \/ (Interrupt /\ pc # "copy")
  PROVE  SetupInv'
<1>1. /\ UNCHANGED <<file, maybe, step, select, saved, copied, mixed>>
      /\ pc' = pc \/ pc' \in {"grub", "session", "menus", "umount"}
  BY DEF BootChromeOS, BootSettings, EditInSession, Interrupt, Restart, vars, GoTo
<1>2. TypeOK' /\ EditInv'
  BY <1>1 DEF SetupInv, TypeOK, EditInv, Usable
<1>3. NoMixture' /\ SavedAsSelected'
  BY <1>1 DEF SetupInv, NoMixture, OneSelection, SavedAsSelected, Usable, SedFails, Wanted
<1>4. ProgressInv'
  BY <1>1 DEF SetupInv, ProgressInv, SedFails, Wanted
<1> QED
  BY <1>2, <1>3, <1>4 DEF SetupInv

\* A new selection, and a power loss, end what was promised of the last edit.
LEMMA NewEditSetup ==
  ASSUME SetupInv, Select \/ PowerLoss
  PROVE  SetupInv'
<1>1. TypeOK /\ EditInv /\ ProgressInv /\ NoMixture
  BY DEF SetupInv
<1>2. /\ ~ saved' /\ ~ copied' /\ saved' \in BOOLEAN /\ copied' \in BOOLEAN /\ mixed' = mixed
      /\ pc' \in {"grub", "copy"} /\ (pc' = "copy" => step' = 0)
      /\ file' \in maybe' /\ maybe' \subseteq maybe /\ step' \in 0 .. 5
  <2>1. CASE Select
    <3>1. /\ pc' = "copy" /\ step' = 0 /\ saved' = FALSE /\ copied' = FALSE
          /\ UNCHANGED <<file, maybe, mixed>>
      BY <2>1 DEF Select, GoTo
    <3>2. /\ saved' \in BOOLEAN /\ copied' \in BOOLEAN
          /\ pc' \in {"grub", "copy"} /\ ~ saved' /\ ~ copied'
      BY <3>1, Zenon
    <3>3. step' \in 0 .. 5
      BY <3>1, SMT
    <3> QED
      BY <1>1, <3>1, <3>2, <3>3 DEF EditInv
  <2>2. CASE PowerLoss
    BY <1>1, <2>2 DEF PowerLoss, TypeOK
  <2> QED
    BY <2>1, <2>2
<1>3. select' \in Selection
  <2>1. CASE Select
    <3>1. PICK v \in Values, fs \in SUBSET Field, u \in BOOLEAN :
            select' = [value |-> v, fields |-> fs, unsafe |-> u]
      BY <2>1 DEF Select
    <3> QED
      BY <3>1 DEF Selection
  <2>2. CASE PowerLoss
    BY <1>1, <2>2 DEF PowerLoss, TypeOK
  <2> QED
    BY <2>1, <2>2
<1>4. TypeOK'
  BY <1>1, <1>2, <1>3 DEF TypeOK
<1>5. EditInv' /\ ProgressInv' /\ SavedAsSelected'
  BY <1>2 DEF EditInv, ProgressInv, SavedAsSelected
<1>6. NoMixture'
  BY <1>1, <1>2 DEF NoMixture, OneSelection
<1> QED
  BY <1>4, <1>5, <1>6 DEF SetupInv

LEMMA NextSetup == SetupInv /\ [Next]_vars => SetupInv'
<1> SUFFICES ASSUME SetupInv, [Next]_vars PROVE SetupInv'
  OBVIOUS
<1>1. CASE CopyFails
  BY <1>1, CutShortSetup DEF CopyFails, GoTo
<1>2. CASE Interrupt /\ pc = "copy"
  BY <1>2, CutShortSetup DEF Interrupt, SetupInv, TypeOK
<1>3. CASE ~ CopyFails /\ ~ (Interrupt /\ pc = "copy")
  BY <1>3, SubstituteSetup, CopySetup, UnmountSetup, FinishSetup, OtherSetup, NewEditSetup
     DEF Next, Setup
<1> QED
  BY <1>1, <1>2, <1>3

\* Whatever fails, or is interrupted and begun again, what settings.cfg may hold
\* is explained by the last template and one selection, or by an edit whose cp
\* failed (brunch-setup, 266-271).
THEOREM SettingsInvariance == Spec => []SetupInv
BY InitSetup, NextSetup, PTL DEF Spec

\* No power loss and no Ctrl-C leaves the parts of two selections in
\* settings.cfg; only an edit whose cp failed does.
THEOREM NeverMixed == Spec => []NoMixture
<1>1. SetupInv => NoMixture
  BY DEF SetupInv
<1> QED
  BY SettingsInvariance, <1>1, PTL

\* "Brunch configuration saved." (273) is said of a file that has all that was
\* selected, but for parameters that sed did not take, if the cp worked.
THEOREM SavedIsWhole == Spec => []SavedAsSelected
<1>1. SetupInv => SavedAsSelected
  BY DEF SetupInv
<1> QED
  BY SettingsInvariance, <1>1, PTL

=============================================================================
