----------------------------- MODULE PwaProofs ------------------------------
(***************************************************************************)
(* An update that has the machine to itself hands over what was asked for, *)
(* for any number of releases and any failures of the commands that the    *)
(* scripts test for an error.                                              *)
(***************************************************************************)
EXTENDS PwaHelper, TLAPS

\* One process at a time, archives that are releases, and a bsdtar that works.
Alone ==
  /\ \A p, q \in Pages : p = q
  /\ Archives \subseteq Versions
  /\ "bsdtar" \notin Faults

\* A release is not the lack of one.
LEMMA Files ==
  ASSUME NEW v \in Versions
  PROVE  /\ AllOf(v) \in Contents /\ PartOf(v) \in Contents /\ NoFile \in Contents
         /\ AllOf(v).of = v /\ AllOf(v).whole = TRUE
         /\ PartOf(v).of = v
         /\ AllOf(v) # NoFile /\ PartOf(v) # NoFile /\ v # NoImage
BY PwaAssumption DEF AllOf, PartOf, NoFile, Contents

LEMMA NoFileType == NoFile \in Contents /\ EmptyDir \in [{"framework", "chromeos", "bin"} -> Contents]
BY DEF NoFile, EmptyDir, Contents

LEMMA InitPwa == Init => PwaInv
<1> SUFFICES ASSUME Init PROVE PwaInv
  OBVIOUS
<1>1. TypeOK
  <2>1. PICK v \in Versions : part = [k \in Kinds |-> AllOf(v)]
    BY DEF Init
  <2>2. part \in [Kinds -> Contents]
    BY <2>1, Files
  <2>3. pwa \in [{"framework", "chromeos", "bin"} -> Contents] /\ rootc \in Contents
        /\ src \in [Pages -> Contents]
    BY NoFileType DEF Init
  <2>4. pending \in BOOLEAN
    BY DEF Init
  <2>5. /\ pc \in [Pages -> {"read", "url", "curl", "unzip", "unzipping", "call", "extract",
                             "pv", "write", "flip", "return"}]
        /\ there \in BOOLEAN
        /\ want \in [Pages -> Kinds]
        /\ page \in [Pages -> BOOLEAN]
        /\ given \in [Pages -> Versions \cup {NoImage}]
        /\ linked \in [Pages -> BOOLEAN]
        /\ clean \in [Pages -> BOOLEAN]
        /\ told \in [Pages -> {"nothing", "failed", "offer"}]
    BY DEF Init, Kinds
  <2> QED
    BY <2>2, <2>3, <2>4, <2>5 DEF TypeOK
<1>2. Stages
  BY DEF Init, Stages
<1> QED
  BY <1>1, <1>2 DEF PwaInv

\* What a helper does before it calls chromeos-update.
LEMMA HelperTypes ==
  ASSUME TypeOK, NEW p \in Pages,
         \/ \E k \in Kinds : Ask(p, k)
         \/ NoSpace(p) \/ InstallGentoo(p) \/ Hangup(p) \/ Helper(p)
  PROVE  TypeOK'
<1> USE DEF TypeOK, GoTo, process, files, downloads
<1>1. CASE \E k \in Kinds : Ask(p, k)
  <2>1. PICK k \in Kinds : Ask(p, k)
    BY <1>1
  <2>2. pwa' \in [{"framework", "chromeos", "bin"} -> Contents] /\ there' \in BOOLEAN
    BY <2>1, NoFileType DEF Ask
  <2>3. linked' \in [Pages -> BOOLEAN]
    BY <2>1 DEF Ask, Unlinked
  <2>4. want' \in [Pages -> Kinds]
    BY <2>1 DEF Ask
  <2> QED
    BY <2>1, <2>2, <2>3, <2>4 DEF Ask
<1>2. CASE NoSpace(p) \/ Hangup(p) \/ DownloadFailed(p)
  BY <1>2 DEF NoSpace, Hangup, DownloadFailed
<1>3. CASE InstallGentoo(p) \/ Offer(p)
  <2>1. /\ pwa' \in [{"framework", "chromeos", "bin"} -> Contents]
        /\ there' \in BOOLEAN /\ linked' \in [Pages -> BOOLEAN]
    BY <1>3, NoFileType DEF InstallGentoo, Offer, Unlinked
  <2> QED
    BY <1>3, <2>1 DEF InstallGentoo, Offer
<1>4. CASE Downloaded(p)
  <2>1. AllOf(given[p]) \in Contents /\ NoFile \in Contents
    BY NoFileType DEF AllOf, Contents
  <2>2. pwa' \in [{"framework", "chromeos", "bin"} -> Contents]
    BY <1>4, <2>1 DEF Downloaded, Kinds
  <2> QED
    BY <1>4, <2>2 DEF Downloaded
<1>5. CASE Unzip(p)
  <2>1. PartOf(pwa["chromeos"].of) \in Contents /\ pwa["chromeos"] \in Contents
    BY DEF PartOf, Contents
  <2>2. pwa' \in [{"framework", "chromeos", "bin"} -> Contents]
        /\ src' \in [Pages -> Contents]
    BY <1>5, <2>1 DEF Unzip
  <2> QED
    BY <1>5, <2>2 DEF Unzip
<1>6. CASE Unzipped(p)
  <2>1. AllOf(src[p].of) \in Contents /\ NoFile \in Contents
    BY NoFileType DEF AllOf, Contents
  <2>2. pwa' \in [{"framework", "chromeos", "bin"} -> Contents]
    BY <1>6, <2>1 DEF Unzipped
  <2> QED
    BY <1>6, <2>2 DEF Unzipped
<1>7. CASE StartDownload(p)
  <2>1. PICK v \in Versions :
          given' = [given EXCEPT ![p] = v] /\ pwa' = [pwa EXCEPT ![want[p]] = PartOf(v)]
    BY <1>7 DEF StartDownload
  <2>2. /\ pwa' \in [{"framework", "chromeos", "bin"} -> Contents]
        /\ given' \in [Pages -> Versions \cup {NoImage}]
    BY <2>1, Files DEF Kinds
  <2>3. linked' \in [Pages -> BOOLEAN]
    BY <1>7 DEF StartDownload
  <2> QED
    BY <1>7, <2>2, <2>3 DEF StartDownload
<1> QED
  BY <1>1, <1>2, <1>3, <1>4, <1>5, <1>6, <1>7 DEF Helper

\* The types of what tar and pv are given.
LEMMA ExtractTypes ==
  ASSUME TypeOK, NEW p \in Pages, NEW a \in Contents, Extract(p, a)
  PROVE  src' \in [Pages -> Contents] /\ linked' \in [Pages -> BOOLEAN] /\ rootc' \in Contents
BY DEF TypeOK, Extract, PartOf, Contents

LEMMA UpdaterTypes ==
  ASSUME TypeOK, NEW p \in Pages, Terminal(p) \/ Updater(p)
  PROVE  TypeOK'
<1> USE DEF TypeOK, GoTo, Exit, process, files, downloads
<1>1. CASE Terminal(p)
  <2>1. PICK a \in Archives : given' = [given EXCEPT ![p] = a] /\ Extract(p, AllOf(a))
    BY <1>1 DEF Terminal
  <2>2. AllOf(a) \in Contents /\ a \in Versions \cup {NoImage}
    BY PwaAssumption DEF AllOf, Contents
  <2>3. src' \in [Pages -> Contents] /\ linked' \in [Pages -> BOOLEAN] /\ rootc' \in Contents
    BY <2>1, <2>2, ExtractTypes
  <2> QED
    BY <1>1, <2>1, <2>2, <2>3 DEF Terminal, Kinds
<1>2. CASE CallFramework(p)
  <2>1. src' \in [Pages -> Contents] /\ linked' \in [Pages -> BOOLEAN] /\ rootc' \in Contents
    BY <1>2, ExtractTypes DEF CallFramework
  <2> QED
    BY <1>2, <2>1 DEF CallFramework
<1>3. CASE Extracted(p)
  <2>1. AllOf(src[p].of) \in Contents
    BY DEF AllOf, Contents
  <2> QED
    BY <1>3, <2>1 DEF Extracted
<1>4. CASE ExtractFailed(p) \/ NotFound(p) \/ Refused(p) \/ WriteFailed(p)
  BY <1>4 DEF ExtractFailed, NotFound, Refused, WriteFailed
<1>5. CASE \E from \in {"pv", "call"}, f \in Contents : StartWrite(p, from, f)
  <2>1. PICK from \in {"pv", "call"}, f \in Contents : StartWrite(p, from, f)
    BY <1>5
  <2>2. PartOf(f.of) \in Contents
    BY DEF PartOf, Contents
  <2>3. part' \in [Kinds -> Contents] /\ src' \in [Pages -> Contents]
    BY <2>1, <2>2 DEF StartWrite
  <2>4. clean' \in [Pages -> BOOLEAN]
    BY <2>1 DEF StartWrite
  <2> QED
    BY <2>1, <2>3, <2>4 DEF StartWrite
<1>6. CASE StartFramework(p) \/ StartChromeos(p)
  <2>1. rootc \in Contents /\ pwa["bin"] \in Contents
    OBVIOUS
  <2> QED
    BY <1>5, <1>6, <2>1 DEF StartFramework, StartChromeos
<1>7. CASE Written(p)
  <2>1. part' \in [Kinds -> Contents] /\ rootc' \in Contents /\ linked' \in [Pages -> BOOLEAN]
    BY <1>7, NoFileType DEF Written, Unlinked
  <2> QED
    BY <1>7, <2>1 DEF Written
<1>8. CASE Flip(p)
  <2>1. pending' \in BOOLEAN
    BY <1>8 DEF Flip
  <2> QED
    BY <1>8, <2>1 DEF Flip
<1> QED
  BY <1>1, <1>2, <1>3, <1>4, <1>6, <1>7, <1>8 DEF Updater

LEMMA StutterTypes == TypeOK /\ UNCHANGED vars => TypeOK'
BY DEF TypeOK, vars

\* The only process there is passes on what it was asked for.
LEMMA StageStep ==
  ASSUME PwaInv, Alone, NEW p \in Pages, User(p) \/ Helper(p) \/ Updater(p)
  PROVE  Stages'
<1>1. \A q \in Pages : q = p
  BY DEF Alone
<1>2. TypeOK /\ Stages
  BY DEF PwaInv
<1>3. NoFile \notin {AllOf(v) : v \in Versions} /\ \A v \in Versions : v # NoImage
  BY Files
<1> USE <1>1, <1>2 DEF TypeOK, GoTo, Exit, process, files, downloads
<1>4. CASE \E k \in Kinds : Ask(p, k)
  <2>1. pc'[p] = "url" /\ there' /\ pwa'["bin"] = NoFile
    BY <1>4 DEF Ask, EmptyDir
  <2> QED
    BY <2>1 DEF Stages
<1>5. CASE NoSpace(p)
  BY <1>5 DEF NoSpace, Stages
<1>6. CASE InstallGentoo(p) \/ Offer(p)
  <2>1. pc'[p] = "read"
    BY <1>6 DEF InstallGentoo, Offer
  <2> QED
    BY <2>1 DEF Stages
<1>7. CASE Hangup(p) \/ DownloadFailed(p) \/ ExtractFailed(p) \/ WriteFailed(p) \/ Flip(p)
           \/ NotFound(p) \/ Refused(p)
  <2>1. pc'[p] \in {"read", "return"}
    BY <1>7 DEF Hangup, DownloadFailed, ExtractFailed, WriteFailed, Flip, NotFound, Refused
  <2> QED
    BY <2>1 DEF Stages
<1>8. CASE Downloaded(p)
  <2>1. want[p] = "framework" \/ want[p] = "chromeos"
    BY DEF Kinds
  <2>2. /\ pwa'[want[p]] \in {AllOf(given[p]), NoFile} /\ pwa'["bin"] = NoFile
        /\ given[p] \in Versions
    BY <1>8, <2>1 DEF Downloaded, Stages
  <2>3. pc'[p] = IF want[p] = "chromeos" THEN "unzip" ELSE "call"
    BY <1>8 DEF Downloaded
  <2>4. want' = want /\ given' = given
    BY <1>8 DEF Downloaded
  <2> QED
    BY <2>1, <2>2, <2>3, <2>4 DEF Stages
<1>9. CASE Unzip(p)
  <2>1. /\ pwa["chromeos"] \in {AllOf(given[p]), NoFile} /\ pwa["bin"] = NoFile
        /\ given[p] \in Versions /\ want[p] = "chromeos"
    BY <1>9 DEF Unzip, Stages
  <2>2. \/ src'[p] = AllOf(given[p]) /\ linked'[p]
        \/ ~ linked'[p] /\ pwa'["bin"] = NoFile
    BY <1>9, <2>1, Files DEF Unzip
  <2>3. pc'[p] = "unzipping" /\ want' = want /\ given' = given
    BY <1>9 DEF Unzip
  <2> QED
    BY <2>1, <2>2, <2>3 DEF Stages
<1>10. CASE Unzipped(p)
  <2>1. given[p] \in Versions /\ want[p] = "chromeos"
    BY <1>10 DEF Unzipped, Stages
  <2>2. pwa'["bin"] \in {AllOf(given[p]), NoFile}
    <3>1. CASE ~ linked[p] /\ pwa["bin"] = NoFile
      BY <1>10, <3>1 DEF Unzipped
    <3>2. CASE src[p] = AllOf(given[p]) /\ linked[p]
      <4>1. src[p].whole = TRUE /\ src[p].of = given[p]
        BY <2>1, <3>2, Files
      <4> QED
        BY <1>10, <3>2, <4>1 DEF Unzipped, MayFail, Alone
    <3> QED
      BY <1>10, <3>1, <3>2 DEF Unzipped, Stages
  <2>3. pc'[p] = "call" /\ want' = want /\ given' = given
    BY <1>10 DEF Unzipped
  <2> QED
    BY <2>1, <2>2, <2>3 DEF Stages
<1>11. ASSUME NEW v \in Versions, Extract(p, AllOf(v)), given'[p] = v,
              pc'[p] = "extract", want'[p] = "framework"
       PROVE  Stages'
  <2>1. src'[p] = AllOf(v) /\ linked'[p]
    BY <1>11, Files DEF Extract
  <2> QED
    BY <1>11, <2>1 DEF Stages
<1>12. CASE Terminal(p)
  <2>1. PICK a \in Archives : given' = [given EXCEPT ![p] = a] /\ Extract(p, AllOf(a))
    BY <1>12 DEF Terminal
  <2> QED
    BY <1>11, <1>12, <2>1 DEF Terminal, Alone, Kinds
<1>13. CASE CallFramework(p)
  <2>1. pwa["framework"] = AllOf(given[p]) /\ given[p] \in Versions
    BY <1>13 DEF CallFramework, Stages
  <2> QED
    BY <1>11, <1>13, <2>1 DEF CallFramework
<1>14. CASE Extracted(p)
  <2>1. src[p] = AllOf(given[p]) /\ given[p] \in Versions /\ linked[p] /\ want[p] = "framework"
    BY <1>14 DEF Extracted, Stages
  <2>2. rootc' = AllOf(given[p])
    BY <1>14, <2>1, Files DEF Extracted
  <2> QED
    BY <1>14, <2>1, <2>2 DEF Extracted, Stages
<1>15. ASSUME NEW from \in {"pv", "call"}, given[p] \in Versions,
              StartWrite(p, from, AllOf(given[p]))
       PROVE  Stages'
  <2>1. pc'[p] = "write" /\ src'[p] = AllOf(given[p]) /\ given' = given
    BY <1>15 DEF StartWrite
  <2>2. {o \in Pages \ {p} : pc[o] = "write" /\ want[o] = want[p]} = {}
    OBVIOUS
  <2>3. clean'[p] = TRUE
    BY <1>15, <2>2, Zenon DEF StartWrite
  <2> QED
    BY <1>15, <2>1, <2>3 DEF Stages
<1>16. CASE StartFramework(p)
  <2>1. rootc = AllOf(given[p]) /\ given[p] \in Versions
    BY <1>16 DEF StartFramework, StartWrite, Stages
  <2> QED
    BY <1>15, <1>16, <2>1 DEF StartFramework
<1>17. CASE StartChromeos(p)
  <2>1. pwa["bin"] = AllOf(given[p]) /\ given[p] \in Versions
    BY <1>17 DEF StartChromeos, StartWrite, Stages
  <2> QED
    BY <1>15, <1>17, <2>1 DEF StartChromeos
<1>18. CASE Written(p)
  <2>1. src[p] = AllOf(given[p]) /\ given[p] \in Versions /\ clean[p]
    BY <1>18 DEF Written, Stages
  <2>2. part'[want[p]] = AllOf(given[p])
    BY <1>18, <2>1 DEF Written
  <2> QED
    BY <1>18, <2>1, <2>2 DEF Written, Stages
<1>19. CASE StartDownload(p)
  <2>1. PICK v \in Versions :
          given' = [given EXCEPT ![p] = v] /\ pwa' = [pwa EXCEPT ![want[p]] = PartOf(v)]
    BY <1>19 DEF StartDownload
  <2>2. {o \in Pages \ {p} : pc[o] = "curl" /\ linked[o] /\ want[o] = want[p]} = {}
    OBVIOUS
  <2>3. linked'[p] = TRUE
    BY <1>19, <2>2, Zenon DEF StartDownload
  <2>4. pwa'["bin"] = NoFile
    BY <1>19, <2>1 DEF StartDownload, Stages, Kinds
  <2>5. pc'[p] = "curl" /\ given'[p] \in Versions
    BY <1>19, <2>1 DEF StartDownload
  <2> QED
    BY <2>3, <2>4, <2>5 DEF Stages
<1> QED
  BY <1>4, <1>5, <1>6, <1>7, <1>8, <1>9, <1>10, <1>12, <1>13, <1>14, <1>16, <1>17, <1>18, <1>19
     DEF User, Helper, Updater

LEMMA StutterStages == Stages /\ UNCHANGED vars => Stages'
BY DEF Stages, vars

\* A process that has the two directories to itself works on the release it
\* was asked for at every step (99-pwa.sh, 31-41; 99-updater.sh, 64-118).
THEOREM Invariance ==
  ASSUME Alone
  PROVE  Spec => []PwaInv
<1>1. PwaInv /\ [Next]_vars => PwaInv'
  <2> SUFFICES ASSUME PwaInv, [Next]_vars PROVE PwaInv'
    OBVIOUS
  <2>1. CASE UNCHANGED vars
    BY <2>1, StutterTypes, StutterStages DEF PwaInv
  <2>2. CASE Next
    <3>1. PICK p \in Pages : User(p) \/ Helper(p) \/ Updater(p)
      BY <2>2 DEF Next
    <3>2. TypeOK'
      BY <3>1, HelperTypes, UpdaterTypes DEF PwaInv, User
    <3>3. Stages'
      BY <3>1, StageStep
    <3> QED
      BY <3>2, <3>3 DEF PwaInv
  <2> QED
    BY <2>1, <2>2
<1> QED
  BY <1>1, InitPwa, PTL DEF Spec

\* Whole partitions only are handed over to brunch-init.
THEOREM HandsOverWhole ==
  ASSUME Alone
  PROVE  Spec => []HandOverKnownGood
<1>1. PwaInv => HandOverKnownGood
  BY Files DEF PwaInv, Stages, HandOverKnownGood
<1> QED
  BY Invariance, <1>1, PTL

\* They are the release that was asked for, never the remains of another.
THEOREM HandsOverAsked ==
  ASSUME Alone
  PROVE  Spec => []HandOverAsked
<1>1. PwaInv => HandOverAsked
  BY Files DEF PwaInv, Stages, HandOverAsked
<1> QED
  BY Invariance, <1>1, PTL

=============================================================================
