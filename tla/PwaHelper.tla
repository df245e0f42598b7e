----------------------------- MODULE PwaHelper ------------------------------
(***************************************************************************)
(* The helpers of the brunch PWA and the chromeos-update they call, with   *)
(* the files the two hand to each other: websocketd starts one helper per  *)
(* open page, and all of them use the directories brunch_pwa and           *)
(* brunch_updater.  A user may also call chromeos-update from a terminal.  *)
(***************************************************************************)
EXTENDS Integers

CONSTANTS
  Pages,     \* processes: a helper of an open page, or a shell
  Versions,  \* releases that can be downloaded
  Archives,  \* what a user passes to chromeos-update -f in a terminal
  NoImage,   \* an archive without rootc.img, such as that of the sources
  Faults     \* commands that may fail: "curl", "bsdtar", "tar", "pv", "dd"; and
             \* "http": the server sends an error page, and curl is content

ASSUME PwaAssumption ==
  /\ NoImage \notin Versions
  /\ Archives \subseteq Versions \cup {NoImage}
  /\ Faults \subseteq {"curl", "http", "bsdtar", "tar", "pv", "dd"}

Contents == [of : Versions \cup {NoImage}, whole : BOOLEAN]

\* There is no file of this name, or one from which nothing can be extracted.
NoFile == [of |-> NoImage, whole |-> FALSE]

PartOf(v) == [of |-> v, whole |-> FALSE]
AllOf(v)  == [of |-> v, whole |-> TRUE]

Kinds == {"framework", "chromeos"}

VARIABLES
  pc,      \* where each process is
  want,    \* what it is updating
  page,    \* whether it is a helper, which goes on after chromeos-update
  given,   \* history: the release it was to install
  src,     \* what the file it reads held when it opened it
  linked,  \* the file it writes still has its name, and no second writer
  clean,   \* no other process has written its partition since it began
  there,   \* the directory brunch_pwa exists
  pwa,     \* its files: the downloads and the unzipped recovery image
  rootc,   \* brunch_updater/rootc.img
  part,    \* ROOT-C and ROOT-B
  pending, \* P(KERN-B) >= P(KERN-A)
  told     \* what the page shows

vars == <<pc, want, page, given, src, linked, clean, there, pwa, rootc, part, pending, told>>

downloads == <<there, pwa>>
files == <<downloads, rootc>>
process == <<want, page, given>>

TypeOK ==
  /\ pc \in [Pages -> {"read", "url", "curl", "unzip", "unzipping", "call", "extract",
                       "pv", "write", "flip", "return"}]
  /\ want \in [Pages -> Kinds]
  /\ page \in [Pages -> BOOLEAN]
  /\ given \in [Pages -> Versions \cup {NoImage}]
  /\ src \in [Pages -> Contents]
  /\ linked \in [Pages -> BOOLEAN]
  /\ clean \in [Pages -> BOOLEAN]
  /\ there \in BOOLEAN
  /\ pwa \in [{"framework", "chromeos", "bin"} -> Contents]
  /\ rootc \in Contents
  /\ part \in [Kinds -> Contents]
  /\ pending \in BOOLEAN
  /\ told \in [Pages -> {"nothing", "failed", "offer"}]

EmptyDir == [f \in {"framework", "chromeos", "bin"} |-> NoFile]

Init ==
  /\ pc = [p \in Pages |-> "read"]
  /\ want = [p \in Pages |-> "framework"]
  /\ page = [p \in Pages |-> TRUE]
  /\ given = [p \in Pages |-> NoImage]
  /\ src = [p \in Pages |-> NoFile]
  /\ linked = [p \in Pages |-> FALSE]
  /\ clean = [p \in Pages |-> FALSE]
  /\ there = FALSE
  /\ pwa = EmptyDir
  /\ rootc = NoFile
  /\ \E v \in Versions : part = [k \in Kinds |-> AllOf(v)]
  /\ pending = FALSE
  /\ told = [p \in Pages |-> "nothing"]

GoTo(p, from, to) == pc[p] = from /\ pc' = [pc EXCEPT ![p] = to]

MayFail(command) == command \in Faults

Writing(d) == IF d = "pwa" THEN {"curl", "unzipping"} ELSE {"extract"}

\* The processes but p that write into d no longer write to a file with a name.
Unlinked(p, d) == [o \in Pages |-> linked[o] /\ ~ (o # p /\ pc[o] \in Writing(d))]

\* Mutant: the helper calls chromeos-update again.
ExitAndAgain(p, from) == GoTo(p, from, IF page[p] THEN "call" ELSE "read")

\* chromeos-update exits; whatever its status, the helper goes on.
Exit(p, from) == GoTo(p, from, IF page[p] THEN "return" ELSE "read")

-----------------------------------------------------------------------------
(***************************************************************************)
(* pwa-helper                                                              *)
(***************************************************************************)

\* "update-stable", "update-unstable", "update-chromeos": there is space, the
\* directory is made anew, and a first curl asks where the release is.
Ask(p, k) ==
  /\ GoTo(p, "read", "url")
  /\ there' = TRUE
  /\ pwa' = EmptyDir
  /\ linked' = Unlinked(p, "pwa")
  /\ want' = [want EXCEPT ![p] = k]
  /\ page' = [page EXCEPT ![p] = TRUE]
  /\ told' = [told EXCEPT ![p] = "nothing"]
  /\ UNCHANGED <<given, src, clean, rootc, part, pending>>

\* The second curl creates the file, or empties the one another page's curl is
\* writing: both then write one file, and neither makes it whole.
StartDownload(p) ==
  LET others == {o \in Pages \ {p} : pc[o] = "curl" /\ linked[o] /\ want[o] = want[p]} IN
  /\ GoTo(p, "url", "curl")
  /\ there
  /\ \E v \in Versions :
       /\ given' = [given EXCEPT ![p] = v]
       /\ pwa' = [pwa EXCEPT ![want[p]] = PartOf(v)]
  /\ linked' = [o \in Pages |-> IF o = p THEN others = {} ELSE linked[o] /\ o \notin others]
  /\ UNCHANGED <<want, page, src, clean, there, rootc, part, pending, told>>

\* "Not enough space to update"
NoSpace(p) ==
  /\ pc[p] = "read"
  /\ told' = [told EXCEPT ![p] = "failed"]
  /\ UNCHANGED <<pc, process, src, linked, clean, files, part, pending>>

\* curl ends well, which it also does with an error page: there is no -f.
Downloaded(p) ==
  /\ GoTo(p, "curl", IF want[p] = "chromeos" THEN "unzip" ELSE "call")
  /\ \E got \in {AllOf(given[p])} \cup (IF MayFail("http") THEN {NoFile} ELSE {}) :
       pwa' = IF linked[p] THEN [pwa EXCEPT ![want[p]] = got] ELSE pwa
  /\ UNCHANGED <<process, src, linked, clean, there, rootc, part, pending, told>>

\* "Failed to download ..., please try again...": no address, no directory to
\* write into, or a download that breaks off.
DownloadFailed(p) ==
  /\ \/ GoTo(p, "url", "read") /\ (MayFail("curl") \/ ~ there)
     \/ GoTo(p, "curl", "read") /\ MayFail("curl")
  /\ told' = [told EXCEPT ![p] = "failed"]
  /\ UNCHANGED <<process, src, linked, clean, files, part, pending>>

\* bsdtar opens the archive and creates the image.
Unzip(p) ==
  /\ GoTo(p, "unzip", "unzipping")
  /\ src' = [src EXCEPT ![p] = pwa["chromeos"]]
  /\ linked' = [linked EXCEPT ![p] = pwa["chromeos"] # NoFile]
  /\ pwa' = IF pwa["chromeos"] = NoFile THEN pwa
            ELSE [pwa EXCEPT !["bin"] = PartOf(pwa["chromeos"].of)]
  /\ UNCHANGED <<process, clean, there, rootc, part, pending, told>>

\* bsdtar ends, with or without success, and the archive is removed.
Unzipped(p) ==
  /\ GoTo(p, "unzipping", "call")
  /\ \E complete \in {src[p].whole} \cup (IF MayFail("bsdtar") THEN {FALSE} ELSE {}) :
       pwa' = [pwa EXCEPT !["chromeos"] = NoFile,
                          !["bin"] = IF linked[p] /\ complete THEN AllOf(src[p].of) ELSE @]
  /\ UNCHANGED <<process, src, linked, clean, there, rootc, part, pending, told>>

\* The directory is removed and a reboot offered to finish the update.
Offer(p) ==
  /\ GoTo(p, "return", "read")
  /\ there' = FALSE
  /\ pwa' = EmptyDir
  /\ linked' = Unlinked(p, "pwa")
  /\ told' = [told EXCEPT ![p] = "offer"]
  /\ UNCHANGED <<process, src, clean, rootc, part, pending>>

\* "install-gentoo-prefix" removes the directory of the updates as well.
InstallGentoo(p) ==
  /\ pc[p] = "read"
  /\ there' = FALSE
  /\ pwa' = EmptyDir
  /\ linked' = Unlinked(p, "pwa")
  /\ UNCHANGED <<pc, process, src, clean, rootc, part, pending, told>>

\* The page is closed, or the session ends, between two commands.
Hangup(p) ==
  /\ pc[p] \in {"url", "unzip", "call", "return"} /\ page[p]
  /\ pc' = [pc EXCEPT ![p] = "read"]
  /\ UNCHANGED <<process, src, linked, clean, files, part, pending, told>>

-----------------------------------------------------------------------------
(***************************************************************************)
(* chromeos-update                                                         *)
(***************************************************************************)

\* Mutant: tar keeps a rootc.img that is there.
ExtractKeepingOld(p, archive) ==
  /\ src' = [src EXCEPT ![p] = archive]
  /\ linked' = [linked EXCEPT ![p] = rootc = NoFile]
  /\ rootc' = IF rootc # NoFile \/ archive.of = NoImage THEN rootc ELSE PartOf(archive.of)

\* tar starts; a rootc.img that is there is replaced by the archive's, if
\* the archive has one: the test for that compares words and never fails.
Extract(p, archive) ==
  /\ src' = [src EXCEPT ![p] = archive]
  /\ linked' = [linked EXCEPT ![p] = archive.of # NoImage]
  /\ rootc' = IF archive.of = NoImage THEN rootc ELSE PartOf(archive.of)

\* chromeos-update -f from a terminal
Terminal(p) ==
  /\ GoTo(p, "read", "extract")
  /\ \E a \in Archives :
       /\ given' = [given EXCEPT ![p] = a]
       /\ Extract(p, AllOf(a))
  /\ want' = [want EXCEPT ![p] = "framework"]
  /\ page' = [page EXCEPT ![p] = FALSE]
  /\ UNCHANGED <<clean, downloads, part, pending, told>>

CallFramework(p) ==
  /\ want[p] = "framework"
  /\ pwa["framework"] # NoFile
  /\ GoTo(p, "call", "extract")
  /\ Extract(p, pwa["framework"])
  /\ UNCHANGED <<process, clean, downloads, part, pending, told>>

\* Mutant: tar's status is not tested.
ExtractedSomehow(p) ==
  /\ GoTo(p, "extract", "pv")
  /\ rootc' = IF linked[p] /\ src[p].whole /\ ~ MayFail("tar") THEN AllOf(src[p].of) ELSE rootc
  /\ UNCHANGED <<process, src, linked, clean, downloads, part, pending, told>>

\* tar ends well.
Extracted(p) ==
  /\ src[p].whole
  /\ GoTo(p, "extract", "pv")
  /\ rootc' = IF linked[p] THEN AllOf(src[p].of) ELSE rootc
  /\ UNCHANGED <<process, src, linked, clean, downloads, part, pending, told>>

\* "Failed to extract"; what was extracted stays.
ExtractFailed(p) ==
  /\ ~ src[p].whole \/ ~ linked[p] \/ MayFail("tar")
  /\ Exit(p, "extract")
  /\ UNCHANGED <<process, src, linked, clean, files, part, pending, told>>

\* The partition of p's update is opened and, so far, neither old nor new.
StartWrite(p, from, file) ==
  LET others == {o \in Pages \ {p} : pc[o] = "write" /\ want[o] = want[p]} IN
  /\ GoTo(p, from, "write")
  /\ file # NoFile
  /\ src' = [src EXCEPT ![p] = file]
  /\ part' = [part EXCEPT ![want[p]] = PartOf(file.of)]
  /\ clean' = [o \in Pages |-> IF o = p THEN others = {} ELSE clean[o] /\ o \notin others]
  /\ UNCHANGED <<process, linked, files, pending, told>>

\* pv rootc.img
StartFramework(p) == StartWrite(p, "pv", rootc)

\* dd of ROOT-A of the .bin that find finds, if its first sectors are right.
StartChromeos(p) == want[p] = "chromeos" /\ StartWrite(p, "call", pwa["bin"])

\* The archive, the image or rootc.img is not there.
NotFound(p) ==
  /\ \/ want[p] = "framework" /\ pwa["framework"] = NoFile /\ Exit(p, "call")
     \/ want[p] = "chromeos" /\ pwa["bin"] = NoFile /\ Exit(p, "call")
     \/ rootc = NoFile /\ Exit(p, "pv")
  /\ UNCHANGED <<process, src, linked, clean, files, part, pending, told>>

\* chromeos-update refuses: too little space, an image that is none or whose
\* table cannot be read, or a ROOT-A that does not fit.
Refused(p) ==
  /\ Exit(p, "call")
  /\ UNCHANGED <<process, src, linked, clean, files, part, pending, told>>

\* The end of the file is reached; brunch_updater is removed after -f.
Written(p) ==
  /\ GoTo(p, "write", "flip")
  /\ part' = IF clean[p] THEN [part EXCEPT ![want[p]] = src[p]] ELSE part
  /\ IF want[p] = "framework"
     THEN rootc' = NoFile /\ linked' = Unlinked(p, "updater")
     ELSE UNCHANGED <<rootc, linked>>
  /\ UNCHANGED <<process, src, clean, downloads, pending, told>>

\* "Failed to write the brunch framework partition." / "Failed to write ROOT-B."
WriteFailed(p) ==
  /\ MayFail(IF want[p] = "framework" THEN "pv" ELSE "dd")
  /\ Exit(p, "write")
  /\ UNCHANGED <<process, src, linked, clean, files, part, pending, told>>

\* The priorities are written: "Brunch updated." / "ChromeOS updated."
Flip(p) ==
  /\ Exit(p, "flip")
  /\ pending' = TRUE
  /\ UNCHANGED <<process, src, linked, clean, files, part, told>>

Updater(p) ==
  \/ CallFramework(p) \/ Extracted(p) \/ ExtractFailed(p) \/ StartFramework(p)
  \/ StartChromeos(p) \/ NotFound(p) \/ Refused(p) \/ Written(p) \/ WriteFailed(p) \/ Flip(p)

Helper(p) ==
  \/ StartDownload(p) \/ Downloaded(p) \/ DownloadFailed(p)
  \/ Unzip(p) \/ Unzipped(p) \/ Offer(p)

User(p) ==
  (\E k \in Kinds : Ask(p, k)) \/ NoSpace(p) \/ Terminal(p) \/ InstallGentoo(p) \/ Hangup(p)

Next == \E p \in Pages : User(p) \/ Helper(p) \/ Updater(p)

Spec == Init /\ [][Next]_vars

\* Scripts run on, and every command they call ends.
FairSpec == Spec /\ \A p \in Pages : WF_vars(Helper(p) \/ Updater(p))

-----------------------------------------------------------------------------

\* 99-updater.sh:110-113: the priorities are only flipped when what
\* brunch-init will rebuild ROOT-A from is known-good.
HandOverKnownGood == \A p \in Pages : pc[p] = "flip" => part[want[p]].whole

\* What is handed over is the release that was asked for, whatever earlier
\* updates left in the two directories (99-updater.sh, 35-39 and 65-69).
HandOverAsked == \A p \in Pages : pc[p] = "flip" => part[want[p]].of = given[p]

\* A process that is alone passes on what it was asked for from each file to
\* the next: no remains of an earlier request get between.
Stages ==
  \A p \in Pages :
    /\ pc[p] \in {"curl", "extract"} => linked[p]
    /\ pc[p] \in {"extract", "write"} => src[p] = AllOf(given[p])
    /\ pc[p] = "unzipping" =>
         \/ src[p] = AllOf(given[p]) /\ linked[p]
         \/ ~ linked[p] /\ pwa["bin"] = NoFile
    /\ pc[p] \notin {"read", "url", "return"} => given[p] \in Versions
    /\ pc[p] \in {"unzip", "unzipping"} => want[p] = "chromeos"
    /\ pc[p] \in {"extract", "pv"} => want[p] = "framework"
    /\ pc[p] = "url" => there
    /\ pc[p] \in {"url", "curl", "unzip"} => pwa["bin"] = NoFile
    /\ pc[p] = "unzip" => pwa["chromeos"] \in {AllOf(given[p]), NoFile}
    /\ pc[p] = "call" =>
         pwa[IF want[p] = "framework" THEN "framework" ELSE "bin"] \in {AllOf(given[p]), NoFile}
    /\ pc[p] = "pv" => rootc = AllOf(given[p])
    /\ pc[p] = "write" => clean[p]
    /\ pc[p] = "flip" => part[want[p]] = AllOf(given[p])

PwaInv == TypeOK /\ Stages

\* 99-pwa.sh:40, 54 and 87: a page that offers a reboot "to finish the update"
\* has an update to finish.
OfferMeansPending == \A p \in Pages : told[p] = "offer" => pending

\* Every request ends with an answer, and the helper takes the next one.
RequestsEnd == \A p \in Pages : []<>(pc[p] = "read")

=============================================================================
