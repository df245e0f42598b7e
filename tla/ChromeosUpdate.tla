--------------------------- MODULE ChromeosUpdate ---------------------------
(***************************************************************************)
(* chromeos-update, the script brunch-patches/99-updater.sh installs: it   *)
(* overwrites ROOT-C (-f), the EFI partition (-e) and ROOT-B (-r) from the *)
(* running system and marks an update as pending through the priorities.   *)
(* Nothing keeps two of them, or one and ChromeOS's own update_engine,     *)
(* from running at the same time.                                          *)
(***************************************************************************)
EXTENDS BrunchDisk

CONSTANTS
  Updaters,     \* chromeos-update processes (a terminal, the brunch PWA)
  UpdateEngine, \* ChromeOS's updater
  UpdateOptions,\* the options that let ChromeOS update itself
  Requests      \* what chromeos-update is asked to install

Writers == Updaters \cup {UpdateEngine}

Jobs == [fw : Frameworks \cup {None}, efi : BOOLEAN, img : Images \cup {None}]

ASSUME UpdaterAssumption ==
  /\ UpdateEngine \notin Updaters
  /\ UpdateOptions \subseteq OptionSets
  /\ Requests \subseteq Jobs

VARIABLES
  upc,    \* where each process is
  job,    \* what it was asked to install
  clean,  \* no other process has written its partition since it began
  said    \* history: the update that was announced last, and whether its
          \* writer had ROOT-B for itself; None if another has been begun since

updVars == <<upc, job, clean, said>>

Announcements == [img : Images, alone : BOOLEAN]

NoJob == [fw |-> None, efi |-> FALSE, img |-> None]

UpdTypeOK ==
  /\ upc \in [Writers -> {"idle", "extract", "writeC", "writeEfi", "fPrioA",
                          "fPrioB", "sizes", "writeB", "rPrioA", "rPrioB"}]
  /\ job \in [Writers -> Jobs]
  /\ clean \in [Writers -> BOOLEAN]
  /\ said \in Announcements \cup {None}

UpdInit ==
  /\ upc = [w \in Writers |-> "idle"]
  /\ job = [w \in Writers |-> NoJob]
  /\ clean = [w \in Writers |-> FALSE]
  /\ said = None

\* A step of w from one place to the next; a process that exits is forgotten.
GoOn(w, from, to) ==
  /\ upc[w] = from
  /\ upc' = [upc EXCEPT ![w] = to]
  /\ job' = IF to = "idle" THEN [job EXCEPT ![w] = NoJob] ELSE job

\* w starts overwriting a partition in step `at'; those already at it, and
\* then w too, no longer get what they write, and those in `after' have lost
\* what they wrote.
Overlap(w, at, after) ==
  LET others == {o \in Writers \ {w} : upc[o] = at} IN
  clean' = [o \in Writers |-> IF o = w THEN others = {}
                              ELSE clean[o] /\ upc[o] \notin {at} \cup after]

\* The steps between a copy to ROOT-B and its announcement.
HandingOver == {"rPrioA", "rPrioB"}

\* w is through with its partition.
Close(w) == clean' = [clean EXCEPT ![w] = FALSE]

-----------------------------------------------------------------------------

\* The arguments passed their checks.
Begin(w) ==
  /\ upc[w] = "idle"
  /\ \E j \in Requests :
       /\ j.fw # None \/ j.img # None
       /\ j.efi => j.fw # None
       /\ job' = [job EXCEPT ![w] = j]
       /\ upc' = [upc EXCEPT ![w] = IF j.fw # None THEN "extract" ELSE "sizes"]
  /\ UNCHANGED <<diskVars, clean, said>>

\* .md5sum, if it is there, no longer matches the listing.
Stale(sum) == IF sum = "absent" THEN "absent" ELSE "stale"

\* tar has extracted the release and pv starts writing rootc.img.  What is
\* found on ROOT-C from now on is the old file system with its record; files
\* of either release, with the record but another listing; or the new file
\* system, which holds no record.
StartFramework(w) ==
  /\ GoOn(w, "extract", "writeC")
  /\ \/ /\ rootC' = [rootC EXCEPT !.whole = FALSE]
        /\ UNCHANGED <<recorded, md5sum>>
     \/ /\ \E fw \in {rootC.fw, job[w].fw} : rootC' = [fw |-> fw, whole |-> FALSE]
        /\ md5sum' = Stale(md5sum)
        /\ UNCHANGED recorded
     \/ /\ rootC' = [fw |-> job[w].fw, whole |-> FALSE]
        /\ recorded' = NoRecord
        /\ md5sum' = "absent"
  /\ Overlap(w, "writeC", {})
  /\ UNCHANGED <<rootA, rootB, prio, efi, stateful, said>>

\* The image is written; it holds no record.  With -e, writing efi_secure.img
\* starts.
FrameworkWritten(w) ==
  /\ GoOn(w, "writeC", IF job[w].efi THEN "writeEfi" ELSE "fPrioA")
  /\ rootC' = [fw |-> job[w].fw, whole |-> clean[w]]
  /\ recorded' = NoRecord
  /\ md5sum' = "absent"
  /\ efi' = IF job[w].efi THEN [efi EXCEPT !.whole = FALSE] ELSE efi
  /\ Close(w)
  /\ UNCHANGED <<rootA, rootB, prio, stateful, said>>

\* efi_secure.img is written, with the settings of template.cfg.
EfiWritten(w) ==
  /\ GoOn(w, "writeEfi", "fPrioA")
  /\ efi' = [cfg |-> DefaultSettings, whole |-> TRUE]
  /\ UNCHANGED <<rootA, rootB, rootC, recorded, md5sum, prio, stateful,
                 clean, said>>

\* cgpt add -i 2 -P 0
LowerKernA(w, from, to) ==
  /\ GoOn(w, from, to)
  /\ prio' = [prio EXCEPT !.a = 0]
  /\ UNCHANGED <<rootA, rootB, rootC, recorded, md5sum, efi, stateful,
                 clean, said>>

\* cgpt add -i 4 -P 15 and sync, after -f; then -r, if that was asked for too.
FrameworkDone(w) ==
  /\ GoOn(w, "fPrioB", IF job[w].img = None THEN "idle" ELSE "sizes")
  /\ prio' = [prio EXCEPT !.b = 15]
  /\ UNCHANGED <<rootA, rootB, rootC, recorded, md5sum, efi, stateful,
                 clean, said>>

\* The image fits and dd starts copying it to ROOT-B.
StartRootB(w) ==
  /\ GoOn(w, "sizes", "writeB")
  /\ \E s \in {"torn", "unreadable"} : rootB' = [img |-> job[w].img, state |-> s]
  /\ Overlap(w, "writeB", HandingOver)
  /\ said' = None
  /\ UNCHANGED <<rootA, rootC, recorded, md5sum, prio, efi, stateful>>

\* Mutant: an error of dd or of sync is not looked at.
RootBWrittenSomehow(w) ==
  /\ GoOn(w, "writeB", "rPrioA")
  /\ rootB' \in {rootB, IF clean[w] THEN [rootB EXCEPT !.state = "whole"] ELSE rootB}
  /\ UNCHANGED <<rootA, rootC, recorded, md5sum, prio, efi, stateful, clean,
                 said>>

\* dd conv=fsync and sync are through.
RootBWritten(w) ==
  /\ GoOn(w, "writeB", "rPrioA")
  /\ rootB' = IF clean[w] THEN [rootB EXCEPT !.state = "whole"] ELSE rootB
  /\ UNCHANGED <<rootA, rootC, recorded, md5sum, prio, efi, stateful, clean,
                 said>>

\* dd failed: "the partition priorities were left untouched, so the next
\* boot is unaffected".
RootBFailed(w) ==
  /\ GoOn(w, "writeB", "idle")
  /\ Close(w)
  /\ UNCHANGED <<diskVars, said>>

\* cgpt add -i 4 -P 15 and sync, after -r: "ChromeOS updated."
RecoveryDone(w) ==
  /\ GoOn(w, "rPrioB", "idle")
  /\ prio' = [prio EXCEPT !.b = 15]
  /\ said' = [img |-> job[w].img, alone |-> clean[w]]
  /\ Close(w)
  /\ UNCHANGED <<rootA, rootB, rootC, recorded, md5sum, efi, stateful>>

\* Mutant: a failure puts the priorities back.
AbortAndReset(w) ==
  /\ \E from \in {"extract", "writeC", "writeEfi", "sizes"} : GoOn(w, from, "idle")
  /\ Close(w)
  /\ prio' = [a |-> 15, b |-> 0]
  /\ UNCHANGED <<rootA, rootB, rootC, recorded, md5sum, efi, stateful, said>>

\* An extraction, a write or a size check that fails exits.
Abort(w) ==
  /\ \E from \in {"extract", "writeC", "writeEfi", "sizes"} : GoOn(w, from, "idle")
  /\ Close(w)
  /\ UNCHANGED <<diskVars, said>>

UpdaterStep(w) ==
  \/ StartFramework(w) \/ FrameworkWritten(w) \/ EfiWritten(w)
  \/ LowerKernA(w, "fPrioA", "fPrioB") \/ FrameworkDone(w)
  \/ StartRootB(w) \/ RootBWritten(w) \/ RootBFailed(w)
  \/ LowerKernA(w, "rPrioA", "rPrioB") \/ RecoveryDone(w)
  \/ Abort(w)

-----------------------------------------------------------------------------
(***************************************************************************)
(* update_engine, which is not part of this repository.  brunch-init       *)
(* counts on this much of it: an update is written to ROOT-B, ROOT-B is    *)
(* unreadable or incomplete until then, and KERN-B gets the highest        *)
(* priority once the image is verified.                                    *)
(***************************************************************************)
EngineStart ==
  /\ rootA.param["options"] \in UpdateOptions
  /\ upc[UpdateEngine] = "idle"
  /\ upc' = [upc EXCEPT ![UpdateEngine] = "writeB"]
  /\ \E i \in Images, s \in {"torn", "unreadable"} :
       /\ rootB' = [img |-> i, state |-> s]
       /\ job' = [job EXCEPT ![UpdateEngine] = [NoJob EXCEPT !.img = i]]
  /\ Overlap(UpdateEngine, "writeB", HandingOver)
  /\ said' = None
  /\ UNCHANGED <<rootA, rootC, recorded, md5sum, prio, efi, stateful>>

EngineVerify ==
  /\ GoOn(UpdateEngine, "writeB", IF clean[UpdateEngine] THEN "rPrioB" ELSE "idle")
  /\ rootB' = IF clean[UpdateEngine] THEN [rootB EXCEPT !.state = "whole"] ELSE rootB
  /\ UNCHANGED <<rootA, rootC, recorded, md5sum, prio, efi, stateful, clean,
                 said>>

EngineDone ==
  /\ GoOn(UpdateEngine, "rPrioB", "idle")
  /\ prio' = [a |-> 1, b |-> 2]
  /\ said' = [img |-> job[UpdateEngine].img, alone |-> clean[UpdateEngine]]
  /\ Close(UpdateEngine)
  /\ UNCHANGED <<rootA, rootB, rootC, recorded, md5sum, efi, stateful>>

EngineStep == EngineStart \/ EngineVerify \/ EngineDone

\* The processes die with the session.
UpdKilled ==
  /\ upc' = [w \in Writers |-> "idle"]
  /\ job' = [w \in Writers |-> NoJob]
  /\ clean' = [w \in Writers |-> FALSE]
  /\ UNCHANGED said

=============================================================================
