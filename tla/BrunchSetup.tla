---------------------------- MODULE BrunchSetup -----------------------------
(***************************************************************************)
(* settings.cfg: written by brunch-setup, which a session or the settings  *)
(* entry of GRUB runs, and read by GRUB at the next start.  It is written  *)
(* six times, by cp and five sed -i, on a FAT file system: until the       *)
(* partition is unmounted a power loss may leave each of the versions, an  *)
(* empty file or none.                                                     *)
(***************************************************************************)
EXTENDS Integers, Sequences

CONSTANTS
  Values,   \* what a user may select, one value standing for a whole selection
  Default   \* what template.cfg holds for each field

ASSUME SetupAssumption == Default \notin Values

\* In the order of the five substitutions.
Fields == <<"options", "kernel", "cmdline_params", "verbose", "brunch_bootsplash">>
Field == {Fields[i] : i \in 1 .. 5}

File == [kind : {"text", "empty", "missing"}, val : [Field -> Values \cup {Default}]]

Template == [kind |-> "text", val |-> [f \in Field |-> Default]]
Empty    == [Template EXCEPT !.kind = "empty"]
Missing  == [Template EXCEPT !.kind = "missing"]

VARIABLES
  pc,
  file,    \* settings.cfg as the running system sees it
  maybe,   \* what a power loss may leave of it
  step,    \* the substitutions that were run
  select,  \* what the user selected: a value and the fields that get it
  saved,   \* the user was told "Brunch configuration saved."
  copied,  \* history: the cp of the last edit worked
  mixed    \* history: an edit whose cp failed worked on what was there, and
           \* nothing was written since that does not stem from it

vars == <<pc, file, maybe, step, select, saved, copied, mixed>>

\* unsafe: the parameters have an @, which sed takes for its own syntax.
Selection == [value : Values, fields : SUBSET Field, unsafe : BOOLEAN]

TypeOK ==
  /\ pc \in {"grub", "session", "menus", "copy", "sed", "umount"}
  /\ file \in File
  /\ maybe \in SUBSET File
  /\ step \in 0 .. 5
  /\ select \in Selection
  /\ saved \in BOOLEAN
  /\ copied \in BOOLEAN
  /\ mixed \in BOOLEAN

Init ==
  /\ pc = "grub"
  /\ file = Template
  /\ maybe = {Template}
  /\ step = 0
  /\ select \in [value : Values, fields : {{}}, unsafe : {FALSE}]
  /\ saved = FALSE
  /\ copied = FALSE
  /\ mixed = FALSE

GoTo(from, to) == pc = from /\ pc' = to

\* The file is replaced; nothing says which version is on the disk.
Replace(new) ==
  /\ file' = new
  /\ maybe' = maybe \cup {new, Empty, Missing}

\* What was selected, as a file.
Wanted == [kind |-> "text",
           val |-> [f \in Field |-> IF f \in select.fields THEN select.value ELSE Default]]

\* Without settings.cfg there is no $kernel to load.
Usable == file.kind = "text"

-----------------------------------------------------------------------------

\* menuentry "ChromeOS"
BootChromeOS ==
  /\ GoTo("grub", "session")
  /\ Usable
  /\ UNCHANGED <<file, maybe, step, select, saved, copied, mixed>>

\* Mutant: the settings entry boots the kernel of settings.cfg, too.
BootSettingsWithKernel ==
  /\ GoTo("grub", "menus")
  /\ Usable
  /\ UNCHANGED <<file, maybe, step, select, saved, copied, mixed>>

\* menuentry "ChromeOS (settings)": it boots /kernel with options= and
\* edit_brunch_config=1, and brunch-init runs brunch-setup.
BootSettings ==
  /\ GoTo("grub", "menus")
  /\ UNCHANGED <<file, maybe, step, select, saved, copied, mixed>>

\* edit-brunch-config, which needs a settings.cfg to start brunch-setup.
EditInSession ==
  /\ GoTo("session", "menus")
  /\ file.kind # "missing"
  /\ UNCHANGED <<file, maybe, step, select, saved, copied, mixed>>

\* The seven pages of menus.  The kernel is one of the list, the parameters are
\* at least a space, and the bootsplash is one of the list or, in verbose mode,
\* empty; no options and no verbose mode are what the template holds.
Select ==
  /\ GoTo("menus", "copy")
  /\ \E v \in Values, fs \in SUBSET Field, u \in BOOLEAN :
       /\ {"kernel", "cmdline_params", "brunch_bootsplash"} \subseteq fs
       /\ select' = [value |-> v, fields |-> fs, unsafe |-> u]
  /\ step' = 0
  /\ saved' = FALSE
  /\ copied' = FALSE
  /\ UNCHANGED <<file, maybe, mixed>>

\* Mutant: the substitutions start from the settings there are.
KeepSettings ==
  /\ GoTo("copy", "sed")
  /\ copied' = TRUE
  /\ UNCHANGED <<file, maybe, step, select, saved, mixed>>

\* cp template.cfg settings.cfg
CopyTemplate ==
  /\ GoTo("copy", "sed")
  /\ Replace(Template)
  /\ copied' = TRUE
  /\ UNCHANGED <<step, select, saved, mixed>>

\* A cp that does not work leaves what there was, or has emptied it already;
\* template.cfg is so short that it is written at once or not at all.
CutShort == UNCHANGED <<file, maybe>> \/ Replace(Empty)

\* The status of cp is not looked at: sed goes on with what is there.
CopyFails ==
  /\ GoTo("copy", "sed")
  /\ CutShort
  /\ mixed' = TRUE
  /\ UNCHANGED <<step, select, saved, copied>>

\* A user types @, which ends the pattern of the sed expression.
SedFails(f) == f = "cmdline_params" /\ select.unsafe

\* sed -i s@field="default"@field="selection"@g: a file of its own that is
\* renamed to settings.cfg; nothing is done when sed does not understand it, or
\* when there is no settings.cfg.
Substitute ==
  /\ pc = "sed" /\ step < 5
  /\ step' = step + 1
  /\ LET f == Fields[step + 1] IN
       IF SedFails(f) \/ file.kind = "missing" THEN UNCHANGED <<file, maybe>>
       ELSE Replace(IF Usable /\ file.val[f] = Default
                    THEN [file EXCEPT !.val[f] = Wanted.val[f]]
                    ELSE file)
  /\ UNCHANGED <<pc, select, saved, copied, mixed>>

\* Mutant: the last substitution is left out.
FinishEarly ==
  /\ GoTo("sed", "umount") /\ step = 4
  /\ saved' = TRUE
  /\ UNCHANGED <<file, maybe, step, select, copied, mixed>>

\* "Brunch configuration saved."
Finish ==
  /\ GoTo("sed", "umount") /\ step = 5
  /\ saved' = TRUE
  /\ UNCHANGED <<file, maybe, step, select, copied, mixed>>

\* Ctrl-C kills the command that is running, a cp or a sed whose own file is not
\* renamed yet, and the trap ends brunch-setup.
Interrupt ==
  /\ pc \in {"menus", "copy", "sed"} /\ pc' = "umount"
  /\ IF pc = "copy" THEN CutShort ELSE UNCHANGED <<file, maybe>>
  /\ UNCHANGED <<step, select, saved, copied, mixed>>

\* The EFI partition is unmounted, and then the machine restarts.
Unmount ==
  /\ GoTo("umount", "grub")
  /\ maybe' = {file}
  /\ mixed' = (mixed /\ ~ copied)
  /\ UNCHANGED <<file, step, select, saved, copied>>

\* A session that edits nothing ends.
Restart ==
  /\ GoTo("session", "grub")
  /\ UNCHANGED <<file, maybe, step, select, saved, copied, mixed>>

PowerLoss ==
  /\ pc' = "grub"
  /\ file' \in maybe
  /\ maybe' = {file'}
  /\ saved' = FALSE
  /\ copied' = FALSE
  /\ UNCHANGED <<step, select, mixed>>

Setup == CopyTemplate \/ CopyFails \/ Substitute \/ Finish \/ Unmount

Next ==
  \/ BootChromeOS \/ BootSettings \/ EditInSession \/ Select
  \/ Setup \/ Interrupt \/ Restart \/ PowerLoss

Spec == Init /\ [][Next]_vars

\* brunch-setup runs on, and a user who cannot boot uses the other entry and
\* goes through the menus.
FairSpec ==
  /\ Spec
  /\ WF_vars(Setup)
  /\ WF_vars(BootSettings /\ ~ Usable)
  /\ WF_vars(Select)

-----------------------------------------------------------------------------

OneSelection(c) ==
  \A f, g \in Field : c.val[f] # Default /\ c.val[g] # Default => c.val[f] = c.val[g]

\* Edits that are cut short, by a power loss or by Ctrl-C, and begun again
\* leave a part of one selection in settings.cfg, never parts of two: only an
\* edit whose cp failed may, until one whose cp worked is on the disk (266-271).
NoMixture == mixed \/ \A c \in maybe \cup {file} : OneSelection(c)

\* "Brunch configuration saved." (273) is said when settings.cfg holds all that
\* was selected, but parameters with an @, unless the cp failed.
SavedAsSelected ==
  saved /\ copied =>
    /\ Usable
    /\ \A f \in Field : file.val[f] = IF SedFails(f) THEN Default ELSE Wanted.val[f]

\* The same of every edit that says so; the code does not keep it, since it
\* looks at the status of none of the six commands.
SavedMeansSelected == saved => Usable /\ file.val = Wanted.val

\* A machine whose settings.cfg was lost in an edit gets a usable one again,
\* unless the edits that should repair it are cut short, or fail, for ever
\* (grub.cfg, 16-19).
Undisturbed == <>[][~ PowerLoss /\ ~ Interrupt /\ ~ CopyFails]_vars
SettingsComeBack == Undisturbed => (~ Usable ~> Usable)

-----------------------------------------------------------------------------

\* From the copy on the file has nothing that was not selected now.
EditInv ==
  /\ file \in maybe
  /\ pc = "copy" => step = 0 /\ ~ copied
  /\ pc = "sed" => copied \/ mixed
  /\ copied => Usable /\ \A f \in Field : file.val[f] \in {Default, select.value}

\* A substitution writes its field and no other.
ProgressInv ==
  /\ pc = "sed" /\ copied =>
       \A i \in 1 .. 5 : file.val[Fields[i]] =
         IF i <= step /\ ~ SedFails(Fields[i]) THEN Wanted.val[Fields[i]] ELSE Default
  /\ saved => pc # "sed" /\ pc # "copy"

SetupInv == TypeOK /\ EditInv /\ ProgressInv /\ NoMixture /\ SavedAsSelected

=============================================================================
