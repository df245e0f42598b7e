--------------------------- MODULE OptionPatches ----------------------------
(***************************************************************************)
(* The patches that depend on framework options and hardware, run by       *)
(* brunch-init in the order of their names on the new ROOT-A: 82-features, *)
(* 85-mesa_lnl, 86-intel_sof_fw and 87-arcvm_seccomp.  Every command of a  *)
(* patch that fails sets a bit of its exit status.                         *)
(***************************************************************************)
EXTENDS Integers, SequencesExt

CONSTANTS
  OptionStrings, \* values of options=, as sequences of words
  Hardware,      \* sets of iGPUs: "lnl", "mtl", "arl"
  DebugFlags,    \* whether cros_debug is on the command line
  Patches,       \* the patches, in the order of the glob
  Failures       \* for each patch, sets of commands that fail, by the bits they set

Words == {"lnl_mesa", "no_lnl_mesa", "sof_firmware", "no_sof_firmware", "lnl_audio_fw",
          "no_lnl_audio_fw", "arcvm_seccomp", "no_arcvm_seccomp", "acpi_power_button",
          "acpi_power_button_sleep"}

ASSUME PatchAssumption ==
  /\ OptionStrings \subseteq Seq(Words)
  /\ Hardware \subseteq SUBSET {"lnl", "mtl", "arl"}
  /\ DebugFlags \subseteq BOOLEAN
  /\ Patches \in Seq({"82", "85", "86", "87"})
  /\ Failures \in [{"82", "85", "86", "87"} -> SUBSET SUBSET (0 .. 10)]

Flags == {"shortcuts", "sandbox", "overlays", "legacy", "tablet", "gl"}

VARIABLES
  hw,      \* the iGPUs on the PCI bus
  opts,    \* $1
  debug,   \* cros_debug is on the kernel command line
  root,    \* ROOT-A
  next,    \* the patches that were run
  last     \* the patch that was run last: what failed, what was logged

patchVars == <<hw, opts, debug, root, next, last>>

\* chrome_dev.conf, the flags and the placeholder in ui.conf, the file crosvm
\* and the one it execs; and, a history, the flags that a command has set
\* without a failure since the patches were started.
Roots == [conf : SUBSET Flags, ui : SUBSET Flags, placeholder : BOOLEAN,
          crosvm : {"real", "wrapper"}, aside : {"none", "real", "wrapper"},
          set : SUBSET Flags]

\* A copy of ROOT-B.
Pristine == [conf |-> {}, ui |-> {}, placeholder |-> TRUE, crosvm |-> "real",
             aside |-> "none", set |-> {}]

NoPatch == [failed |-> {}, log |-> "success"]

PatchInit ==
  /\ hw \in Hardware
  /\ opts \in OptionStrings
  /\ debug \in DebugFlags
  /\ root = Pristine
  /\ next = 0
  /\ last = NoPatch

-----------------------------------------------------------------------------

\* Mutant: the first word decides.
FirstWins(found, on, off) ==
  FoldRight(LAMBDA w, v : IF w \in on THEN TRUE ELSE IF w \in off THEN FALSE ELSE v,
            opts, found)

\* The loop over the words of the options, after the PCI bus was looked at: the
\* variable after each word.
Verdicts(words, found, on, off) ==
  LET v[n \in 0 .. Len(words)] ==
        IF n = 0 THEN found
        ELSE IF words[n] \in on THEN TRUE ELSE IF words[n] \in off THEN FALSE ELSE v[n - 1]
  IN v

Wanted(found, on, off) == Verdicts(opts, found, on, off)[Len(opts)]

LnlMesa == Wanted("lnl" \in hw, {"lnl_mesa"}, {"no_lnl_mesa"})

SofFirmware ==
  Wanted(hw # {}, {"sof_firmware", "lnl_audio_fw"}, {"no_sof_firmware", "no_lnl_audio_fw"})

ArcvmSeccomp == Wanted("lnl" \in hw, {"arcvm_seccomp"}, {"no_arcvm_seccomp"})

Has(w) == w \in ToSet(opts)

-----------------------------------------------------------------------------

\* The commands of each patch that can fail, by the bit they set.
Commands(p) ==
  CASE p = "82" -> 0 .. 3
         \cup (IF Has("acpi_power_button") THEN {4, 5}
               ELSE IF Has("acpi_power_button_sleep") THEN {6, 7} ELSE {8})
         \cup (IF debug THEN {} ELSE {9, 10})
    [] p = "85" -> IF LnlMesa THEN {0, 1} ELSE {}
    [] p = "86" -> IF SofFirmware THEN {0} ELSE {}
    [] p = "87" -> IF ArcvmSeccomp THEN 0 .. 4 ELSE {}

\* The flag that each command of 82-features writes to chrome_dev.conf.
FlagOf == [b \in {1, 2, 3, 4, 6, 8} |->
             CASE b = 1 -> "shortcuts" [] b = 2 -> "sandbox" [] b = 3 -> "overlays"
               [] b = 4 -> "legacy" [] b \in {6, 8} -> "tablet"]

\* chrome_dev.conf is begun anew with the flags of the commands that work and,
\* without cros_debug, replaces the placeholder in ui.conf.
Features(r, failed) ==
  LET new == {FlagOf[b] : b \in (Commands("82") \cap DOMAIN FlagOf) \ failed}
      conf == (IF 1 \in failed THEN r.conf ELSE {}) \cup new
      baked == ~ debug /\ 10 \notin failed
  IN [r EXCEPT !.conf = conf,
               !.set = new,
               !.ui = IF baked /\ r.placeholder THEN conf ELSE @,
               !.placeholder = @ /\ ~ baked]

\* Mutant: cat > for cat >>.
MesaAlone(r, failed) ==
  IF LnlMesa /\ 1 \notin failed
  THEN [r EXCEPT !.conf = {"gl"}, !.set = @ \cup {"gl"}]
  ELSE r

\* The flags of the override are added to chrome_dev.conf.
Mesa(r, failed) ==
  IF LnlMesa /\ 1 \notin failed
  THEN [r EXCEPT !.conf = @ \cup {"gl"}, !.set = @ \cup {"gl"}]
  ELSE r

\* Mutant: crosvm is moved aside each time.
SeccompAgain(r, failed) ==
  IF ArcvmSeccomp THEN [r EXCEPT !.aside = r.crosvm, !.crosvm = "wrapper"] ELSE r

\* crosvm is moved aside once and a wrapper with its name execs it: cat > makes
\* the file, or empties the one that is there, before it may fail.
Seccomp(r, failed) ==
  IF ArcvmSeccomp
  THEN [r EXCEPT !.aside = IF r.aside # "none" \/ 2 \in failed THEN @ ELSE r.crosvm,
                 !.crosvm = "wrapper"]
  ELSE r

Effect(p, r, failed) ==
  CASE p = "82" -> Features(r, failed)
    [] p = "85" -> Mesa(r, failed)
    [] p = "86" -> r
    [] p = "87" -> Seccomp(r, failed)

\* The command that fails for what earlier ones left: the placeholder that
\* grep expects is replaced already.
Doomed(p, r) == IF p = "82" /\ ~ debug /\ ~ r.placeholder THEN {9} ELSE {}

\* Mutant: the status of the last command only.
StatusOfLast(failed) == IF 4 \in failed THEN 1 ELSE 0

\* exit $ret, of which the caller gets eight bits.
Status(failed) ==
  LET ret(b, n) == IF b \in failed THEN n ELSE 0
  IN (ret(0, 1) + ret(1, 2) + ret(2, 4) + ret(3, 8) + ret(4, 16) + ret(5, 32) + ret(6, 64)
       + ret(7, 128) + ret(8, 256) + ret(9, 512) + ret(10, 1024)) % 256

\* Patch p is run on ROOT-A and its exit status is logged.
RunOf(p, failed) ==
  /\ root' = Effect(p, root, failed)
  /\ last' = [failed |-> failed, log |-> IF Status(failed) = 0 THEN "success" ELSE "failed"]

\* brunch-init runs the next patch.
RunPatch ==
  /\ next < Len(Patches)
  /\ next' = next + 1
  /\ LET p == Patches[next + 1]
     IN \E f \in Failures[p] : RunOf(p, Commands(p) \cap (f \cup Doomed(p, root)))
  /\ UNCHANGED <<hw, opts, debug>>

\* The next rebuild, for other parameters: pv copies ROOT-B, or it fails and
\* leaves the patched root, which is mounted and patched again all the same.
Rebuild ==
  /\ next = Len(Patches)
  /\ next' = 0
  /\ opts' \in OptionStrings
  /\ debug' \in DebugFlags
  /\ root' \in {Pristine, root}
  /\ last' = NoPatch
  /\ UNCHANGED hw

PatchNext == RunPatch \/ Rebuild

PatchSpec == PatchInit /\ [][PatchNext]_patchVars

-----------------------------------------------------------------------------

\* Types; and a patch that the options or the hardware switch off touches
\* nothing that can fail (85:33, 86:59, 87:40).
PatchTypeOK ==
  /\ hw \in Hardware
  /\ opts \in OptionStrings
  /\ debug \in DebugFlags
  /\ root \in Roots
  /\ next \in 0 .. Len(Patches)
  /\ last \in [failed : SUBSET (0 .. 10), log : {"success", "failed"}]
  /\ next > 0 => last.failed \subseteq Commands(Patches[next])

\* The position of the last word of s in the options, 0 if there is none.
LastOf(s) == CHOOSE i \in 0 .. Len(opts) :
  /\ i = 0 \/ opts[i] \in s
  /\ \A j \in i + 1 .. Len(opts) : opts[j] \notin s

\* What the option forces on or off, whatever the hardware (85:12, 86:30, 87:19).
Forced(found, on, off, wanted) ==
  /\ LastOf(on) > LastOf(off) => wanted
  /\ LastOf(off) > LastOf(on) => ~ wanted
  /\ LastOf(on) = LastOf(off) => (wanted <=> found)

\* The options decide before the hardware, the last of two that contradict
\* each other does, and the old names keep working.
OptionsDecide ==
  /\ Forced("lnl" \in hw, {"lnl_mesa"}, {"no_lnl_mesa"}, LnlMesa)
  /\ Forced(hw # {}, {"sof_firmware", "lnl_audio_fw"},
            {"no_sof_firmware", "no_lnl_audio_fw"}, SofFirmware)
  /\ Forced("lnl" \in hw, {"arcvm_seccomp"}, {"no_arcvm_seccomp"}, ArcvmSeccomp)

\* What chrome is started with: ui.conf's flags and, on a machine in developer
\* mode (cros_debug), those of chrome_dev.conf.
ChromeFlags == root.ui \cup (IF debug THEN root.conf ELSE {})

\* The flags that a patch has set, those the graphics override requires among
\* them, are still there when the last patch has run: chrome is started with
\* them (82-features.sh:1-6, 85-mesa_lnl.sh:9).
FlagsReachChrome == next = Len(Patches) => root.set \subseteq ChromeFlags

\* Whatever crosvm is called, ChromeOS's own is executed in the end: running
\* the patch on a root that has it already does not wrap the wrapper (87:50-52).
CrosvmIsReached ==
  root.crosvm = "real" \/ root.aside = "real"

\* The flags for which each patch has one of its first eight commands: all but
\* the tablet power button that nobody asked for.
Promised(p) ==
  CASE p = "82" -> {"shortcuts", "sandbox", "overlays"}
         \cup (IF Has("acpi_power_button") THEN {"legacy"}
               ELSE IF Has("acpi_power_button_sleep") THEN {"tablet"} ELSE {})
    [] p = "85" -> IF LnlMesa THEN {"gl"} ELSE {}
    [] OTHER -> {}

\* What the log does say: it is "success" exactly if none of the first eight
\* commands failed, and then the flags that they set are in chrome_dev.conf,
\* whatever else failed and was there before (brunch-init:185-191,
\* 82-features.sh:61, 85-mesa_lnl.sh:61).
SuccessSays ==
  /\ last.log = "success" <=> last.failed \cap (0 .. 7) = {}
  /\ next > 0 /\ last.log = "success" => Promised(Patches[next]) \subseteq root.conf

\* Not kept by the code: brunch-init:188, "success": none of the patch's
\* commands failed.  Of an exit status the caller gets eight bits (82:46, 55, 58).
SuccessMeansSuccess == last.log = "success" => last.failed = {}

-----------------------------------------------------------------------------
(***************************************************************************)
(* Why the invariants hold.                                                *)
(***************************************************************************)

\* The flags that were set are those of chrome_dev.conf, whatever fails.
FlagsInv == root.set \subseteq root.conf

\* crosvm is ChromeOS's own until that was moved aside.
CrosvmInv == IF root.aside = "none" THEN root.crosvm = "real" ELSE root.aside = "real"

=============================================================================
