------------------------------- MODULE MCBoot -------------------------------
(***************************************************************************)
(* What comes before the decision to rebuild, for TLC: settings.cfg, which *)
(* GRUB reads, and the search of /init for the disk.  They share no state, *)
(* so that each behaviour is one of either: part says of which, and the    *)
(* other one stays as it was.                                              *)
(***************************************************************************)
EXTENDS BrunchSetup, Discovery

CONSTANTS v1, v2

\* Two selections, so that an edit may follow one that was cut short.
MCValues == {v1, v2}

\* A value beyond the last one the counter takes.
MCTimeouts == {7}

VARIABLE part

bootVars == <<part, vars, discoveryVars>>

\* The search found the first disk, before the user edits the settings.
Started ==
  /\ disk = [d \in Disks |-> [skipped |-> FALSE, brunch |-> d = 1, removable |-> TRUE]]
  /\ args = [uuid |-> FALSE, path |-> FALSE]
  /\ holders = {} /\ stored = FALSE
  /\ present = {1} /\ listed = {1}
  /\ stage = "boot"
  /\ timer \in Timeouts
  /\ next = 1
  /\ bootdevice = 1

\* The settings are those of the template, before the search.
Unset == select = [value |-> v1, fields |-> {}, unsafe |-> FALSE] /\ Init

BootInit ==
  \/ part = "settings" /\ Init /\ Started
  \/ part = "search" /\ DiscoveryInit /\ Unset

BootNext ==
  \/ part = "settings" /\ Next /\ UNCHANGED <<part, discoveryVars>>
  \/ part = "search" /\ DiscoveryNext /\ UNCHANGED <<part, vars>>

\* The fairness of both; nothing of the part that rests is enabled.
BootSpec ==
  /\ BootInit /\ [][BootNext]_bootVars
  /\ WF_vars(Setup)
  /\ WF_vars(BootSettings /\ ~ Usable)
  /\ WF_vars(Select)
  /\ WF_discoveryVars(Script)

=============================================================================
