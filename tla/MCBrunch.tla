------------------------------ MODULE MCBrunch ------------------------------
(***************************************************************************)
(* Values of the constants of Brunch for TLC.                              *)
(***************************************************************************)
EXTENDS Brunch, TLC

\* One kernel file, in every release: only the options vary.
OneKernel == [f \in Frameworks |-> [k \in KernelNames |-> CHOOSE v \in KernelVersions : TRUE]]

\* The first kernel is in every release, the others only in the first one:
\* an update of the framework can take away the kernel settings.cfg names.
SomeKernels ==
  LET first == CHOOSE k \in KernelNames : TRUE
      old == CHOOSE f \in Frameworks : TRUE
      version == CHOOSE g \in [KernelNames -> KernelVersions] :
                   \A k, l \in KernelNames : g[k] = g[l] => k = l
  IN [f \in Frameworks |->
        [k \in KernelNames |-> IF k = first \/ f = old THEN version[k] ELSE None]]

\* The settings of the template: the first of each.
Template == [debug   |-> CHOOSE d \in DebugFlags : TRUE,
             kernel  |-> CHOOSE k \in KernelNames : TRUE,
             options |-> CHOOSE o \in OptionSets : TRUE]

\* -f, -r or both; -e is left to FrameworkRequests.
PlainRequests == {j \in Jobs : ~ j.efi}

\* -f, with or without -e.
FrameworkRequests == {j \in Jobs : j.fw # None /\ j.img = None}

\* -r alone.
RecoveryRequests == {j \in Jobs : j.fw = None /\ j.img # None /\ ~ j.efi}

\* Images and releases are interchangeable in every safety property.
Symmetry == Permutations(Images) \cup Permutations(Frameworks)

\* So are the chromeos-update processes.
UpdaterSymmetry == Permutations(Updaters)

=============================================================================
