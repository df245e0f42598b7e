------------------------------ MODULE MCClone -------------------------------
(***************************************************************************)
(* Values of the constants of BrunchClone for TLC.                         *)
(***************************************************************************)
EXTENDS BrunchClone, TLC

OneKernel == [f \in Frameworks |-> [k \in KernelNames |-> CHOOSE v \in KernelVersions : TRUE]]

Template == [debug   |-> CHOOSE d \in DebugFlags : TRUE,
             kernel  |-> CHOOSE k \in KernelNames : TRUE,
             options |-> CHOOSE o \in OptionSets : TRUE]

\* -f, -r or both.
PlainRequests == {j \in Jobs : ~ j.efi}

Symmetry == Permutations(Images) \cup Permutations(Frameworks)

=============================================================================
