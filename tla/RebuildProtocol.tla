--------------------------- MODULE RebuildProtocol ---------------------------
(***************************************************************************)
(* What rebuilding the ChromeOS root file system promises, without saying  *)
(* how: a redo transaction.  A rebuild may start only when one is owed,    *)
(* leaves nothing owed only after it completed, and one that is cut short  *)
(* under parameters p stays owed to the next boot under p.                 *)
(***************************************************************************)
CONSTANT Params   \* what a build depends on besides the two images

VARIABLES
  phase,      \* "partial" while ROOT-A is being overwritten or was cut short
  target,     \* the parameters ROOT-A was last (being) built with
  committed,  \* {p} if the record vouches for p, {} if it vouches for nothing
  pending     \* an update has been announced and not yet been built

protocolVars == <<phase, target, committed, pending>>

ProtocolInit ==
  /\ phase = "partial"
  /\ target \in Params
  /\ committed = {}
  /\ pending = FALSE

Owed(p) == pending \/ p \notin committed

Start ==
  /\ \E p \in Params : Owed(p) /\ target' = p
  /\ phase' = "partial"
  /\ UNCHANGED <<committed, pending>>

Complete ==
  /\ phase' = "complete"
  /\ UNCHANGED <<target, committed, pending>>

Acknowledge ==
  /\ phase = "complete"
  /\ pending' = FALSE
  /\ UNCHANGED <<phase, target, committed>>

Commit ==
  /\ phase = "complete"
  /\ committed' = {target}
  /\ UNCHANGED <<phase, target, pending>>

\* A new framework, or a power loss half way through writing the record.
Forget ==
  /\ committed' = {}
  /\ UNCHANGED <<phase, target, pending>>

Announce ==
  /\ pending' = TRUE
  /\ UNCHANGED <<phase, target, committed>>

ProtocolNext == Start \/ Complete \/ Acknowledge \/ Commit \/ Forget \/ Announce

ProtocolSpec == ProtocolInit /\ [][ProtocolNext]_protocolVars

\* The promise: a rebuild that was cut short is owed to whoever boots again
\* with its parameters.
Redo == phase = "partial" => Owed(target)

=============================================================================
