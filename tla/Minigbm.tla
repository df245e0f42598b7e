------------------------------ MODULE Minigbm -------------------------------
(***************************************************************************)
(* minigbm_create_default_device of brunch_minigbm_compat.c: crosvm, the   *)
(* virgl server or the camera asks for some graphics device while chrome   *)
(* needs to be the master of the card it drives and cards come and go.     *)
(***************************************************************************)
EXTENDS Naturals, FiniteSets

CONSTANTS
  Cards,
  Kinds   \* what a card may be: its driver, whether it has a render node, and
          \* the types of nodes that gbm_create_device works on

Types == {"render", "primary"}
Drivers == {"xe", "virtio_gpu", "vgem", "evdi", "udl"}

ASSUME GbmAssumption ==
  /\ IsFiniteSet(Cards)
  /\ Kinds \subseteq [driver : Drivers, render : BOOLEAN, gbm : SUBSET Types]

Nobody == "nobody"
NoNode == <<>>

VARIABLES
  kind,    \* of each card
  present, \* the cards that are plugged in
  master,  \* of each card: nobody, chrome or the process of this call
  pc,      \* where the call is
  todo,    \* the directory entries, or the devices, that are still to be tried
  devs,    \* what drmGetDevices2 found
  fds,     \* the nodes the process has open
  out,     \* the device that is returned
  steady   \* a history: no card came or went, and no call failed by chance,
           \* since the call began

gbmVars == <<kind, present, master, pc, todo, devs, fds, out, steady>>

Blocked(c) == kind[c].driver \in {"vgem", "evdi", "udl"}

\* Nodes of a card; the primary node is always there.
HasNode(c, t) == t = "primary" \/ kind[c].render

GbmInit ==
  /\ kind \in [Cards -> Kinds]
  /\ present \in SUBSET Cards
  /\ master \in [Cards -> {Nobody, "chrome"}]
  /\ \A c \in Cards \ present : master[c] = Nobody
  /\ pc = "idle"
  /\ todo = {}
  /\ devs = {}
  /\ fds = {}
  /\ out = NoNode
  /\ steady = FALSE

-----------------------------------------------------------------------------

\* Mutant: close is forgotten.
CloseNothing(n) == UNCHANGED <<fds, master>>

\* close(fd): a master that goes leaves the card to whoever asks next.
Close(n) ==
  /\ fds' = fds \ {n}
  /\ master' = [master EXCEPT ![n[1]] = IF @ = "caller" /\ n[2] = "primary" THEN Nobody ELSE @]

\* opendir: the entries "renderD*" of /dev/dri, or none if it fails.
Call ==
  /\ pc = "idle"
  /\ \E ok \in BOOLEAN :
       /\ pc' = "scan"
       /\ todo' = IF ok THEN {c \in present : HasNode(c, "render")} ELSE {}
       /\ steady' = ok
  /\ out' = NoNode
  /\ UNCHANGED <<kind, present, master, devs, fds>>

\* The node of an entry, in whatever order readdir has them, is opened.
ScanOpen ==
  /\ pc = "scan"
  /\ \E c \in todo, ok \in BOOLEAN :
       /\ todo' = todo \ {c}
       /\ IF ok /\ c \in present
          THEN fds' = fds \cup {<<c, "render">>} /\ pc' = "detect"
          ELSE UNCHANGED <<fds, pc>>
       /\ steady' = (steady /\ ok)
  /\ UNCHANGED <<kind, present, master, devs, out>>

\* detect_device_info: the node is closed if its driver does not answer or is
\* one of those that are blocked, and kept else.
Detect ==
  /\ pc = "detect"
  /\ \E n \in fds, ok \in BOOLEAN :
       /\ IF ok /\ n[1] \in present /\ ~ Blocked(n[1])
          THEN pc' = "create" /\ UNCHANGED <<fds, master>>
          ELSE pc' = "scan" /\ Close(n)
       /\ steady' = (steady /\ ok)
  /\ UNCHANGED <<kind, present, todo, devs, out>>

\* closedir without a node, or the device could not be made of the one found:
\* drmGetDevices2 lists the devices, or fails.
GetDevices ==
  \E ok \in BOOLEAN :
    /\ devs' = IF ok THEN present ELSE {}
    /\ todo' = devs'
    /\ pc' = "render"
    /\ steady' = (steady /\ ok)

ScanEnd ==
  /\ pc = "scan"
  /\ todo = {}
  /\ GetDevices
  /\ UNCHANGED <<kind, present, master, fds, out>>

\* gbm_create_device for the node that the scan found.
Create ==
  /\ pc = "create"
  /\ \E n \in fds :
       IF n[1] \in present /\ n[2] \in kind[n[1]].gbm
       THEN pc' = "done" /\ out' = n /\ UNCHANGED <<master, todo, devs, fds, steady>>
       ELSE Close(n) /\ GetDevices /\ UNCHANGED out
  /\ UNCHANGED <<kind, present>>

\* try_drm_devices, in whatever order they are listed: whoever opens a primary
\* node that has no master becomes it.
TryOpen ==
  /\ pc \in Types
  /\ fds = {}
  /\ \E c \in todo, ok \in BOOLEAN :
       /\ todo' = todo \ {c}
       /\ IF HasNode(c, pc) /\ ok /\ c \in present
          THEN /\ fds' = {<<c, pc>>}
               /\ master' = [master EXCEPT ![c] = IF pc = "primary" /\ @ = Nobody
                                                  THEN "caller" ELSE @]
          ELSE UNCHANGED <<fds, master>>
       /\ steady' = (steady /\ (ok \/ ~ HasNode(c, pc)))
  /\ UNCHANGED <<kind, present, pc, devs, out>>

\* Mutant: the accidental mastery is kept.
TryCreateKeepingMaster ==
  /\ pc \in Types
  /\ \E n \in fds :
       IF n[1] \in present /\ n[2] \in kind[n[1]].gbm
       THEN pc' = "done" /\ out' = n /\ UNCHANGED <<fds, master>>
       ELSE Close(n) /\ UNCHANGED <<pc, out>>
  /\ UNCHANGED <<kind, present, todo, devs, steady>>

\* gbm_create_device for a listed device; the mastery that came with a primary
\* node is given back, with the node or without it.
TryCreate ==
  /\ pc \in Types
  /\ \E n \in fds :
       IF n[1] \in present /\ n[2] \in kind[n[1]].gbm
       THEN /\ pc' = "done" /\ out' = n
            /\ master' = [master EXCEPT ![n[1]] = IF @ = "caller" THEN Nobody ELSE @]
            /\ UNCHANGED fds
       ELSE Close(n) /\ UNCHANGED <<pc, out>>
  /\ UNCHANGED <<kind, present, todo, devs, steady>>

\* Mutant: render nodes only.
TryEndSooner ==
  /\ pc \in Types
  /\ fds = {} /\ todo = {}
  /\ pc' = "done"
  /\ UNCHANGED <<kind, present, master, todo, devs, fds, out, steady>>

\* Mutant: tried until one works.
TryEndAgain ==
  /\ pc \in Types
  /\ fds = {} /\ todo = {}
  /\ pc' = (IF pc = "render" THEN "primary" ELSE "render")
  /\ todo' = devs
  /\ UNCHANGED <<kind, present, master, devs, fds, out, steady>>

\* The render nodes have been tried, then the primary ones.
TryEnd ==
  /\ pc \in Types
  /\ fds = {} /\ todo = {}
  /\ IF pc = "render" THEN pc' = "primary" /\ todo' = devs ELSE pc' = "done" /\ todo' = {}
  /\ UNCHANGED <<kind, present, master, devs, fds, out, steady>>

\* The caller is done with what it got, and may call again.
Release ==
  /\ pc = "done"
  /\ pc' = "idle"
  /\ IF fds = {} THEN UNCHANGED <<fds, master>> ELSE \E n \in fds : Close(n)
  /\ out' = NoNode
  /\ todo' = {}
  /\ devs' = {}
  /\ steady' = FALSE
  /\ UNCHANGED <<kind, present>>

\* Chrome becomes the master of a card, unless another process is.
ChromeTakes ==
  \E c \in present :
    /\ master[c] = Nobody
    /\ master' = [master EXCEPT ![c] = "chrome"]
    /\ UNCHANGED <<kind, present, pc, todo, devs, fds, out, steady>>

\* ... and gives it up.
ChromeDrops ==
  \E c \in present :
    /\ master[c] = "chrome"
    /\ master' = [master EXCEPT ![c] = Nobody]
    /\ UNCHANGED <<kind, present, pc, todo, devs, fds, out, steady>>

\* A card is plugged in or pulled out; one that comes back is taken for the one
\* that left.
Hotplug ==
  /\ \E c \in Cards :
       /\ present' = IF c \in present THEN present \ {c} ELSE present \cup {c}
       /\ master' = [master EXCEPT ![c] = IF c \in present THEN Nobody ELSE @]
  /\ steady' = FALSE
  /\ UNCHANGED <<kind, pc, todo, devs, fds, out>>

Step == ScanOpen \/ Detect \/ ScanEnd \/ Create \/ TryOpen \/ TryCreate \/ TryEnd

GbmNext == Call \/ Step \/ Release \/ ChromeTakes \/ ChromeDrops \/ Hotplug

\* The call runs on; that it is made, and that chrome does anything, is not
\* assumed.
GbmSpec == GbmInit /\ [][GbmNext]_gbmVars /\ WF_gbmVars(Step)

-----------------------------------------------------------------------------

GbmTypeOK ==
  /\ kind \in [Cards -> Kinds]
  /\ present \subseteq Cards
  /\ master \in [Cards -> {Nobody, "chrome", "caller"}]
  /\ pc \in {"idle", "scan", "detect", "create", "done"} \cup Types
  /\ todo \subseteq Cards
  /\ devs \subseteq Cards
  /\ fds \subseteq Cards \X Types
  /\ out \in fds \cup {NoNode}
  /\ steady \in BOOLEAN

\* The node that was opened is the only one: the caller that got a device owns
\* that descriptor, and one that got none has none left open (219-235, 281-288,
\* 255-267).
FdsOwned ==
  /\ GbmTypeOK
  /\ pc \in {"idle", "scan"} => fds = {}
  /\ pc = "done" => fds = (IF out = NoNode THEN {} ELSE {out})
  /\ Cardinality(fds) <= 1

\* Drop the master taken by accident "so programs that actually need it (e.g.
\* Chrome) aren't blocked" (259-261): a call that has ended holds none, and one
\* that has not holds that of the node it has open.
MasterGivenBack ==
  \A c \in Cards : master[c] = "caller" => pc = "primary" /\ fds = {<<c, "primary">>}

\* A call that found nothing, while nothing changed and nothing failed by
\* chance, has tried every node of every card (281-299).
NothingMeansNothing ==
  pc = "done" /\ out = NoNode /\ steady =>
    \A c \in present, t \in Types : HasNode(c, t) => t \notin kind[c].gbm

\* Whoever needs the card is not blocked for ever: whatever is plugged in or
\* out, the mastery that was taken by accident ends, and so does the call.
CallEnds == pc # "idle" ~> pc = "done"

-----------------------------------------------------------------------------
(***************************************************************************)
(* Why the invariants hold.                                                *)
(***************************************************************************)

\* Which nodes are open at each point of the call.
NodesInv ==
  /\ \A m, n \in fds : m = n
  /\ pc \in {"idle", "scan"} => fds = {}
  /\ pc \in {"detect", "create"} => \A n \in fds : n[2] = "render"
  /\ pc \in Types => \A n \in fds : n[2] = pc
  /\ pc = "done" => fds = (IF out = NoNode THEN {} ELSE {out})
  /\ pc # "done" => out = NoNode

\* The card has no such node, or no device can be made of it.
Useless(c, t) == HasNode(c, t) => t \notin kind[c].gbm

\* What a call that nothing disturbed knows of the cards: those it is through
\* with are useless, but for the one whose node is open.
TriedInv ==
  /\ pc \in Types => todo \subseteq devs
  /\ steady /\ pc \in Types =>
       /\ devs = present
       /\ \A n \in fds : n[1] \in present
       /\ \A c \in present \ todo : <<c, pc>> \in fds \/ Useless(c, pc)
  /\ steady /\ pc = "primary" => \A c \in present : Useless(c, "render")
  /\ steady /\ pc = "done" /\ out = NoNode =>
       \A c \in present, t \in Types : Useless(c, t)

\* The inductive invariant.
GbmInv == GbmTypeOK /\ NodesInv /\ MasterGivenBack /\ TriedInv

-----------------------------------------------------------------------------

\* How many steps a call has left at the most: it goes through the render nodes
\* of /dev/dri, then through those of the devices, then through the primary ones.
CallLeft ==
  LET all == Cardinality(Cards)
      rest == Cardinality(todo)
  IN CASE pc = "detect"  -> 4 * all + 2 * rest + 6
       [] pc = "scan"    -> 4 * all + 2 * rest + 5
       [] pc = "create"  -> 4 * all + 4
       [] pc = "render"  -> 2 * all + 2 * rest + Cardinality(fds) + 2
       [] pc = "primary" -> 2 * rest + Cardinality(fds) + 1
       [] OTHER          -> 0

\* Each step of a call brings it closer to its end, whatever is plugged in or
\* out and whatever fails meanwhile: it is never sent back to what it has tried,
\* and takes six steps for a card and five more at the most (196-300).
CallAdvances ==
  [][/\ CallLeft \in Nat
     /\ Call => CallLeft' <= 6 * Cardinality(Cards) + 5
     /\ Step => CallLeft' < CallLeft
     /\ ~ Step /\ ~ Call => CallLeft' = CallLeft]_gbmVars

=============================================================================
