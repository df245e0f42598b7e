----------------------------- MODULE NativeProofs -----------------------------
(***************************************************************************)
(* The code in C that Brunch brings: the shim of ARCVM for every width of  *)
(* a long and every largest errno that fits it, the probe of the minigbm   *)
(* driver for any set of cards and drivers, and the parser of the verity   *)
(* table for every sequence of words.                                      *)
(***************************************************************************)
EXTENDS SeccompShim, Minigbm, VerityTable, FiniteSetTheorems, TLAPS

-----------------------------------------------------------------------------
(***************************************************************************)
(* The shim never lets a filter in, and is syscall() in everything else.   *)
(***************************************************************************)

USE ShimAssumption

ShimInv ==
  /\ ShimTypeOK
  /\ NeverFiltered
  /\ OnlyTheFilterIsDropped
  /\ GlibcContract
  /\ ProbesAreExpected

\* The unsigned comparison of ret_errno holds for the kernel's errors, and for
\* no other long (53-62).
LEMMA ErrorRange ==
  ASSUME NEW r \in Longs
  PROVE  IsError(r) <=> r \in -MaxErrno .. -1
BY SMT DEF IsError, Unsigned, Longs

\* An int is a long, and the conversion keeps those that are one: -1 among them.
LEMMA Conversion ==
  ASSUME NEW c \in Calls, NEW x \in Longs
  PROVE  /\ Returned(c, x) \in Longs
         /\ ~ (c.fn = "prctl" /\ x \notin Ints) => Returned(c, x) = x
         /\ -1 \in Longs /\ Returned(c, -1) = -1
<1>1. IntHalf \in Nat \ {0} /\ Half \in Nat /\ IntHalf <= Half /\ x \in Int
  BY DEF Longs
<1>2. (x + IntHalf) % (2 * IntHalf) \in 0 .. (2 * IntHalf - 1)
  <2>1. \A n \in Int, m \in Nat \ {0} : n % m \in 0 .. (m - 1)
    OBVIOUS
  <2>2. x + IntHalf \in Int /\ 2 * IntHalf \in Nat \ {0}
    BY <1>1
  <2> QED
    BY <2>1, <2>2
<1>3. AsInt(x) \in Longs
  BY <1>1, <1>2 DEF AsInt, Longs
<1>4. -1 \in Longs /\ -1 \in Ints
  BY <1>1 DEF Longs, Ints
<1> QED
  BY <1>3, <1>4 DEF Returned, AsInt

\* What is stored for a call that gets to the kernel is a long and an errno.
LEMMA ForwardTypes ==
  ASSUME ShimTypeOK, NEW c \in Calls, NEW r \in Rets, Forward(c, r)
  PROVE  ShimTypeOK'
<1>1. r \in Longs
  OBVIOUS
<1>2. errno' \in 0 .. MaxErrno
  <2>1. CASE Normalized(c, r)
    BY <2>1 DEF Forward
  <2>2. CASE ~ Normalized(c, r) /\ IsError(r)
    <3>1. errno' = -r
      BY <2>2 DEF Forward
    <3>2. r \in -MaxErrno .. -1
      BY <1>1, <2>2, ErrorRange
    <3> QED
      BY <3>1, <3>2
  <2>3. CASE ~ Normalized(c, r) /\ ~ IsError(r)
    BY <2>3 DEF Forward, ShimTypeOK
  <2> QED
    BY <2>1, <2>2, <2>3
<1>3. result' \in Longs
  BY <1>1, Conversion DEF Forward
<1>4. filtered' \in BOOLEAN
  BY Zenon DEF Forward, ShimTypeOK
<1>5. /\ call' \in Calls
      /\ ret' \in Rets \cup {0}
      /\ entered' \in BOOLEAN
  BY DEF Forward
<1> QED
  BY <1>2, <1>3, <1>4, <1>5 DEF ShimTypeOK

LEMMA InitShim == ShimInit => ShimInv
<1> SUFFICES ASSUME ShimInit PROVE ShimInv
  OBVIOUS
<1>1. call \in Calls
  BY DEF ShimInit, Calls, Functions, Numbers, Asked
<1>2. ShimTypeOK
  <2>1. filtered \in BOOLEAN /\ entered \in BOOLEAN
    BY Zenon DEF ShimInit
  <2>2. errno \in 0 .. MaxErrno /\ result \in Longs /\ ret \in Rets \cup {0}
    BY DEF ShimInit, Longs
  <2> QED
    BY <1>1, <2>1, <2>2 DEF ShimTypeOK
<1>3. /\ call.what = "message"
      /\ ~ filtered
  BY DEF ShimInit
<1>4. NeverFiltered /\ ProbesAreExpected
  BY <1>3 DEF NeverFiltered, ProbesAreExpected
<1>5. OnlyTheFilterIsDropped /\ GlibcContract
  BY DEF ShimInit, OnlyTheFilterIsDropped, GlibcContract, ErrnoOf
<1> QED
  BY <1>2, <1>4, <1>5 DEF ShimInv

\* A dropped call installs nothing and tells the caller that it did.
LEMMA DropKeeps ==
  ASSUME ShimInv, NEW c \in Calls, Drop(c)
  PROVE  ShimInv'
<1>1. c.what = "filter"
  BY DEF Drop, InstallsFilter
<1>2. 0 \in Longs
  BY DEF Longs
<1>3. ShimTypeOK'
  BY <1>2 DEF ShimInv, ShimTypeOK, Drop
<1>4. NeverFiltered' /\ OnlyTheFilterIsDropped'
  BY <1>1 DEF ShimInv, NeverFiltered, OnlyTheFilterIsDropped, Drop
<1>5. GlibcContract' /\ ProbesAreExpected'
  BY <1>1 DEF Drop, GlibcContract, ErrnoOf, ProbesAreExpected
<1> QED
  BY <1>3, <1>4, <1>5 DEF ShimInv

\* A call that is forwarded asks for no filter, and fails exactly if the kernel
\* says so.
LEMMA ForwardKeeps ==
  ASSUME ShimInv, NEW c \in Calls, NEW r \in Rets, Forward(c, r)
  PROVE  ShimInv'
<1>1. r \in Longs /\ (IsError(r) <=> r \in -MaxErrno .. -1)
  BY ErrorRange
<1>2. ShimTypeOK'
  BY ForwardTypes DEF ShimInv
<1>3. c.what # "filter"
  <2>1. c.number \in {"prctl", "seccomp"} \/ c.what # "filter"
    BY DEF Calls, Numbers, Asked
  <2> QED
    BY <2>1 DEF Forward, InstallsFilter
<1>4. NeverFiltered'
  BY <1>3, Zenon DEF ShimInv, NeverFiltered, Forward
<1>5. OnlyTheFilterIsDropped'
  BY DEF Forward, OnlyTheFilterIsDropped
<1>6. GlibcContract'
  <2>1. CASE r \in -MaxErrno .. -1
    <3>1. result' = -1 /\ ret' = r /\ call' = c
      BY <1>1, <2>1, Conversion DEF Forward
    <3>2. c.number \notin {"memfd_create", "eventfd2"} => errno' = -r
      BY <1>1, <2>1 DEF Forward, Normalized
    <3> QED
      BY <2>1, <3>1, <3>2 DEF GlibcContract, ErrnoOf
  <2>2. CASE r \notin -MaxErrno .. -1
    <3>1. ret' = r /\ call' = c /\ result' = Returned(c, r)
      BY <1>1, <2>2 DEF Forward
    <3>2. result' = IF c.fn = "prctl" /\ r \notin Ints THEN AsInt(r) ELSE r
      BY <3>1 DEF Returned, AsInt
    <3> QED
      BY <2>2, <3>1, <3>2 DEF GlibcContract, ErrnoOf
  <2> QED
    BY <2>1, <2>2
<1>7. ProbesAreExpected'
  <2> SUFFICES ASSUME c.what = "probe", result' = -1
               PROVE  errno' \in {EINVAL, ENOSYS, EPERM}
    BY DEF ProbesAreExpected, Forward
  <2>1. c.fn = "syscall" /\ c.number \in {"memfd_create", "eventfd2"}
    BY DEF Calls, Functions, Numbers, Asked
  <2>2. IsError(r)
    <3>1. CASE ~ IsError(r)
      <4>1. r = -1
        BY <2>1, <3>1 DEF Forward, Returned
      <4>2. -1 \in -MaxErrno .. -1
        OBVIOUS
      <4> QED
        BY <1>1, <3>1, <4>1, <4>2
    <3> QED
      BY <3>1
  <2>3. CASE Normalized(c, r)
    BY <2>3 DEF Forward
  <2>4. CASE ~ Normalized(c, r)
    BY <2>1, <2>2, <2>4 DEF Forward, Normalized
  <2> QED
    BY <2>3, <2>4
<1> QED
  BY <1>2, <1>4, <1>5, <1>6, <1>7 DEF ShimInv

LEMMA NextShim == ShimInv /\ [ShimNext]_shimVars => ShimInv'
<1> SUFFICES ASSUME ShimInv, [ShimNext]_shimVars PROVE ShimInv'
  OBVIOUS
<1>1. CASE UNCHANGED shimVars
  BY <1>1 DEF shimVars, ShimInv, ShimTypeOK, NeverFiltered, OnlyTheFilterIsDropped, GlibcContract,
    ErrnoOf, ProbesAreExpected
<1>2. CASE ShimNext
  BY <1>2, DropKeeps, ForwardKeeps DEF ShimNext
<1> QED
  BY <1>1, <1>2

LEMMA ShimInvariance == ShimSpec => []ShimInv
BY InitShim, NextShim, PTL DEF ShimSpec

\* No sequence of calls leaves crosvm with a filter.
THEOREM FilterNeverInstalled == ShimSpec => []NeverFiltered
<1>1. ShimInv => NeverFiltered
  BY DEF ShimInv
<1> QED
  BY <1>1, ShimInvariance, PTL

\* Only what installs a filter is kept from the kernel.
THEOREM OnlyFilterDropped == ShimSpec => []OnlyTheFilterIsDropped
<1>1. ShimInv => OnlyTheFilterIsDropped
  BY DEF ShimInv
<1> QED
  BY <1>1, ShimInvariance, PTL

\* The contract of syscall(), up to the ends of the range of errors.
THEOREM SyscallContract == ShimSpec => []GlibcContract
<1>1. ShimInv => GlibcContract
  BY DEF ShimInv
<1> QED
  BY <1>1, ShimInvariance, PTL

\* The probes of mojo's channel survive whatever the kernel returns.
THEOREM ProbesSurvive == ShimSpec => []ProbesAreExpected
<1>1. ShimInv => ProbesAreExpected
  BY DEF ShimInv
<1> QED
  BY <1>1, ShimInvariance, PTL

\* A call that does not fail leaves errno alone.
THEOREM ErrnoKept == ShimSpec => ErrnoIsKept
<1>1. ShimInv /\ [ShimNext]_shimVars => [result' # -1 => errno' = errno]_shimVars
  <2> SUFFICES ASSUME ShimInv, ShimNext, result' # -1 PROVE errno' = errno
    OBVIOUS
  <2>1. ASSUME NEW c \in Calls, Drop(c) PROVE errno' = errno
    BY <2>1 DEF Drop
  <2>2. ASSUME NEW c \in Calls, NEW r \in Rets, Forward(c, r) PROVE errno' = errno
    <3>1. Returned(c, -1) = -1
      BY <2>2, Conversion
    <3>2. ~ IsError(r)
      BY <2>2, <3>1 DEF Forward
    <3> QED
      BY <2>2, <3>2 DEF Forward, Normalized
  <2> QED
    BY <2>1, <2>2 DEF ShimNext
<1> QED
  BY <1>1, ShimInvariance, PTL DEF ShimSpec, ErrnoIsKept

-----------------------------------------------------------------------------
(***************************************************************************)
(* The driver gives back the nodes and the mastery it takes, and finds     *)
(* what there is.                                                          *)
(***************************************************************************)

\* A node is the node of a card.
LEMMA NodesAreNodes ==
  ASSUME NEW n \in Cards \X Types
  PROVE  n = <<n[1], n[2]>> /\ n # NoNode
<1>1. n = <<n[1], n[2]>>
  OBVIOUS
<1> QED
  BY <1>1 DEF NoNode

\* What a close leaves: no node, and no mastery that came with it.
LEMMA Closing ==
  ASSUME GbmTypeOK, NodesInv, MasterGivenBack, NEW n \in fds, Close(n)
  PROVE  /\ fds' = {}
         /\ master' \in [Cards -> {Nobody, "chrome", "caller"}]
         /\ \A c \in Cards : master'[c] # "caller"
<1>1. fds' = {} /\ fds = {n}
  BY DEF Close, NodesInv
<1>2. n \in Cards \X Types /\ n = <<n[1], n[2]>>
  BY DEF GbmTypeOK
<1>3. master' \in [Cards -> {Nobody, "chrome", "caller"}]
  BY <1>2 DEF Close, GbmTypeOK
<1>4. ASSUME NEW c \in Cards, master'[c] = "caller"
      PROVE  FALSE
  <2>1. master[c] = "caller"
    BY <1>2, <1>4 DEF Close, GbmTypeOK, Nobody
  <2>2. n = <<c, "primary">>
    BY <1>1, <2>1 DEF MasterGivenBack
  <2> QED
    BY <1>4, <2>1, <2>2 DEF Close, GbmTypeOK, Nobody
<1> QED
  BY <1>1, <1>3, <1>4

LEMMA InitGbm == GbmInit => GbmInv
<1> SUFFICES ASSUME GbmInit PROVE GbmInv
  OBVIOUS
<1>1. GbmTypeOK
  BY DEF GbmInit, GbmTypeOK, Nobody
<1>2. NodesInv
  BY DEF GbmInit, NodesInv, Types
<1>3. MasterGivenBack
  BY DEF GbmInit, MasterGivenBack, Nobody
<1>4. TriedInv
  BY DEF GbmInit, TriedInv, Types
<1> QED
  BY <1>1, <1>2, <1>3, <1>4 DEF GbmInv

\* The scan of /dev/dri holds at most the node it looks at.
LEMMA ScanKeeps ==
  ASSUME GbmInv, Call \/ ScanOpen \/ Detect
  PROVE  GbmInv'
<1> USE DEF GbmInv, Types
<1>1. CASE Call
  <2>1. GbmTypeOK'
    BY <1>1 DEF Call, GbmTypeOK
  <2>2. NodesInv' /\ TriedInv'
    BY <1>1 DEF Call, NodesInv, TriedInv
  <2>3. MasterGivenBack'
    BY <1>1 DEF Call, MasterGivenBack
  <2> QED
    BY <2>1, <2>2, <2>3
<1>2. CASE ScanOpen
  <2>1. PICK c \in todo, ok \in BOOLEAN :
          /\ todo' = todo \ {c}
          /\ IF ok /\ c \in present
             THEN fds' = fds \cup {<<c, "render">>} /\ pc' = "detect"
             ELSE UNCHANGED <<fds, pc>>
          /\ steady' = (steady /\ ok)
    BY <1>2 DEF ScanOpen
  <2>2. pc = "scan" /\ UNCHANGED <<kind, present, master, devs, out>> /\ fds = {} /\ out = NoNode
    BY <1>2 DEF ScanOpen, NodesInv
  <2>3. c \in Cards
    BY DEF GbmTypeOK
  <2>4. steady' \in BOOLEAN
    BY <2>1, Zenon
  <2>5. fds' \in {{}, {<<c, "render">>}} /\ pc' = IF fds' = {} THEN "scan" ELSE "detect"
    BY <2>1, <2>2
  <2>6. GbmTypeOK'
    BY <2>1, <2>2, <2>3, <2>4, <2>5 DEF GbmTypeOK
  <2>7. NodesInv'
    BY <2>2, <2>5 DEF NodesInv
  <2>8. MasterGivenBack'
    BY <2>2, <2>5 DEF MasterGivenBack
  <2>9. TriedInv'
    BY <2>5 DEF TriedInv
  <2> QED
    BY <2>6, <2>7, <2>8, <2>9
<1>3. CASE Detect
  <2>1. PICK n \in fds, ok \in BOOLEAN :
          /\ IF ok /\ n[1] \in present /\ ~ Blocked(n[1])
             THEN pc' = "create" /\ UNCHANGED <<fds, master>>
             ELSE pc' = "scan" /\ Close(n)
          /\ steady' = (steady /\ ok)
    BY <1>3 DEF Detect
  <2>2. pc = "detect" /\ UNCHANGED <<kind, present, todo, devs, out>> /\ out = NoNode
    BY <1>3 DEF Detect, NodesInv
  <2>3. \/ pc' = "create" /\ fds' = fds /\ master' = master
        \/ /\ pc' = "scan" /\ fds' = {}
           /\ master' \in [Cards -> {Nobody, "chrome", "caller"}]
           /\ \A c \in Cards : master'[c] # "caller"
    BY <2>1, Closing
  <2>4. steady' \in BOOLEAN
    BY <2>1, Zenon
  <2>5. GbmTypeOK'
    BY <2>2, <2>3, <2>4 DEF GbmTypeOK
  <2>6. NodesInv'
    BY <2>2, <2>3 DEF NodesInv
  <2>7. MasterGivenBack'
    BY <2>2, <2>3 DEF MasterGivenBack
  <2>8. TriedInv'
    BY <2>3 DEF TriedInv
  <2> QED
    BY <2>5, <2>6, <2>7, <2>8
<1> QED
  BY <1>1, <1>2, <1>3

\* drmGetDevices2 is called with no node open, and all devices are still to be
\* tried.
LEMMA ListKeeps ==
  ASSUME GbmInv, GetDevices, UNCHANGED <<kind, present, out>>, out = NoNode,
         fds' = {},
         master' \in [Cards -> {Nobody, "chrome", "caller"}],
         \A c \in Cards : master'[c] # "caller"
  PROVE  GbmInv'
<1> USE DEF GbmInv, Types
<1>1. PICK ok \in BOOLEAN :
        /\ devs' = IF ok THEN present ELSE {}
        /\ todo' = devs'
        /\ pc' = "render"
        /\ steady' = (steady /\ ok)
  BY DEF GetDevices
<1>2. steady' \in BOOLEAN /\ (steady' => ok)
  BY <1>1, Zenon
<1>3. GbmTypeOK'
  BY <1>1, <1>2 DEF GbmTypeOK
<1>4. NodesInv'
  BY <1>1 DEF NodesInv
<1>5. MasterGivenBack'
  BY DEF MasterGivenBack
<1>6. TriedInv'
  BY <1>1, <1>2 DEF TriedInv
<1> QED
  BY <1>3, <1>4, <1>5, <1>6

LEMMA CreateKeeps ==
  ASSUME GbmInv, ScanEnd \/ Create
  PROVE  GbmInv'
<1> USE DEF GbmInv, Types
<1>1. CASE ScanEnd
  <2>1. fds = {} /\ out = NoNode /\ pc = "scan"
    BY <1>1 DEF ScanEnd, NodesInv
  <2>2. \A c \in Cards : master[c] # "caller"
    BY <2>1 DEF MasterGivenBack
  <2>3. master \in [Cards -> {Nobody, "chrome", "caller"}]
    BY DEF GbmTypeOK
  <2> QED
    BY <1>1, <2>1, <2>2, <2>3, ListKeeps DEF ScanEnd
<1>2. CASE Create
  <2>1. PICK n \in fds :
          IF n[1] \in present /\ n[2] \in kind[n[1]].gbm
          THEN pc' = "done" /\ out' = n /\ UNCHANGED <<master, todo, devs, fds, steady>>
          ELSE Close(n) /\ GetDevices /\ UNCHANGED out
    BY <1>2 DEF Create
  <2>2. UNCHANGED <<kind, present>> /\ pc = "create" /\ out = NoNode /\ fds = {n}
    BY <1>2, <2>1 DEF Create, NodesInv
  <2>3. CASE n[1] \in present /\ n[2] \in kind[n[1]].gbm
    <3>1. pc' = "done" /\ out' = n /\ UNCHANGED <<master, todo, devs, fds, steady>>
      BY <2>1, <2>3
    <3>2. n # NoNode
      BY <2>1, NodesAreNodes DEF GbmTypeOK
    <3>3. GbmTypeOK'
      BY <2>2, <3>1 DEF GbmTypeOK
    <3>4. NodesInv'
      BY <2>2, <3>1, <3>2 DEF NodesInv
    <3>5. MasterGivenBack'
      BY <2>2, <3>1 DEF MasterGivenBack
    <3>6. TriedInv'
      BY <3>1, <3>2 DEF TriedInv
    <3> QED
      BY <3>3, <3>4, <3>5, <3>6
  <2>4. CASE ~ (n[1] \in present /\ n[2] \in kind[n[1]].gbm)
    <3>1. Close(n) /\ GetDevices /\ out' = out
      BY <2>1, <2>4
    <3> QED
      BY <2>2, <3>1, Closing, ListKeeps
  <2> QED
    BY <2>3, <2>4
<1> QED
  BY <1>1, <1>2

\* A node of the next device is opened, with the mastery if it is there for the
\* taking.
LEMMA OpenKeeps ==
  ASSUME GbmInv, TryOpen
  PROVE  GbmInv'
<1> USE DEF GbmInv
<1>1. PICK c \in todo, ok \in BOOLEAN :
        /\ todo' = todo \ {c}
        /\ IF HasNode(c, pc) /\ ok /\ c \in present
           THEN /\ fds' = {<<c, pc>>}
                /\ master' = [master EXCEPT ![c] = IF pc = "primary" /\ @ = Nobody
                                                   THEN "caller" ELSE @]
           ELSE UNCHANGED <<fds, master>>
        /\ steady' = (steady /\ (ok \/ ~ HasNode(c, pc)))
  BY DEF TryOpen
<1>2. /\ pc \in Types /\ fds = {} /\ out = NoNode /\ pc # "done"
      /\ UNCHANGED <<kind, present, pc, devs, out>>
  BY DEF TryOpen, NodesInv, Types
<1>3. c \in Cards /\ steady' \in BOOLEAN
  <2>1. c \in Cards
    BY DEF GbmTypeOK
  <2>2. steady' \in BOOLEAN
    BY <1>1, Zenon
  <2> QED
    BY <2>1, <2>2
<1>4. \/ fds' = {} /\ master' = master
      \/ /\ fds' = {<<c, pc>>} /\ c \in present
         /\ master' = [master EXCEPT ![c] = IF pc = "primary" /\ @ = Nobody THEN "caller" ELSE @]
  BY <1>1, <1>2
<1>5. GbmTypeOK'
  <2>1. fds' \subseteq Cards \X Types
    BY <1>2, <1>3, <1>4
  <2>2. master' \in [Cards -> {Nobody, "chrome", "caller"}]
    BY <1>3, <1>4 DEF GbmTypeOK
  <2> QED
    BY <1>1, <1>2, <1>3, <2>1, <2>2 DEF GbmTypeOK
<1>6. NodesInv'
  BY <1>2, <1>4 DEF NodesInv, Types
<1>7. MasterGivenBack'
  <2>1. \A d \in Cards : master[d] # "caller"
    BY <1>2 DEF MasterGivenBack
  <2> QED
    BY <1>2, <1>3, <1>4, <2>1 DEF MasterGivenBack, GbmTypeOK
<1>8. TriedInv'
  <2>1. todo' \subseteq devs'
    BY <1>1, <1>2 DEF TriedInv
  <2>2. ASSUME steady'
        PROVE  /\ devs' = present'
               /\ \A n \in fds' : n[1] \in present'
               /\ \A d \in present' \ todo' : <<d, pc'>> \in fds' \/ Useless(d, pc)'
    <3>1. steady /\ (ok \/ ~ HasNode(c, pc))
      BY <1>1, <2>2
    <3>2. /\ devs = present /\ todo \subseteq devs
          /\ \A d \in present \ todo : Useless(d, pc)
      BY <1>2, <3>1 DEF TriedInv
    <3>3. c \in present
      BY <3>2
    <3>4. <<c, pc>> \in fds' \/ Useless(c, pc)
      BY <1>1, <3>1, <3>3 DEF Useless
    <3>5. \A d \in Cards : Useless(d, pc)' <=> Useless(d, pc)
      BY <1>2 DEF Useless, HasNode
    <3>6. present \subseteq Cards
      BY DEF GbmTypeOK
    <3> QED
      BY <1>1, <1>2, <1>4, <3>2, <3>3, <3>4, <3>5, <3>6
  <2>3. steady' /\ pc' = "primary" => \A d \in present' : Useless(d, "render")'
    BY <1>1, <1>2 DEF TriedInv, Useless, HasNode
  <2> QED
    BY <1>2, <2>1, <2>2, <2>3 DEF TriedInv
<1> QED
  BY <1>5, <1>6, <1>7, <1>8

\* The mastery goes with the node, or is dropped before the node is returned.
LEMMA TryKeeps ==
  ASSUME GbmInv, TryCreate
  PROVE  GbmInv'
<1> USE DEF GbmInv
<1>1. PICK n \in fds :
        IF n[1] \in present /\ n[2] \in kind[n[1]].gbm
        THEN /\ pc' = "done" /\ out' = n
             /\ master' = [master EXCEPT ![n[1]] = IF @ = "caller" THEN Nobody ELSE @]
             /\ UNCHANGED fds
        ELSE Close(n) /\ UNCHANGED <<pc, out>>
  BY DEF TryCreate
<1>2. /\ pc \in Types /\ fds = {n} /\ out = NoNode /\ pc # "done" /\ n[2] = pc
      /\ UNCHANGED <<kind, present, todo, devs, steady>>
  BY <1>1 DEF TryCreate, NodesInv, Types
<1>3. n \in Cards \X Types /\ n = <<n[1], n[2]>> /\ n[1] \in Cards
  BY DEF GbmTypeOK
<1>4. CASE n[1] \in present /\ n[2] \in kind[n[1]].gbm
  <2>1. /\ pc' = "done" /\ out' = n /\ fds' = fds
        /\ master' = [master EXCEPT ![n[1]] = IF @ = "caller" THEN Nobody ELSE @]
    BY <1>1, <1>4
  <2>2. n # NoNode
    BY <1>3 DEF NoNode
  <2>3. GbmTypeOK'
    BY <1>2, <1>3, <2>1 DEF GbmTypeOK
  <2>4. NodesInv'
    BY <1>2, <2>1, <2>2 DEF NodesInv, Types
  <2>5. MasterGivenBack'
    <3>1. \A c \in Cards : master[c] = "caller" => c = n[1]
      BY <1>2 DEF MasterGivenBack
    <3> QED
      BY <1>3, <2>1, <3>1 DEF MasterGivenBack, GbmTypeOK, Nobody
  <2>6. TriedInv'
    BY <2>1, <2>2 DEF TriedInv, Types
  <2> QED
    BY <2>3, <2>4, <2>5, <2>6
<1>5. CASE ~ (n[1] \in present /\ n[2] \in kind[n[1]].gbm)
  <2>1. pc' = pc /\ out' = out /\ Close(n)
    BY <1>1, <1>5
  <2>2. /\ fds' = {}
        /\ master' \in [Cards -> {Nobody, "chrome", "caller"}]
        /\ \A c \in Cards : master'[c] # "caller"
    BY <2>1, Closing
  <2>3. GbmTypeOK'
    BY <1>2, <2>1, <2>2 DEF GbmTypeOK
  <2>4. NodesInv'
    BY <1>2, <2>1, <2>2 DEF NodesInv, Types
  <2>5. MasterGivenBack'
    BY <2>2 DEF MasterGivenBack
  <2>6. TriedInv'
    <3>1. \A c, t : Useless(c, t)' <=> Useless(c, t)
      BY <1>2 DEF Useless, HasNode
    <3>2. steady => Useless(n[1], pc)
      BY <1>2, <1>5 DEF TriedInv, Useless
    <3>3. steady => \A c \in present \ todo : Useless(c, pc)
      <4> SUFFICES ASSUME steady, NEW c \in present \ todo, <<c, pc>> \in fds
                   PROVE  Useless(c, pc)
        BY <1>2 DEF TriedInv
      <4>1. c = n[1]
        BY <1>2
      <4> QED
        BY <3>2, <4>1
    <3> QED
      BY <1>2, <2>1, <2>2, <3>1, <3>3 DEF TriedInv
  <2> QED
    BY <2>3, <2>4, <2>5, <2>6
<1> QED
  BY <1>4, <1>5

LEMMA TryEndKeeps ==
  ASSUME GbmInv, TryEnd
  PROVE  GbmInv'
<1> USE DEF GbmInv
<1>1. /\ pc \in Types /\ fds = {} /\ todo = {} /\ out = NoNode
      /\ UNCHANGED <<kind, present, master, devs, fds, out, steady>>
      /\ \/ pc = "render" /\ pc' = "primary" /\ todo' = devs
         \/ pc = "primary" /\ pc' = "done" /\ todo' = {}
  BY DEF TryEnd, NodesInv, Types
<1>2. GbmTypeOK'
  BY <1>1 DEF GbmTypeOK, Types
<1>3. NodesInv'
  BY <1>1 DEF NodesInv, Types
<1>4. MasterGivenBack'
  BY <1>1 DEF MasterGivenBack
<1>5. TriedInv'
  <2>1. \A c, t : Useless(c, t)' <=> Useless(c, t)
    BY <1>1 DEF Useless, HasNode
  <2>2. steady => devs = present /\ \A c \in present : Useless(c, pc)
    BY <1>1 DEF TriedInv
  <2>3. steady /\ pc = "primary" => \A c \in present : Useless(c, "render")
    BY DEF TriedInv
  <2> QED
    BY <1>1, <2>1, <2>2, <2>3 DEF TriedInv, Types
<1> QED
  BY <1>2, <1>3, <1>4, <1>5

\* Callers that are done, chrome and the cards themselves.
LEMMA OthersKeep ==
  ASSUME GbmInv, Release \/ ChromeTakes \/ ChromeDrops \/ Hotplug
  PROVE  GbmInv'
<1> USE DEF GbmInv
<1>1. CASE Release
  <2>1. /\ pc = "done" /\ pc' = "idle" /\ out' = NoNode /\ todo' = {} /\ devs' = {}
        /\ steady' = FALSE /\ UNCHANGED <<kind, present>>
    BY <1>1 DEF Release
  <2>2. /\ fds' = {} /\ master' \in [Cards -> {Nobody, "chrome", "caller"}]
        /\ \A c \in Cards : master'[c] # "caller"
    <3>1. CASE fds = {}
      BY <1>1, <2>1, <3>1 DEF Release, MasterGivenBack, GbmTypeOK
    <3>2. CASE fds # {}
      <4>1. PICK n \in fds : Close(n)
        BY <1>1, <3>2 DEF Release
      <4> QED
        BY <4>1, Closing
    <3> QED
      BY <3>1, <3>2
  <2>3. GbmTypeOK'
    BY <2>1, <2>2 DEF GbmTypeOK
  <2>4. NodesInv' /\ TriedInv'
    BY <2>1, <2>2 DEF NodesInv, TriedInv, Types
  <2>5. MasterGivenBack'
    BY <2>2 DEF MasterGivenBack
  <2> QED
    BY <2>3, <2>4, <2>5
<1>2. CASE ChromeTakes \/ ChromeDrops
  <2>1. PICK c \in present, m \in {"chrome", Nobody} : master' = [master EXCEPT ![c] = m]
    BY <1>2 DEF ChromeTakes, ChromeDrops
  <2>2. UNCHANGED <<kind, present, pc, todo, devs, fds, out, steady>>
    BY <1>2 DEF ChromeTakes, ChromeDrops
  <2>3. GbmTypeOK'
    BY <2>1, <2>2 DEF GbmTypeOK
  <2>4. NodesInv'
    BY <2>2 DEF NodesInv
  <2>5. MasterGivenBack'
    BY <2>1, <2>2 DEF MasterGivenBack, GbmTypeOK, Nobody
  <2>6. TriedInv'
    BY <2>2 DEF TriedInv, Useless, HasNode
  <2> QED
    BY <2>3, <2>4, <2>5, <2>6
<1>3. CASE Hotplug
  <2>1. PICK c \in Cards :
          /\ present' = IF c \in present THEN present \ {c} ELSE present \cup {c}
          /\ master' = [master EXCEPT ![c] = IF c \in present THEN Nobody ELSE @]
    BY <1>3 DEF Hotplug
  <2>2. steady' = FALSE /\ UNCHANGED <<kind, pc, todo, devs, fds, out>>
    BY <1>3 DEF Hotplug
  <2>3. GbmTypeOK'
    BY <2>1, <2>2 DEF GbmTypeOK
  <2>4. NodesInv'
    BY <2>2 DEF NodesInv
  <2>5. MasterGivenBack'
    BY <2>1, <2>2 DEF MasterGivenBack, GbmTypeOK, Nobody
  <2>6. TriedInv'
    BY <2>2 DEF TriedInv
  <2> QED
    BY <2>3, <2>4, <2>5, <2>6
<1> QED
  BY <1>1, <1>2, <1>3

LEMMA NextGbm == GbmInv /\ [GbmNext]_gbmVars => GbmInv'
<1> SUFFICES ASSUME GbmInv, [GbmNext]_gbmVars PROVE GbmInv'
  OBVIOUS
<1>1. CASE UNCHANGED gbmVars
  BY <1>1 DEF gbmVars, GbmInv, GbmTypeOK, NodesInv, MasterGivenBack, TriedInv, Useless, HasNode
<1>2. CASE GbmNext
  BY <1>2, ScanKeeps, CreateKeeps, OpenKeeps, TryKeeps, TryEndKeeps, OthersKeep
     DEF GbmNext, Step
<1> QED
  BY <1>1, <1>2

\* The invariant of the search for a device, for any number of cards of any
\* kind, whatever fails and whatever is plugged in or out (196-300).
THEOREM GbmInvariance == GbmSpec => []GbmInv
  BY InitGbm, NextGbm, PTL DEF GbmSpec

\* No descriptor is left open but the one that was returned.
THEOREM NodesAreOwned == GbmSpec => []FdsOwned
<1>1. GbmInv => FdsOwned
  <2> SUFFICES ASSUME GbmInv PROVE FdsOwned
    OBVIOUS
  <2>1. Cardinality(fds) <= 1
    <3>1. CASE fds = {}
      BY <3>1, FS_EmptySet
    <3>2. CASE fds # {}
      <4>1. PICK n \in fds : fds = {n}
        BY <3>2 DEF GbmInv, NodesInv
      <4>2. Cardinality({n}) = 1
        BY FS_Singleton
      <4> QED
        BY <4>1, <4>2
    <3> QED
      BY <3>1, <3>2
  <2> QED
    BY <2>1 DEF GbmInv, NodesInv, FdsOwned
<1> QED
  BY <1>1, GbmInvariance, PTL

\* The mastery of a card that came with its node is given back (259-261).
THEOREM MasteryIsGivenBack == GbmSpec => []MasterGivenBack
<1>1. GbmInv => MasterGivenBack
  BY DEF GbmInv
<1> QED
  BY <1>1, GbmInvariance, PTL

\* A call that finds nothing, undisturbed, has found that there is nothing.
THEOREM NothingIsOverlooked == GbmSpec => []NothingMeansNothing
<1>1. GbmInv => NothingMeansNothing
  BY DEF GbmInv, TriedInv, Useless, NothingMeansNothing
<1> QED
  BY <1>1, GbmInvariance, PTL

\* Sets of cards can be counted, and there is at most one node to count.
LEMMA Counted ==
  ASSUME NEW S \in SUBSET Cards
  PROVE  /\ IsFiniteSet(S)
         /\ Cardinality(Cards) \in Nat
         /\ Cardinality(S) \in 0 .. Cardinality(Cards)
  BY GbmAssumption, FS_Subset, FS_CardinalityType

LEMMA OneNode ==
  ASSUME NEW S, \A m, n \in S : m = n
  PROVE  Cardinality(S) = IF S = {} THEN 0 ELSE 1
<1>1. CASE S = {}
  BY <1>1, FS_EmptySet
<1>2. CASE S # {}
  <2>1. PICK n \in S : S = {n}
    BY <1>2
  <2> QED
    BY <1>2, <2>1, FS_Singleton
<1> QED
  BY <1>1, <1>2

\* What is to be counted in a state that satisfies the invariant.
LEMMA CallCounted ==
  ASSUME GbmInv
  PROVE  /\ Cardinality(Cards) \in Nat
         /\ Cardinality(todo) \in 0 .. Cardinality(Cards)
         /\ Cardinality(fds) = IF fds = {} THEN 0 ELSE 1
  BY Counted, OneNode DEF GbmInv, GbmTypeOK, NodesInv

\* What has been tried is not tried again.
LEMMA OneLess ==
  ASSUME GbmInv, NEW c \in todo
  PROVE  Cardinality(todo \ {c}) = Cardinality(todo) - 1
<1>1. IsFiniteSet(todo)
  BY Counted DEF GbmInv, GbmTypeOK
<1> QED
  BY <1>1, FS_RemoveElement

\* Every step of a call takes it nearer to its end.
LEMMA StepAdvances ==
  ASSUME GbmInv, GbmInv', Step
  PROVE  CallLeft' < CallLeft
<1> DEFINE all == Cardinality(Cards)
           rest == Cardinality(todo)
           open == Cardinality(fds)
           after == Cardinality(todo')
           kept == Cardinality(fds')
<1>1. /\ all \in Nat /\ rest \in 0 .. all /\ after \in 0 .. all
      /\ open = (IF fds = {} THEN 0 ELSE 1) /\ kept = (IF fds' = {} THEN 0 ELSE 1)
  <2>1. \A S \in SUBSET Cards : Cardinality(S) \in 0 .. all
    BY Counted
  <2>2. todo' \in SUBSET Cards /\ \A m, n \in fds' : m = n
    BY DEF GbmInv, GbmTypeOK, NodesInv
  <2> QED
    BY <2>1, <2>2, CallCounted, OneNode
<1>2. /\ pc = "detect" => CallLeft = 4 * all + 2 * rest + 6
      /\ pc = "scan" => CallLeft = 4 * all + 2 * rest + 5
      /\ pc = "create" => CallLeft = 4 * all + 4
      /\ pc = "render" => CallLeft = 2 * all + 2 * rest + open + 2
      /\ pc = "primary" => CallLeft = 2 * rest + open + 1
  BY DEF CallLeft
<1>3. /\ pc' = "detect" => CallLeft' = 4 * all + 2 * after + 6
      /\ pc' = "scan" => CallLeft' = 4 * all + 2 * after + 5
      /\ pc' = "create" => CallLeft' = 4 * all + 4
      /\ pc' = "render" => CallLeft' = 2 * all + 2 * after + kept + 2
      /\ pc' = "primary" => CallLeft' = 2 * after + kept + 1
      /\ pc' = "done" => CallLeft' = 0
  BY DEF CallLeft
<1> HIDE DEF all, rest, open, after, kept
<1>4. CASE ScanOpen
  <2>1. pc = "scan" /\ pc' \in {"scan", "detect"} /\ after = rest - 1
    BY <1>4, OneLess DEF ScanOpen, rest, after
  <2> QED
    BY <1>1, <1>2, <1>3, <2>1
<1>5. CASE Detect
  <2>1. pc = "detect" /\ pc' \in {"create", "scan"} /\ after = rest
    BY <1>5 DEF Detect, rest, after
  <2> QED
    BY <1>1, <1>2, <1>3, <2>1
<1>6. CASE ScanEnd
  <2>1. pc = "scan" /\ pc' = "render"
    BY <1>6 DEF ScanEnd, GetDevices
  <2> QED
    BY <1>1, <1>2, <1>3, <2>1
<1>7. CASE Create
  <2>1. pc = "create" /\ pc' \in {"done", "render"}
    BY <1>7 DEF Create, GetDevices
  <2> QED
    BY <1>1, <1>2, <1>3, <2>1
<1>8. CASE TryOpen
  <2>1. pc \in {"render", "primary"} /\ pc' = pc /\ after = rest - 1 /\ open = 0
    BY <1>1, <1>8, OneLess DEF TryOpen, Types, rest, after
  <2> QED
    BY <1>1, <1>2, <1>3, <2>1
<1>9. CASE TryCreate
  <2>1. pc \in {"render", "primary"}
    BY <1>9 DEF TryCreate, Types
  <2>2. pc' = "done" \/ (pc' = pc /\ after = rest /\ fds # {} /\ fds' = {})
    BY <1>9, Closing DEF TryCreate, GbmInv, rest, after
  <2> QED
    BY <1>1, <1>2, <1>3, <2>1, <2>2
<1>10. CASE TryEnd
  <2>1. pc' = "done" \/ (pc' = "primary" /\ pc = "render")
    BY <1>10 DEF TryEnd, Types
  <2>2. pc \in {"render", "primary"} /\ fds' = {}
    BY <1>10 DEF TryEnd, Types
  <2> QED
    BY <1>1, <1>2, <1>3, <2>1, <2>2
<1> QED
  BY <1>4, <1>5, <1>6, <1>7, <1>8, <1>9, <1>10 DEF Step

\* Every step of a call takes it nearer to its end, whatever the other processes
\* and the cards do: it takes six steps for a card, and five more, at the most
\* (196-300).
THEOREM CallsAdvance == GbmSpec => CallAdvances
<1> DEFINE all == Cardinality(Cards)
           Advance == /\ CallLeft \in Nat
                      /\ Call => CallLeft' <= 6 * Cardinality(Cards) + 5
                      /\ Step => CallLeft' < CallLeft
                      /\ ~ Step /\ ~ Call => CallLeft' = CallLeft
<1>1. ASSUME GbmInv PROVE CallLeft \in Nat
  BY <1>1, CallCounted DEF CallLeft
<1>2. ASSUME GbmInv', Call PROVE CallLeft' <= 6 * all + 5
  <2>1. all \in Nat /\ Cardinality(todo') \in 0 .. all
    BY <1>2, Counted DEF GbmInv, GbmTypeOK
  <2>2. CallLeft' = 4 * all + 2 * Cardinality(todo') + 5
    BY <1>2 DEF Call, CallLeft
  <2> HIDE DEF all
  <2> QED
    BY <2>1, <2>2
<1>3. Release \/ ChromeTakes \/ ChromeDrops \/ Hotplug => CallLeft' = CallLeft
  BY DEF Release, ChromeTakes, ChromeDrops, Hotplug, CallLeft
<1>4. GbmInv /\ GbmInv' /\ [GbmNext]_gbmVars => [Advance]_gbmVars
  BY <1>1, <1>2, <1>3, StepAdvances DEF GbmNext
<1> QED
  BY <1>4, GbmInvariance, PTL DEF GbmSpec, CallAdvances

-----------------------------------------------------------------------------
(***************************************************************************)
(* The parser of the verity table frees what it allocates and gives the    *)
(* kernel what the table says.                                             *)
(***************************************************************************)

USE TableAssumption

\* The words of a table that the invariant admits.
LEMMA WordsOfTable ==
  ASSUME VerityTypeOK
  PROVE  /\ Len(table) \in Nat
         /\ \A j \in 1 .. Len(table) : table[j] \in TableWords
         /\ i \in Nat \ {0}
         /\ \A j \in 1 .. i - 1 : j \in 1 .. Len(table)
<1>1. table \in Seq(TableWords)
  BY DEF VerityTypeOK
<1>2. Len(table) \in Nat /\ \A j \in 1 .. Len(table) : table[j] \in TableWords
  BY <1>1
<1> QED
  BY <1>2 DEF VerityTypeOK

LEMMA InitVerity == VerityInit => VerityInv
<1> SUFFICES ASSUME VerityInit PROVE VerityInv
  OBVIOUS
<1>1. VerityTypeOK
  BY DEF VerityInit, VerityTypeOK, Fresh
<1>2. Hashstarts = {} /\ \A k : Before(k) = {} /\ Seen(k) = {}
  BY DEF VerityInit, Hashstarts, Before, Seen
<1>3. SlotsInv
  BY <1>2 DEF VerityInit, SlotsInv, Fresh
<1>4. BuffersInv
  BY DEF VerityInit, BuffersInv
<1>5. GivenInv
  BY DEF VerityInit, GivenInv
<1>6. OnlyReplacedLeak
  BY DEF VerityInit, OnlyReplacedLeak, Ended
<1> QED
  BY <1>1, <1>3, <1>4, <1>5, <1>6 DEF VerityInv

\* The buffer that hashstart points to is the one that none took the place of.
LEMMA LastBuffer ==
  ASSUME VerityTypeOK
  PROVE  /\ HashstartBuffer \subseteq Hashstarts /\ Hashstarts \subseteq Nat \ {Argv}
         /\ Hashstarts \ HashstartBuffer = {j \in Hashstarts : \E k \in Hashstarts : j < k}
<1>1. Hashstarts \subseteq Nat \ {0}
  BY WordsOfTable DEF Hashstarts
<1>2. \A j, k \in Hashstarts : ~ (k <= j) <=> j < k
  BY <1>1
<1> QED
  BY <1>1, <1>2 DEF HashstartBuffer, Argv

\* kfree of buffers none of which was freed before.
LEMMA FreedOnce ==
  ASSUME DOMAIN freed = {}, NEW bs, Kfree(bs)
  PROVE  /\ heap' = heap \ bs
         /\ DOMAIN freed' = bs
         /\ \A b \in bs : freed'[b] = 1
BY DEF Kfree

\* What is said of the words that were read depends on nothing else.
LEMMA NoWordRead ==
  ASSUME VerityTypeOK, SlotsInv, UNCHANGED <<table, i, nargv>>,
         stage' \in {"start", "loop", "ctr", "EINVAL", "ENOMEM", "refused", "mapped"}
  PROVE  VerityTypeOK' /\ SlotsInv' /\ Hashstarts' = Hashstarts
<1>1. VerityTypeOK'
  BY DEF VerityTypeOK
<1>2. Hashstarts' = Hashstarts
  BY DEF Hashstarts
<1>3. \A k : Before(k)' = Before(k) /\ Seen(k)' = Seen(k)
  BY DEF Before, Seen
<1>4. SlotsInv'
  BY <1>2, <1>3 DEF SlotsInv
<1> QED
  BY <1>1, <1>2, <1>4

\* The end of the constructor, wherever it comes from.
LEMMA EndKeeps ==
  ASSUME VerityInv, stage \in {"loop", "ctr"},
         NEW bs, Kfree({Argv} \cup bs), bs \subseteq Hashstarts,
         Hashstarts \ bs = {j \in Hashstarts : \E k \in Hashstarts \cup Unstored : j < k},
         stage' \in {"EINVAL", "ENOMEM", "refused", "mapped"},
         UNCHANGED <<table, i, nargv>>
  PROVE  VerityInv'
<1> USE DEF VerityInv
<1>1. heap = {Argv} \cup Hashstarts /\ DOMAIN freed = {}
  BY DEF BuffersInv, Ended
<1>2. /\ heap' = heap \ ({Argv} \cup bs)
      /\ DOMAIN freed' = {Argv} \cup bs
      /\ \A b \in {Argv} \cup bs : freed'[b] = 1
  BY <1>1, FreedOnce
<1>3. VerityTypeOK' /\ SlotsInv'
  BY NoWordRead
<1>4. BuffersInv' /\ GivenInv'
  BY DEF BuffersInv, GivenInv, Ended
<1>5. Hashstarts' = Hashstarts /\ Unstored' = Unstored
  BY DEF Hashstarts, Unstored
<1>6. heap' = Hashstarts \ bs
  BY <1>1, <1>2, LastBuffer
<1>7. OnlyReplacedLeak'
  BY <1>2, <1>5, <1>6 DEF OnlyReplacedLeak
<1> QED
  BY <1>3, <1>4, <1>7

\* A word is added to those that were read.
LEMMA ReadOn ==
  ASSUME VerityTypeOK, i <= Len(table), i' = i + 1, table' = table
  PROVE  /\ i \in 1 .. Len(table) /\ i' \in 1 .. Len(table) + 1
         /\ \A k : Before(k)' = Before(k) \cup (IF table[i].key = k THEN {i} ELSE {})
         /\ \A k : Seen(k)' = Seen(k) \cup (IF table[i].key = k THEN {table[i].val} ELSE {})
         /\ Hashstarts' = Hashstarts \cup (IF table[i].key = "hashstart" THEN {i} ELSE {})
<1>1. i \in 1 .. Len(table) /\ i' \in 1 .. Len(table) + 1
  BY WordsOfTable
<1>2. 1 .. i' - 1 = (1 .. i - 1) \cup {i}
  BY <1>1
<1>3. \A k : Before(k)' = Before(k) \cup (IF table[i].key = k THEN {i} ELSE {})
  BY <1>2 DEF Before
<1>4. \A k : Seen(k)' = Seen(k) \cup (IF table[i].key = k THEN {table[i].val} ELSE {})
  BY <1>3 DEF Seen
<1>5. Hashstarts' = Hashstarts \cup (IF table[i].key = "hashstart" THEN {i} ELSE {})
  BY <1>2 DEF Hashstarts
<1> QED
  BY <1>1, <1>3, <1>4, <1>5

\* A word with an error ends the constructor.
LEMMA BadWordKeeps ==
  ASSUME VerityInv, stage = "loop", i <= Len(table), UNCHANGED <<table, i, nargv>>,
         \/ Err(HashstartBuffer) /\ Unstored = {}
         \/ Err({}) /\ Unstored = {i}
  PROVE  VerityInv'
<1>1. VerityTypeOK
  BY DEF VerityInv
<1>2. CASE Err(HashstartBuffer) /\ Unstored = {}
  <2>1. /\ HashstartBuffer \subseteq Hashstarts
        /\ Hashstarts \ HashstartBuffer
             = {j \in Hashstarts : \E k \in Hashstarts \cup Unstored : j < k}
    BY <1>1, <1>2, LastBuffer
  <2>2. Kfree({Argv} \cup HashstartBuffer) /\ stage' = "EINVAL"
    BY <1>2 DEF Err
  <2> QED
    BY <2>1, <2>2, EndKeeps
<1>3. CASE Err({}) /\ Unstored = {i}
  <2>1. Hashstarts \ {} = {j \in Hashstarts : \E k \in Hashstarts \cup Unstored : j < k}
    <3>1. \A j \in Hashstarts : j < i
      BY <1>1, WordsOfTable DEF Hashstarts
    <3> QED
      BY <1>3, <3>1
  <2> SUFFICES ASSUME NEW bs, bs = {}
               PROVE  VerityInv'
    OBVIOUS
  <2>2. Kfree({Argv} \cup bs) /\ stage' = "EINVAL"
    BY <1>3 DEF Err
  <2>3. bs \subseteq Hashstarts
        /\ Hashstarts \ bs = {j \in Hashstarts : \E k \in Hashstarts \cup Unstored : j < k}
    BY <2>1
  <2> QED
    BY <2>2, <2>3, EndKeeps
<1> QED
  BY <1>2, <1>3

\* A hashstart fills two slots and allocates a buffer.
LEMMA HashstartKeeps ==
  ASSUME VerityInv, stage = "loop", i <= Len(table), UNCHANGED <<table, freed, stage, given>>,
         table[i].key = "hashstart", table[i].val # NoValue, table[i].num # NoNumber,
         heap' = heap \cup {i},
         nargv' = DataAndTree(Blocks(table[i].num)),
         i' = i + 1
  PROVE  VerityInv'
<1> USE DEF VerityInv
<1> DEFINE v == ToString(Blocks(table[i].num))
<1>1. /\ i \in 1 .. Len(table) /\ i' \in 1 .. Len(table) + 1
      /\ \A k : Before(k)' = Before(k) \cup (IF table[i].key = k THEN {i} ELSE {})
      /\ \A k : Seen(k)' = Seen(k) \cup (IF table[i].key = k THEN {table[i].val} ELSE {})
      /\ Hashstarts' = Hashstarts \cup (IF table[i].key = "hashstart" THEN {i} ELSE {})
  BY ReadOn
<1>2. nargv' = [s \in 0 .. 11 |-> IF s \in {5, 6} THEN v ELSE nargv[s]]
  <2>1. nargv = [s \in 0 .. 11 |-> nargv[s]]
    BY DEF VerityTypeOK
  <2> QED
    BY <2>1 DEF DataAndTree
<1> HIDE DEF v
<1>3. VerityTypeOK'
  BY <1>1, <1>2 DEF VerityTypeOK
<1>4. table[i].num \in Nat
  BY <1>1, WordsOfTable DEF TableWords
<1>5. SlotsInv'
  <2>1. ASSUME NEW k \in DOMAIN Slots
        PROVE  (IF Before(k) = {} THEN nargv[Slots[k]] = Fresh[Slots[k]]
                ELSE nargv[Slots[k]] \in Seen(k))'
    <3>1. Slots[k] \in {1, 2, 7, 8, 9} /\ k # "hashstart"
      BY DEF Slots
    <3>2. nargv'[Slots[k]] = nargv[Slots[k]]
      BY <1>2, <3>1
    <3> QED
      BY <1>1, <3>1, <3>2 DEF SlotsInv
  <2>2. nargv'[5] = v /\ nargv'[6] = v
    BY <1>2
  <2>3. i \in Hashstarts'
    BY <1>1
  <2>4. table'[i].num \in Nat /\ v = ToString(Blocks(table'[i].num))
    BY <1>4 DEF v
  <2>5. /\ nargv'[11] # Null <=> Seen("error_behavior")' \cap (Panics \cup Ignores) # {}
        /\ nargv'[11] # Null => Heard(nargv'[11], Seen("error_behavior")')
    <3>1. nargv'[11] = nargv[11]
      BY <1>2
    <3>2. Seen("error_behavior")' = Seen("error_behavior")
      BY <1>1
    <3> QED
      BY <3>1, <3>2 DEF SlotsInv
  <2>6. (nargv[11] # Null => Heard(nargv[11], Seen("error_behavior")))'
    BY <2>5 DEF Heard
  <2> QED
    BY <2>1, <2>2, <2>3, <2>4, <2>5, <2>6 DEF SlotsInv
<1>6. BuffersInv'
  BY <1>1 DEF BuffersInv, Ended
<1>7. GivenInv' /\ OnlyReplacedLeak'
  BY DEF BuffersInv, GivenInv, OnlyReplacedLeak, Ended
<1> QED
  BY <1>3, <1>5, <1>6, <1>7

\* Any other word fills its slot, or the last one, or none.
LEMMA OtherWordKeeps ==
  ASSUME VerityInv, stage = "loop", i <= Len(table),
         UNCHANGED <<table, heap, freed, stage, given>>,
         table[i].key # "hashstart",
         nargv' = CASE table[i].key \in DOMAIN Slots -> [nargv EXCEPT ![Slots[table[i].key]] = table[i].val]
                    [] table[i].key = "error_behavior" /\ table[i].val \in Panics ->
                         [nargv EXCEPT ![11] = "panic_on_corruption"]
                    [] table[i].key = "error_behavior" /\ table[i].val \in Ignores ->
                         [nargv EXCEPT ![11] = "ignore_corruption"]
                    [] OTHER -> nargv,
         i' = i + 1
  PROVE  VerityInv'
<1> USE DEF VerityInv
<1>1. /\ i \in 1 .. Len(table) /\ i' \in 1 .. Len(table) + 1
      /\ \A k : Before(k)' = Before(k) \cup (IF table[i].key = k THEN {i} ELSE {})
      /\ \A k : Seen(k)' = Seen(k) \cup (IF table[i].key = k THEN {table[i].val} ELSE {})
      /\ Hashstarts' = Hashstarts \cup (IF table[i].key = "hashstart" THEN {i} ELSE {})
  BY ReadOn
<1>2. Hashstarts' = Hashstarts
  BY <1>1
<1>3. nargv = [s \in 0 .. 11 |-> nargv[s]]
  BY DEF VerityTypeOK
<1>4. BuffersInv'
  BY <1>2 DEF BuffersInv, Ended
<1>5. GivenInv' /\ OnlyReplacedLeak'
  BY DEF BuffersInv, GivenInv, OnlyReplacedLeak, Ended
<1>6. CASE table[i].key \in DOMAIN Slots
  <2>1. nargv' = [nargv EXCEPT ![Slots[table[i].key]] = table[i].val]
    BY <1>6 DEF Slots
  <2>2. Slots[table[i].key] \in {1, 2, 7, 8, 9} /\ table[i].key # "error_behavior"
    BY <1>6 DEF Slots
  <2>3. VerityTypeOK'
    BY <1>1, <1>3, <2>1, <2>2 DEF VerityTypeOK
  <2>4. ASSUME NEW k \in DOMAIN Slots
        PROVE  (IF Before(k) = {} THEN nargv[Slots[k]] = Fresh[Slots[k]]
                ELSE nargv[Slots[k]] \in Seen(k))'
    <3>1. CASE k = table[i].key
      <4>1. nargv'[Slots[k]] = table[i].val
        BY <1>3, <2>1, <2>2, <3>1
      <4>2. i \in Before(k)' /\ table[i].val \in Seen(k)'
        BY <1>1, <3>1
      <4> QED
        BY <4>1, <4>2
    <3>2. CASE k # table[i].key
      <4>1. Slots[k] # Slots[table[i].key]
        BY <1>6, <3>2 DEF Slots
      <4>2. nargv'[Slots[k]] = nargv[Slots[k]]
        BY <1>3, <2>1, <4>1
      <4>3. Before(k)' = Before(k) /\ Seen(k)' = Seen(k)
        BY <1>1, <3>2
      <4> QED
        BY <4>2, <4>3 DEF SlotsInv
    <3> QED
      BY <3>1, <3>2
  <2>5. nargv'[5] = nargv[5] /\ nargv'[6] = nargv[6] /\ nargv'[11] = nargv[11]
    BY <1>3, <2>1, <2>2
  <2>6. Seen("error_behavior")' = Seen("error_behavior")
    BY <1>1, <2>2
  <2>7. SlotsInv'
    BY <1>2, <2>4, <2>5, <2>6 DEF SlotsInv
  <2> QED
    BY <1>4, <1>5, <2>3, <2>7
<1>7. CASE table[i].key \notin DOMAIN Slots
  <2> DEFINE heard == table[i].key = "error_behavior" /\ table[i].val \in Panics \cup Ignores
  <2>1. \/ heard /\ nargv' = [nargv EXCEPT ![11] = "panic_on_corruption"]
        \/ heard /\ nargv' = [nargv EXCEPT ![11] = "ignore_corruption"]
        \/ ~ heard /\ nargv' = nargv
    BY <1>7
  <2>2. VerityTypeOK'
    BY <1>1, <1>3, <2>1 DEF VerityTypeOK
  <2>3. ASSUME NEW k \in DOMAIN Slots
        PROVE  (IF Before(k) = {} THEN nargv[Slots[k]] = Fresh[Slots[k]]
                ELSE nargv[Slots[k]] \in Seen(k))'
    <3>1. k # table[i].key /\ Slots[k] \in {1, 2, 7, 8, 9}
      BY <1>7 DEF Slots
    <3>2. nargv'[Slots[k]] = nargv[Slots[k]]
      BY <1>3, <2>1, <3>1
    <3>3. Before(k)' = Before(k) /\ Seen(k)' = Seen(k)
      BY <1>1, <3>1
    <3> QED
      BY <3>2, <3>3 DEF SlotsInv
  <2>4. nargv'[5] = nargv[5] /\ nargv'[6] = nargv[6]
    BY <1>3, <2>1
  <2>5. nargv'[11] # Null <=> Seen("error_behavior")' \cap (Panics \cup Ignores) # {}
    <3>1. nargv[11] # Null <=> Seen("error_behavior") \cap (Panics \cup Ignores) # {}
      BY DEF SlotsInv
    <3>2. CASE heard
      <4>1. nargv'[11] # Null
        BY <1>3, <2>1, <3>2 DEF Null
      <4>2. table[i].val \in Seen("error_behavior")' \cap (Panics \cup Ignores)
        BY <1>1, <3>2
      <4> QED
        BY <4>1, <4>2
    <3>3. CASE ~ heard
      <4>1. nargv'[11] = nargv[11]
        BY <2>1, <3>3
      <4>2. Seen("error_behavior")' \cap (Panics \cup Ignores)
              = Seen("error_behavior") \cap (Panics \cup Ignores)
        BY <1>1, <3>3
      <4> QED
        BY <3>1, <4>1, <4>2
    <3> QED
      BY <3>2, <3>3
  <2>6. (nargv[11] # Null => Heard(nargv[11], Seen("error_behavior")))'
    <3>1. nargv[11] # Null => Heard(nargv[11], Seen("error_behavior"))
      BY DEF SlotsInv
    <3>2. Seen("error_behavior") \subseteq Seen("error_behavior")'
      BY <1>1
    <3>3. CASE nargv' = nargv
      BY <3>1, <3>2, <3>3 DEF Heard
    <3>4. CASE nargv' # nargv
      <4>1. nargv'[11] = IF table[i].val \in Panics THEN "panic_on_corruption"
                         ELSE "ignore_corruption"
        BY <1>3, <1>7, <3>4 DEF Panics, Ignores
      <4>2. table[i].val \in Seen("error_behavior")' /\ table[i].val \in Panics \cup Ignores
        BY <1>1, <2>1, <3>4
      <4> QED
        BY <4>1, <4>2 DEF Heard
    <3> QED
      BY <3>3, <3>4
  <2>7. SlotsInv'
    BY <1>2, <2>3, <2>4, <2>5, <2>6 DEF SlotsInv
  <2> QED
    BY <1>4, <1>5, <2>2, <2>7
<1> QED
  BY <1>6, <1>7

LEMMA WordKeeps ==
  ASSUME VerityInv, Word
  PROVE  VerityInv'
<1> DEFINE w == table[i]
<1>1. stage = "loop" /\ i <= Len(table) /\ UNCHANGED <<table, given>>
  BY DEF Word
<1>2. \/ /\ w.val = NoValue \/ (w.key = "hashstart" /\ w.num = NoNumber)
         /\ Err(HashstartBuffer) /\ UNCHANGED <<i, nargv>>
      \/ /\ w.key = "hashstart" /\ w.val # NoValue /\ w.num # NoNumber
         /\ \/ /\ heap' = heap \cup {i}
               /\ nargv' = DataAndTree(Blocks(w.num))
               /\ i' = i + 1
               /\ UNCHANGED <<freed, stage>>
            \/ Err({}) /\ UNCHANGED <<i, nargv>>
      \/ /\ w.key # "hashstart"
         /\ nargv' = CASE w.key \in DOMAIN Slots -> [nargv EXCEPT ![Slots[w.key]] = w.val]
                       [] w.key = "error_behavior" /\ w.val \in Panics ->
                            [nargv EXCEPT ![11] = "panic_on_corruption"]
                       [] w.key = "error_behavior" /\ w.val \in Ignores ->
                            [nargv EXCEPT ![11] = "ignore_corruption"]
                       [] OTHER -> nargv
         /\ i' = i + 1
         /\ UNCHANGED <<heap, freed, stage>>
  BY Zenon DEF Word
<1>3. CASE /\ w.val = NoValue \/ (w.key = "hashstart" /\ w.num = NoNumber)
           /\ Err(HashstartBuffer) /\ UNCHANGED <<i, nargv>>
  <2>1. Unstored = {}
    BY <1>3 DEF Unstored
  <2> QED
    BY <1>1, <1>3, <2>1, BadWordKeeps
<1>4. CASE /\ w.key = "hashstart" /\ w.val # NoValue /\ w.num # NoNumber
           /\ Err({}) /\ UNCHANGED <<i, nargv>>
  <2>1. i \in 1 .. Len(table)
    BY <1>1, WordsOfTable DEF VerityInv
  <2>2. Unstored = {i}
    BY <1>4, <2>1 DEF Unstored
  <2> QED
    BY <1>1, <1>4, <2>2, BadWordKeeps
<1>5. CASE /\ w.key = "hashstart" /\ w.val # NoValue /\ w.num # NoNumber
           /\ heap' = heap \cup {i}
           /\ nargv' = DataAndTree(Blocks(w.num))
           /\ i' = i + 1
           /\ UNCHANGED <<freed, stage>>
  BY <1>1, <1>5, HashstartKeeps
<1>6. CASE /\ w.key # "hashstart"
           /\ nargv' = CASE w.key \in DOMAIN Slots -> [nargv EXCEPT ![Slots[w.key]] = w.val]
                         [] w.key = "error_behavior" /\ w.val \in Panics ->
                              [nargv EXCEPT ![11] = "panic_on_corruption"]
                         [] w.key = "error_behavior" /\ w.val \in Ignores ->
                              [nargv EXCEPT ![11] = "ignore_corruption"]
                         [] OTHER -> nargv
           /\ i' = i + 1
           /\ UNCHANGED <<heap, freed, stage>>
  BY <1>1, <1>6, OtherWordKeeps
<1> HIDE DEF w
<1> QED
  BY <1>2, <1>3, <1>4, <1>5, <1>6, Zenon

\* After the last word hashstart points to what is to be freed.
LEMMA AllRead ==
  ASSUME VerityInv, stage \in {"loop", "ctr"}, i = Len(table) + 1,
         Kfree({Argv} \cup HashstartBuffer),
         stage' \in {"EINVAL", "ENOMEM", "refused", "mapped"},
         UNCHANGED <<table, i, nargv>>
  PROVE  VerityInv'
<1>1. VerityTypeOK /\ Len(table) \in Nat
  BY WordsOfTable DEF VerityInv
<1>2. Unstored = {}
  BY <1>1 DEF Unstored
<1>3. /\ HashstartBuffer \subseteq Hashstarts
      /\ Hashstarts \ HashstartBuffer
           = {j \in Hashstarts : \E k \in Hashstarts \cup Unstored : j < k}
  BY <1>1, <1>2, LastBuffer
<1> QED
  BY <1>3, EndKeeps

LEMMA NextVerity == VerityInv /\ [VerityNext]_verityVars => VerityInv'
<1> SUFFICES ASSUME VerityInv, [VerityNext]_verityVars PROVE VerityInv'
  OBVIOUS
<1>1. CASE UNCHANGED verityVars
  <2>1. UNCHANGED <<table, i, nargv, heap, freed, stage, given>>
    BY <1>1 DEF verityVars
  <2>2. VerityTypeOK' /\ SlotsInv' /\ Hashstarts' = Hashstarts
    BY <2>1, NoWordRead DEF VerityInv, VerityTypeOK
  <2>3. BuffersInv'
    BY <2>1, <2>2 DEF VerityInv, BuffersInv, Ended
  <2>4. GivenInv'
    BY <2>1 DEF VerityInv, GivenInv, Complete
  <2>5. OnlyReplacedLeak'
    BY <2>1 DEF VerityInv, OnlyReplacedLeak, Ended, Hashstarts, Unstored
  <2> QED
    BY <2>2, <2>3, <2>4, <2>5 DEF VerityInv
<1>2. CASE Alloc
  <2>1. /\ stage = "start" /\ UNCHANGED <<table, i, nargv, freed, given>>
        /\ \/ stage' = "loop" /\ heap' = {Argv}
           \/ stage' = "EINVAL" /\ heap' = heap
    BY <1>2 DEF Alloc
  <2>2. heap = {} /\ i = 1 /\ DOMAIN freed = {}
    BY <2>1 DEF VerityInv, BuffersInv, Ended
  <2>3. VerityTypeOK' /\ SlotsInv'
    BY <2>1, NoWordRead DEF VerityInv
  <2>4. BuffersInv' /\ GivenInv' /\ OnlyReplacedLeak'
    BY <2>1, <2>2 DEF BuffersInv, GivenInv, OnlyReplacedLeak, Ended, Hashstarts
  <2> QED
    BY <2>3, <2>4 DEF VerityInv
<1>3. CASE Word
  BY <1>3, WordKeeps
<1>4. CASE LoopEnd
  <2>1. CASE Complete
    <3>1. /\ stage = "loop" /\ i = Len(table) + 1 /\ stage' = "ctr"
          /\ given' = IF nargv[11] = Null THEN [s \in 0 .. 9 |-> nargv[s]]
                      ELSE [nargv EXCEPT ![10] = "1"]
          /\ UNCHANGED <<heap, freed, table, i, nargv>>
      BY <1>4, <2>1 DEF LoopEnd
    <3>2. VerityTypeOK' /\ SlotsInv'
      BY <3>1, NoWordRead DEF VerityInv
    <3>3. BuffersInv' /\ OnlyReplacedLeak'
      BY <3>1 DEF VerityInv, BuffersInv, OnlyReplacedLeak, Ended, Hashstarts
    <3>4. GivenInv'
      BY <2>1, <3>1 DEF GivenInv, Complete
    <3> QED
      BY <3>2, <3>3, <3>4 DEF VerityInv
  <2>2. CASE ~ Complete
    <3>1. /\ stage = "loop" /\ Kfree({Argv} \cup HashstartBuffer) /\ stage' = "EINVAL" /\ i = Len(table) + 1
          /\ UNCHANGED <<table, i, nargv>>
      BY <1>4, <2>2 DEF LoopEnd, Err
    <3> QED
      BY <3>1, AllRead
  <2> QED
    BY <2>1, <2>2
<1>5. CASE Ctr
  <2>1. /\ stage = "ctr" /\ Kfree({Argv} \cup HashstartBuffer)
        /\ stage' \in {"EINVAL", "ENOMEM", "refused", "mapped"}
        /\ UNCHANGED <<table, i, nargv>>
    BY <1>5 DEF Ctr
  <2>2. i = Len(table) + 1
    BY <2>1 DEF VerityInv, GivenInv
  <2> QED
    BY <2>1, <2>2, AllRead
<1> QED
  BY <1>1, <1>2, <1>3, <1>4, <1>5 DEF VerityNext

\* The invariant of the translation, for every table.
THEOREM VerityInvariance == VeritySpec => []VerityInv
  BY InitVerity, NextVerity, PTL DEF VeritySpec

\* Nothing is freed twice and nothing is leaked, wherever the translation ends,
\* but the buffers that a second hashstart took the place of.
THEOREM NothingIsLeaked == VeritySpec => []OnlyReplacedLeak
<1>1. VerityInv => OnlyReplacedLeak
  BY DEF VerityInv
<1> QED
  BY <1>1, VerityInvariance, PTL

\* Upstream is given what the words say, and the tree follows the data.
THEOREM GivenAsAsked == VeritySpec => []AsAsked
<1>1. VerityInv => AsAsked
  <2> SUFFICES ASSUME VerityInv, stage = "ctr"
               PROVE  AsAsked
    BY DEF AsAsked, TreeFollowsData
  <2>1. /\ i = Len(table) + 1 /\ Complete
        /\ given = IF nargv[11] = Null THEN [s \in 0 .. 9 |-> nargv[s]]
                   ELSE [nargv EXCEPT ![10] = "1"]
    BY DEF VerityInv, GivenInv
  <2>2. nargv = [s \in 0 .. 11 |-> nargv[s]] /\ VerityTypeOK
    BY DEF VerityInv, VerityTypeOK
  <2>3. /\ \A s \in 0 .. 9 : given[s] = nargv[s]
        /\ 11 \in DOMAIN given <=> nargv[11] # Null
    BY <2>1, <2>2
  <2>4. 1 .. i - 1 = 1 .. Len(table) /\ Len(table) \in Nat
    BY <2>1, <2>2, WordsOfTable
  <2>5. \A k : Seen(k) = Values(k) /\ (Before(k) = {} <=> Values(k) = {})
    BY <2>4 DEF Seen, Before, Values
  <2>6. SlotsInv
    BY DEF VerityInv
  <2>7. \A k \in DOMAIN Slots : Values(k) # {} => given[Slots[k]] \in Values(k)
    <3>1. \A k \in DOMAIN Slots : Slots[k] \in 0 .. 9
      BY DEF Slots
    <3> QED
      BY <2>3, <2>5, <2>6, <3>1 DEF SlotsInv
  <2>8. Hashstarts = Before("hashstart")
    BY DEF Hashstarts, Before
  <2>9. \A k \in {"payload", "hashtree", "hashstart", "alg", "root_hexdigest"} : Values(k) # {}
    <3>1. ASSUME NEW k \in {"payload", "hashtree", "alg", "root_hexdigest"}
          PROVE  Values(k) # {}
      <4>1. k \in DOMAIN Slots /\ Slots[k] \in Required /\ Fresh[Slots[k]] = Null
        BY DEF Slots, Required, Fresh
      <4>2. nargv[Slots[k]] # Null
        BY <2>1, <4>1 DEF Complete
      <4> QED
        BY <2>5, <2>6, <4>1, <4>2 DEF SlotsInv
    <3>2. Values("hashstart") # {}
      <4>1. nargv[5] # Null
        BY <2>1 DEF Complete, Required
      <4> QED
        BY <2>5, <2>6, <2>8, <4>1 DEF SlotsInv
    <3> QED
      BY <3>1, <3>2
  <2>10. 11 \in DOMAIN given <=> Values("error_behavior") \cap (Panics \cup Ignores) # {}
    BY <2>3, <2>5, <2>6 DEF SlotsInv
  <2>11. given[5] = given[6]
    BY <2>3, <2>6 DEF SlotsInv
  <2>12. ASSUME NEW j \in 1 .. Len(table),
                table[j].key = "hashstart", Once("hashstart"), table[j].num % 8 = 0
         PROVE  \E b \in 0 .. table[j].num : 8 * b = table[j].num /\ given[5] = ToString(b)
    <3>1. j \in Hashstarts
      BY <2>4, <2>12 DEF Hashstarts
    <3>2. PICK k \in Hashstarts : /\ table[k].num \in Nat
                                  /\ nargv[5] = ToString(Blocks(table[k].num))
      BY <2>6, <3>1 DEF SlotsInv
    <3>3. k = j
      BY <2>4, <2>12, <3>1, <3>2 DEF Hashstarts, Once
    <3>4. /\ Blocks(table[j].num) \in 0 .. table[j].num
          /\ 8 * Blocks(table[j].num) = table[j].num
      BY <2>12, <3>2, <3>3 DEF Blocks
    <3> QED
      BY <2>3, <3>2, <3>3, <3>4
  <2>13. 11 \in DOMAIN given => Heard(given[11], Values("error_behavior"))
    <3>1. 11 \in DOMAIN given => given[11] = nargv[11] /\ nargv[11] # Null
      BY <2>1, <2>2
    <3>2. Seen("error_behavior") = Values("error_behavior")
      BY <2>5
    <3> QED
      BY <2>6, <3>1, <3>2 DEF SlotsInv
  <2> QED
    BY <2>7, <2>9, <2>10, <2>11, <2>12, <2>13 DEF AsAsked, TreeFollowsData
<1> QED
  BY <1>1, VerityInvariance, PTL

=============================================================================
