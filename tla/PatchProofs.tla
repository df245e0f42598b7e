---------------------------- MODULE PatchProofs -----------------------------
(***************************************************************************)
(* The words the user gave decide what the patches install, for options of *)
(* any length, and what the log says of a patch is what the patch did, for *)
(* every set of commands that may fail in it.                              *)
(***************************************************************************)
EXTENDS OptionPatches, FiniteSetTheorems, WellFoundedInduction, TLAPS

-----------------------------------------------------------------------------
(***************************************************************************)
(* Induction over the words: every set of numbers has a least one.         *)
(***************************************************************************)

LEMMA LeastNumber ==
  ASSUME NEW T \in SUBSET Nat, T # {}
  PROVE  \E m \in T : \A k \in T : m <= k
<1> DEFINE U == {0 .. k : k \in T}
<1> DEFINE R == StrictSubsetOrdering(Nat)
<1>1. U \subseteq FiniteSubsetsOf(Nat)
  <2> SUFFICES ASSUME NEW k \in T PROVE 0 .. k \in FiniteSubsetsOf(Nat)
    OBVIOUS
  <2>1. IsFiniteSet(0 .. k)
    BY FS_Interval
  <2> QED
    BY <2>1 DEF FiniteSubsetsOf
<1>2. U # {}
  OBVIOUS
<1>3. IsWellFoundedOn(R, FiniteSubsetsOf(Nat))
  BY FS_StrictSubsetOrderingWellFounded
<1>4. \E x \in U : \A y \in U : ~ (<<y, x>> \in R)
  <2> HIDE DEF U, R
  <2> QED
    BY <1>1, <1>2, <1>3, WFMin
<1>5. PICK m \in T : \A y \in U : ~ (<<y, 0 .. m>> \in R)
  BY <1>4
<1>6. ASSUME NEW k \in T, ~ (m <= k)
      PROVE  FALSE
  <2>1. 0 .. k \subseteq 0 .. m /\ 0 .. k # 0 .. m /\ 0 .. k \in SUBSET Nat /\ 0 .. m \in SUBSET Nat
    BY <1>6
  <2>2. <<0 .. k, 0 .. m>> \in R
    BY <2>1 DEF StrictSubsetOrdering
  <2> QED
    BY <1>5, <2>2
<1> QED
  BY <1>6

\* ... and, up to a bound, a greatest one.
LEMMA GreatestNumber ==
  ASSUME NEW n \in Nat, NEW T \in SUBSET (0 .. n), T # {}
  PROVE  \E m \in T : \A k \in T : k <= m
<1> DEFINE U == {n - k : k \in T}
<1>1. U \in SUBSET Nat /\ U # {}
  <2>1. \A k \in T : n - k \in Nat
    OBVIOUS
  <2> QED
    BY <2>1
<1>2. PICK u \in U : \A k \in U : u <= k
  <2> HIDE DEF U
  <2> QED
    BY <1>1, LeastNumber
<1>3. PICK m \in T : u = n - m
  OBVIOUS
<1>4. ASSUME NEW k \in T
      PROVE  k <= m
  <2>1. n - k \in U
    OBVIOUS
  <2>2. n - m <= n - k
    BY <1>2, <1>3, <2>1
  <2> QED
    BY <2>2
<1> QED
  BY <1>4

-----------------------------------------------------------------------------
(***************************************************************************)
(* The loop over the options.                                              *)
(***************************************************************************)

\* LastOf is the position of the last word of s.
LEMMA LastWord ==
  ASSUME opts \in Seq(Words), NEW s
  PROVE  /\ LastOf(s) \in 0 .. Len(opts)
         /\ LastOf(s) = 0 \/ opts[LastOf(s)] \in s
         /\ \A j \in LastOf(s) + 1 .. Len(opts) : opts[j] \notin s
<1> DEFINE P(i) == /\ i = 0 \/ opts[i] \in s
                   /\ \A j \in i + 1 .. Len(opts) : opts[j] \notin s
<1>1. Len(opts) \in Nat
  OBVIOUS
<1>2. \E i \in 0 .. Len(opts) : P(i)
  <2> DEFINE T == {0} \cup {i \in 1 .. Len(opts) : opts[i] \in s}
  <2>1. T \in SUBSET (0 .. Len(opts)) /\ T # {}
    BY <1>1
  <2>2. PICK m \in T : \A k \in T : k <= m
    <3> HIDE DEF T
    <3> QED
      BY <1>1, <2>1, GreatestNumber
  <2>3. \A j \in m + 1 .. Len(opts) : opts[j] \notin s
    BY <1>1, <2>2
  <2> QED
    BY <1>1, <2>3
<1>3. LastOf(s) = CHOOSE i \in 0 .. Len(opts) : P(i)
  BY DEF LastOf
<1>4. LastOf(s) \in 0 .. Len(opts) /\ P(LastOf(s))
  <2> HIDE DEF P
  <2> QED
    BY <1>2, <1>3
<1> QED
  BY <1>4

\* The variable after each word.
VerdictAfter(v, words, found, on, off, n) ==
  IF n = 0 THEN found
  ELSE IF words[n] \in on THEN TRUE ELSE IF words[n] \in off THEN FALSE ELSE v[n - 1]

\* There is such a function: after n words, the last of them that is on or off
\* has decided.
LEMMA VerdictsExist ==
  ASSUME NEW words \in Seq(Words), NEW found, NEW on, NEW off
  PROVE  \E v : v = [n \in 0 .. Len(words) |-> VerdictAfter(v, words, found, on, off, n)]
<1> DEFINE D == 0 .. Len(words)
<1> DEFINE Hits(n) == {j \in 1 .. n : words[j] \in on \cup off}
<1> DEFINE IsLast(n, m) == m \in Hits(n) /\ \A k \in Hits(n) : k <= m
<1> DEFINE LastHit(n) == CHOOSE m : IsLast(n, m)
<1> DEFINE g == [n \in D |-> IF Hits(n) = {} THEN found
                            ELSE IF words[LastHit(n)] \in on THEN TRUE ELSE FALSE]
<1>1. Len(words) \in Nat
  OBVIOUS
<1>2. ASSUME NEW n \in D, n # 0, words[n] \in on \cup off
      PROVE  Hits(n) # {} /\ LastHit(n) = n
  <2>1. n \in Hits(n) /\ \A k \in Hits(n) : k \in 1 .. n /\ k <= n
    BY <1>1, <1>2
  <2>2. IsLast(n, n)
    BY <2>1
  <2>3. \A m : IsLast(n, m) => m = n
    BY <2>1, <1>1
  <2>4. LastHit(n) = n
    <3> HIDE DEF IsLast
    <3> QED
      BY <2>2, <2>3
  <2> QED
    BY <2>1, <2>4
<1>3. ASSUME NEW n \in D, n # 0, words[n] \notin on \cup off
      PROVE  n - 1 \in D /\ Hits(n) = Hits(n - 1) /\ LastHit(n) = LastHit(n - 1)
  <2>1. n - 1 \in D /\ Hits(n) = Hits(n - 1)
    BY <1>1, <1>3
  <2>2. \A m : IsLast(n, m) <=> IsLast(n - 1, m)
    BY <2>1
  <2>3. LastHit(n) = LastHit(n - 1)
    <3> HIDE DEF IsLast, Hits
    <3> QED
      BY <2>2
  <2> QED
    BY <2>1, <2>3
<1>4. ASSUME NEW n \in D
      PROVE  g[n] = VerdictAfter(g, words, found, on, off, n)
  <2>1. CASE n = 0
    <3>1. Hits(n) = {}
      BY <2>1
    <3> HIDE DEF Hits, LastHit
    <3> QED
      BY <2>1, <3>1 DEF VerdictAfter
  <2>2. CASE n # 0 /\ words[n] \in on \cup off
    <3>1. Hits(n) # {} /\ LastHit(n) = n
      BY <1>2, <2>2
    <3>2. g[n] = IF words[n] \in on THEN TRUE ELSE FALSE
      <4> HIDE DEF Hits, LastHit
      <4> QED
        BY <3>1
    <3> HIDE DEF g
    <3> QED
      BY <2>2, <3>2 DEF VerdictAfter
  <2>3. CASE n # 0 /\ words[n] \notin on \cup off
    <3>1. n - 1 \in D /\ Hits(n) = Hits(n - 1) /\ LastHit(n) = LastHit(n - 1)
      BY <1>3, <2>3
    <3>2. g[n] = g[n - 1]
      <4> HIDE DEF Hits, LastHit
      <4> QED
        BY <3>1
    <3> HIDE DEF g
    <3> QED
      BY <2>3, <3>2 DEF VerdictAfter
  <2> QED
    BY <2>1, <2>2, <2>3
<1>5. g = [n \in D |-> g[n]]
  OBVIOUS
<1>6. g = [n \in D |-> VerdictAfter(g, words, found, on, off, n)]
  <2> HIDE DEF g, D
  <2> QED
    BY <1>4, <1>5
<1> QED
  BY <1>6

\* What the loop computes.
LEMMA VerdictsAre ==
  ASSUME NEW words \in Seq(Words), NEW found, NEW on, NEW off, NEW n \in 0 .. Len(words)
  PROVE  Verdicts(words, found, on, off)[n] = VerdictAfter(Verdicts(words, found, on, off), words, found, on, off, n)
<1> DEFINE IsIt(v) == v = [k \in 0 .. Len(words) |-> VerdictAfter(v, words, found, on, off, k)]
<1>1. Verdicts(words, found, on, off)
        = CHOOSE v : v = [k \in 0 .. Len(words) |-> VerdictAfter(v, words, found, on, off, k)]
  BY Zenon DEF Verdicts, VerdictAfter
<1>2. IsIt(Verdicts(words, found, on, off))
  <2>1. \E v : v = [k \in 0 .. Len(words) |-> VerdictAfter(v, words, found, on, off, k)]
    BY VerdictsExist
  <2> QED
    BY <1>1, <2>1, Zenon
<1>3. \A v : IsIt(v) => v[n] = VerdictAfter(v, words, found, on, off, n)
  OBVIOUS
<1> HIDE DEF IsIt
<1> QED
  BY <1>2, <1>3

\* Words that are neither on nor off leave the variable alone.
LEMMA VerdictStays ==
  ASSUME opts \in Seq(Words), NEW found, NEW on, NEW off, NEW p \in 0 .. Len(opts),
         \A j \in p + 1 .. Len(opts) : opts[j] \notin on \cup off
  PROVE  Wanted(found, on, off) = Verdicts(opts, found, on, off)[p]
<1> DEFINE v == Verdicts(opts, found, on, off)
<1> DEFINE T == {k \in p .. Len(opts) : v[k] # v[p]}
<1>1. Len(opts) \in Nat /\ p \in Nat
  OBVIOUS
<1>2. CASE T = {}
  <2>1. Len(opts) \in p .. Len(opts)
    BY <1>1
  <2>2. v[Len(opts)] = v[p]
    <3> HIDE DEF v
    <3> QED
      BY <1>2, <2>1
  <2> QED
    BY <2>2 DEF Wanted
<1>3. CASE T # {}
  <2>1. T \in SUBSET Nat
    BY <1>1
  <2>2. PICK m \in T : \A k \in T : m <= k
    <3> HIDE DEF T
    <3> QED
      BY <1>3, <2>1, LeastNumber
  <2>3. m \in p .. Len(opts) /\ v[m] # v[p]
    <3> HIDE DEF v
    <3> QED
      BY <2>2
  <2>4. m # p
    <3> HIDE DEF v
    <3> QED
      BY <2>3
  <2>5. m \in p + 1 .. Len(opts) /\ m \in 0 .. Len(opts) /\ m - 1 \in p .. Len(opts) /\ m # 0
        /\ ~ (m <= m - 1)
    BY <1>1, <2>3, <2>4
  <2>6. v[m] = v[m - 1]
    <3>1. opts[m] \notin on /\ opts[m] \notin off
      BY <2>5
    <3>2. v[m] = VerdictAfter(v, opts, found, on, off, m)
      BY <2>5, VerdictsAre
    <3> HIDE DEF v
    <3> QED
      BY <2>5, <3>1, <3>2 DEF VerdictAfter
  <2>7. m - 1 \notin T
    <3> HIDE DEF T
    <3> QED
      BY <2>2, <2>5
  <2>8. v[m - 1] = v[p]
    <3> HIDE DEF v
    <3> QED
      BY <2>5, <2>7
  <2> HIDE DEF v
  <2> QED
    BY <2>3, <2>6, <2>8
<1> QED
  BY <1>2, <1>3

\* The last word that is on or off decides, and nothing if there is none.
LEMMA LastWordDecides ==
  ASSUME opts \in Seq(Words), NEW found, NEW on, NEW off, on \cap off = {}
  PROVE  Forced(found, on, off, Wanted(found, on, off))
<1> DEFINE a == LastOf(on)
<1> DEFINE b == LastOf(off)
<1> DEFINE v == Verdicts(opts, found, on, off)
<1>1. Len(opts) \in Nat
  OBVIOUS
<1>2. /\ a \in 0 .. Len(opts) /\ (a = 0 \/ opts[a] \in on)
      /\ \A j \in a + 1 .. Len(opts) : opts[j] \notin on
      /\ b \in 0 .. Len(opts) /\ (b = 0 \/ opts[b] \in off)
      /\ \A j \in b + 1 .. Len(opts) : opts[j] \notin off
  BY LastWord
<1> HIDE DEF a, b
<1>3. ASSUME a > b
      PROVE  Wanted(found, on, off) = TRUE
  <2>1. \A j \in a + 1 .. Len(opts) : opts[j] \notin on \cup off
    BY <1>1, <1>2, <1>3
  <2>2. Wanted(found, on, off) = v[a]
    BY <1>2, <2>1, VerdictStays
  <2>3. a # 0 /\ opts[a] \in on
    BY <1>2, <1>3
  <2>4. v[a] = VerdictAfter(v, opts, found, on, off, a)
    BY <1>2, VerdictsAre
  <2> HIDE DEF v
  <2> QED
    BY <2>2, <2>3, <2>4 DEF VerdictAfter
<1>4. ASSUME b > a
      PROVE  Wanted(found, on, off) = FALSE
  <2>1. \A j \in b + 1 .. Len(opts) : opts[j] \notin on \cup off
    BY <1>1, <1>2, <1>4
  <2>2. Wanted(found, on, off) = v[b]
    BY <1>2, <2>1, VerdictStays
  <2>3. b # 0 /\ opts[b] \in off /\ opts[b] \notin on
    BY <1>2, <1>4
  <2>4. v[b] = VerdictAfter(v, opts, found, on, off, b)
    BY <1>2, VerdictsAre
  <2> HIDE DEF v
  <2> QED
    BY <2>2, <2>3, <2>4 DEF VerdictAfter
<1>5. ASSUME a = b
      PROVE  Wanted(found, on, off) = found
  <2>1. a = 0
    BY <1>2, <1>5
  <2>2. \A j \in 0 + 1 .. Len(opts) : opts[j] \notin on \cup off
    BY <1>2, <1>5, <2>1
  <2>3. 0 \in 0 .. Len(opts)
    BY <1>1
  <2>4. Wanted(found, on, off) = v[0]
    BY <2>2, <2>3, VerdictStays
  <2>5. v[0] = VerdictAfter(v, opts, found, on, off, 0)
    BY <2>3, VerdictsAre
  <2> HIDE DEF v
  <2> QED
    BY <2>4, <2>5 DEF VerdictAfter
<1>6. /\ a > b => Wanted(found, on, off)
      /\ b > a => ~ Wanted(found, on, off)
      /\ a = b => (Wanted(found, on, off) <=> found)
  BY <1>3, <1>4, <1>5, Zenon
<1> QED
  BY <1>6, Zenon DEF Forced, a, b

-----------------------------------------------------------------------------
(***************************************************************************)
(* The exit status.                                                        *)
(***************************************************************************)

\* Eight of the eleven bits get to the caller: those of the commands 0 .. 7.
LEMMA EightBits ==
  ASSUME NEW failed \in SUBSET (0 .. 10)
  PROVE  Status(failed) = 0 <=> failed \cap (0 .. 7) = {}
<1> DEFINE ret(b, n) == IF b \in failed THEN n ELSE 0
<1> DEFINE low == ret(0, 1) + ret(1, 2) + ret(2, 4) + ret(3, 8) + ret(4, 16) + ret(5, 32)
                    + ret(6, 64) + ret(7, 128)
<1>1. Status(failed) = (low + ret(8, 256) + ret(9, 512) + ret(10, 1024)) % 256
  BY DEF Status
<1>2. low \in 0 .. 255 /\ (low = 0 <=> failed \cap (0 .. 7) = {})
  <2>1. low \in 0 .. 255
    OBVIOUS
  <2>2. low = 0 <=> \A b \in {0, 1, 2, 3, 4, 5, 6, 7} : b \notin failed
    OBVIOUS
  <2>3. 0 .. 7 = {0, 1, 2, 3, 4, 5, 6, 7}
    OBVIOUS
  <2> HIDE DEF low
  <2> QED
    BY <2>1, <2>2, <2>3
<1>3. PICK k \in 0 .. 7 : ret(8, 256) + ret(9, 512) + ret(10, 1024) = 256 * k
  <2>1. \E x \in {0, 1}, y \in {0, 2}, z \in {0, 4} :
          /\ ret(8, 256) = 256 * x /\ ret(9, 512) = 256 * y /\ ret(10, 1024) = 256 * z
    OBVIOUS
  <2> HIDE DEF ret
  <2> QED
    BY <2>1
<1>4. Status(failed) = low
  <2>1. Status(failed) = (low + 256 * k) % 256
    <3>1. ret(8, 256) \in Int /\ ret(9, 512) \in Int /\ ret(10, 1024) \in Int
      OBVIOUS
    <3>2. low + ret(8, 256) + ret(9, 512) + ret(10, 1024)
            = low + (ret(8, 256) + ret(9, 512) + ret(10, 1024))
      <4> HIDE DEF ret, low
      <4> QED
        BY <1>2, <3>1
    <3> HIDE DEF ret, low
    <3> QED
      BY <1>1, <1>3, <3>2
  <2> HIDE DEF ret, low
  <2> QED
    BY <1>2, <2>1
<1> HIDE DEF low, ret
<1> QED
  BY <1>2, <1>4

-----------------------------------------------------------------------------
(***************************************************************************)
(* The patches and the rebuilds.                                           *)
(***************************************************************************)

PatchInv == PatchTypeOK /\ SuccessSays /\ FlagsInv

LEMMA InitPatches == PatchInit => PatchInv
<1> SUFFICES ASSUME PatchInit PROVE PatchInv
  OBVIOUS
<1>1. Len(Patches) \in Nat
  BY PatchAssumption
<1>2. PatchTypeOK
  BY <1>1 DEF PatchInit, PatchTypeOK, Pristine, Roots, NoPatch
<1>3. SuccessSays /\ FlagsInv
  BY DEF PatchInit, SuccessSays, FlagsInv, Pristine, NoPatch
<1> QED
  BY <1>2, <1>3 DEF PatchInv

\* The commands have the bits 0 .. 10.
LEMMA CommandBits ==
  ASSUME NEW p \in {"82", "85", "86", "87"}
  PROVE  Commands(p) \subseteq 0 .. 10
BY DEF Commands

\* What a patch does to the root: a root, whose chrome_dev.conf has the flags
\* that were set.
LEMMA EffectKeeps ==
  ASSUME NEW p \in {"82", "85", "86", "87"}, NEW r \in Roots, r.set \subseteq r.conf, NEW failed
  PROVE  Effect(p, r, failed) \in Roots /\ Effect(p, r, failed).set \subseteq Effect(p, r, failed).conf
<1>1. CASE p = "82"
  <2> DEFINE new == {FlagOf[b] : b \in (Commands("82") \cap DOMAIN FlagOf) \ failed}
  <2> DEFINE conf == (IF 1 \in failed THEN r.conf ELSE {}) \cup new
  <2> DEFINE baked == ~ debug /\ 10 \notin failed
  <2>1. Effect(p, r, failed) = [r EXCEPT !.conf = conf,
               !.set = new,
               !.ui = IF baked /\ r.placeholder THEN conf ELSE @,
               !.placeholder = @ /\ ~ baked]
    BY <1>1 DEF Effect, Features
  <2>2. new \subseteq Flags
    BY DEF FlagOf, Flags
  <2>3. r.conf \subseteq Flags /\ r.ui \subseteq Flags
    BY DEF Roots
  <2>4. conf \subseteq Flags /\ new \subseteq conf
    BY <2>2, <2>3
  <2>5. (r.placeholder /\ ~ baked) \in BOOLEAN
    OBVIOUS
  <2> HIDE DEF new, conf, baked
  <2> QED
    BY <2>1, <2>2, <2>3, <2>4, <2>5 DEF Roots
<1>2. CASE p = "85"
  <2>1. \/ Effect(p, r, failed) = r
        \/ Effect(p, r, failed) = [r EXCEPT !.conf = @ \cup {"gl"}, !.set = @ \cup {"gl"}]
    BY <1>2 DEF Effect, Mesa
  <2> QED
    BY <2>1 DEF Roots, Flags
<1>3. CASE p = "86"
  BY <1>3 DEF Effect
<1>4. CASE p = "87"
  <2>1. \/ Effect(p, r, failed) = r
        \/ \E a \in {r.aside, r.crosvm} :
              Effect(p, r, failed) = [r EXCEPT !.aside = a, !.crosvm = "wrapper"]
    BY <1>4 DEF Effect, Seccomp
  <2> QED
    BY <2>1 DEF Roots
<1> QED
  BY <1>1, <1>2, <1>3, <1>4

\* When the first eight commands of a patch work, the flags they set are there.
LEMMA PromisesKept ==
  ASSUME NEW p \in {"82", "85", "86", "87"}, NEW r \in Roots,
         NEW failed, failed \cap (0 .. 7) = {}
  PROVE  Promised(p) \subseteq Effect(p, r, failed).conf
<1>1. CASE p = "82"
  <2> DEFINE new == {FlagOf[b] : b \in (Commands("82") \cap DOMAIN FlagOf) \ failed}
  <2>1. DOMAIN FlagOf = {1, 2, 3, 4, 6, 8} /\ FlagOf[1] = "shortcuts" /\ FlagOf[2] = "sandbox"
        /\ FlagOf[3] = "overlays" /\ FlagOf[4] = "legacy" /\ FlagOf[6] = "tablet"
    BY DEF FlagOf
  <2>2. \A b \in {1, 2, 3, 4, 6} : b \in Commands("82") => FlagOf[b] \in new
    BY <2>1
  <2>3. /\ {1, 2, 3} \subseteq Commands("82")
        /\ Has("acpi_power_button") => 4 \in Commands("82")
        /\ ~ Has("acpi_power_button") /\ Has("acpi_power_button_sleep") => 6 \in Commands("82")
    BY DEF Commands
  <2> HIDE DEF new
  <2>4. Promised(p) \subseteq new
    BY <1>1, <2>1, <2>2, <2>3 DEF Promised
  <2>5. new \subseteq Effect(p, r, failed).conf
    BY <1>1 DEF Effect, Features, Roots, new
  <2> QED
    BY <2>4, <2>5
<1>2. CASE p = "85"
  BY <1>2 DEF Promised, Effect, Mesa, Roots
<1>3. CASE p \in {"86", "87"}
  BY <1>3 DEF Promised
<1> QED
  BY <1>1, <1>2, <1>3

LEMMA NextPatches == PatchInv /\ [PatchNext]_patchVars => PatchInv'
<1> SUFFICES ASSUME PatchInv, [PatchNext]_patchVars PROVE PatchInv'
  OBVIOUS
<1> USE DEF PatchInv
<1>0. Len(Patches) \in Nat /\ \A n \in 1 .. Len(Patches) : Patches[n] \in {"82", "85", "86", "87"}
  BY PatchAssumption
<1>1. CASE RunPatch
  <2> DEFINE p == Patches[next + 1]
  <2>1. PICK f \in Failures[p] : RunOf(p, Commands(p) \cap (f \cup Doomed(p, root)))
    BY <1>1 DEF RunPatch
  <2> DEFINE failed == Commands(p) \cap (f \cup Doomed(p, root))
  <2>2. next < Len(Patches) /\ next' = next + 1 /\ UNCHANGED <<hw, opts, debug>>
    BY <1>1 DEF RunPatch
  <2>3. next + 1 \in 1 .. Len(Patches) /\ p \in {"82", "85", "86", "87"}
    BY <1>0, <2>2 DEF PatchTypeOK
  <2>4. failed \in SUBSET (0 .. 10)
    BY <2>3, CommandBits
  <2>5. root' = Effect(p, root, failed)
    BY <2>1 DEF RunOf
  <2>6. last' = [failed |-> failed, log |-> IF Status(failed) = 0 THEN "success" ELSE "failed"]
    BY <2>1 DEF RunOf
  <2>7. \A q : Commands(q)' = Commands(q)
    BY <2>2 DEF Commands, Has, LnlMesa, SofFirmware, ArcvmSeccomp, Wanted
  <2>8. failed \subseteq Commands(p)
    OBVIOUS
  <2> HIDE DEF failed, p
  <2>9. root' \in Roots /\ FlagsInv'
    BY <2>3, <2>5, EffectKeeps DEF PatchTypeOK, FlagsInv
  <2>10. SuccessSays'
    <3>1. last'.log = "success" <=> last'.failed \cap (0 .. 7) = {}
      BY <2>4, <2>6, EightBits
    <3>2. Patches[next'] = p
      BY <2>2 DEF p
    <3>3. \A q : Promised(q)' = Promised(q)
      BY <2>2 DEF Promised, Has, LnlMesa, Wanted
    <3>4. Promised(Patches[next])' = Promised(p)
      BY <3>2, <3>3
    <3>5. failed \cap (0 .. 7) = {} => Promised(p) \subseteq root'.conf
      BY <2>3, <2>5, <2>9, PromisesKept DEF PatchTypeOK
    <3> QED
      BY <2>6, <3>1, <3>4, <3>5 DEF SuccessSays
  <2>11. PatchTypeOK'
    <3>1. Patches[next'] = p
      BY <2>2 DEF p
    <3>2. last'.failed \subseteq Commands(Patches[next])'
      BY <2>6, <2>7, <2>8, <3>1
    <3>3. last' \in [failed : SUBSET (0 .. 10), log : {"success", "failed"}]
      BY <2>4, <2>6
    <3> QED
      BY <1>0, <2>2, <2>3, <2>9, <3>2, <3>3 DEF PatchTypeOK
  <2> QED
    BY <2>9, <2>10, <2>11
<1>2. CASE Rebuild
  <2>1. /\ next' = 0 /\ opts' \in OptionStrings /\ debug' \in DebugFlags
        /\ root' \in {Pristine, root} /\ last' = NoPatch /\ hw' = hw
    BY <1>2 DEF Rebuild
  <2>2. Pristine \in Roots /\ Pristine.set \subseteq Pristine.conf
    BY DEF Pristine, Roots
  <2>3. PatchTypeOK'
    BY <1>0, <2>1, <2>2 DEF PatchTypeOK, NoPatch
  <2>4. SuccessSays' /\ FlagsInv'
    BY <2>1, <2>2 DEF SuccessSays, FlagsInv, NoPatch
  <2> QED
    BY <2>3, <2>4
<1>3. CASE UNCHANGED patchVars
  <2>1. UNCHANGED <<hw, opts, debug, root, next, last>>
    BY <1>3 DEF patchVars
  <2>2. \A p : Commands(p)' = Commands(p)
    BY <2>1 DEF Commands, Has, LnlMesa, SofFirmware, ArcvmSeccomp, Wanted
  <2> QED
    BY <2>1, <2>2 DEF PatchTypeOK, SuccessSays, FlagsInv, Promised, Has, LnlMesa, Wanted
<1> QED
  BY <1>1, <1>2, <1>3 DEF PatchNext

\* The invariant of the patches, for every order of them, whatever the options,
\* whatever fails and however often the root is rebuilt.
THEOREM PatchInvariance == PatchSpec => []PatchInv
  BY InitPatches, NextPatches, PTL DEF PatchSpec

\* The options decide before the hardware and the last of two that contradict
\* each other does, for options of any length (85:12, 86:30, 87:19).
THEOREM TheOptionsDecide == PatchSpec => []OptionsDecide
<1>1. PatchInv => OptionsDecide
  <2> SUFFICES ASSUME PatchInv PROVE OptionsDecide
    OBVIOUS
  <2>1. opts \in Seq(Words)
    BY PatchAssumption DEF PatchInv, PatchTypeOK
  <2>2. Forced("lnl" \in hw, {"lnl_mesa"}, {"no_lnl_mesa"}, LnlMesa)
    BY <2>1, LastWordDecides DEF LnlMesa
  <2>3. Forced(hw # {}, {"sof_firmware", "lnl_audio_fw"},
               {"no_sof_firmware", "no_lnl_audio_fw"}, SofFirmware)
    BY <2>1, LastWordDecides DEF SofFirmware
  <2>4. Forced("lnl" \in hw, {"arcvm_seccomp"}, {"no_arcvm_seccomp"}, ArcvmSeccomp)
    BY <2>1, LastWordDecides DEF ArcvmSeccomp
  <2> QED
    BY <2>2, <2>3, <2>4 DEF OptionsDecide
<1> QED
  BY <1>1, PatchInvariance, PTL

\* A "success" in the log says that none of a patch's first eight commands
\* failed and that the flags they set are there, and a "failed" that one of them
\* did: it says nothing of the others (82-features.sh:61, brunch-init:185-191).
THEOREM WhatSuccessSays == PatchSpec => []SuccessSays
<1>1. PatchInv => SuccessSays
  BY DEF PatchInv
<1> QED
  BY <1>1, PatchInvariance, PTL

\* The flags that were set are in chrome_dev.conf, whatever failed: chrome is
\* started with them on a machine in developer mode, as all entries of the
\* shipped grub.cfg are (82-features.sh:1-6, 85-mesa_lnl.sh:9).
THEOREM FlagsAreKept == PatchSpec => [](FlagsInv /\ (debug => FlagsReachChrome))
<1>1. PatchInv => FlagsInv /\ (debug => FlagsReachChrome)
  BY DEF PatchInv, FlagsInv, FlagsReachChrome, ChromeFlags
<1> QED
  BY <1>1, PatchInvariance, PTL

\* crosvm ends in ChromeOS's own as long as it can be moved aside: a wrapper is
\* never wrapped, however often the patch is run on the same root (87:50-55).
THEOREM CrosvmIsKept ==
  ASSUME \A f \in Failures["87"] : 2 \notin f
  PROVE  PatchSpec => []CrosvmIsReached
<1>1. PatchInit => CrosvmInv
  BY DEF PatchInit, Pristine, CrosvmInv
<1>2. PatchInv /\ CrosvmInv /\ [PatchNext]_patchVars => CrosvmInv'
  <2> SUFFICES ASSUME PatchInv, CrosvmInv, [PatchNext]_patchVars PROVE CrosvmInv'
    OBVIOUS
  <2>0. root \in Roots
    BY DEF PatchInv, PatchTypeOK
  <2>1. CASE RunPatch
    <3> DEFINE p == Patches[next + 1]
    <3>1. PICK f \in Failures[p] : RunOf(p, Commands(p) \cap (f \cup Doomed(p, root)))
      BY <2>1 DEF RunPatch
    <3> DEFINE failed == Commands(p) \cap (f \cup Doomed(p, root))
    <3>2. p = "87" => 2 \notin failed
      BY <3>1 DEF Doomed
    <3>3. root' = Effect(p, root, failed)
      BY <3>1 DEF RunOf
    <3>4. p \in {"82", "85", "86", "87"}
      <4>1. next + 1 \in 1 .. Len(Patches)
        BY <2>1, PatchAssumption DEF RunPatch, PatchInv, PatchTypeOK
      <4> QED
        BY <4>1, PatchAssumption
    <3> HIDE DEF p, failed
    <3>5. CASE p = "82"
      <4>1. Effect(p, root, failed).aside = root.aside /\ Effect(p, root, failed).crosvm = root.crosvm
        BY <2>0, <3>5 DEF Effect, Features, Roots
      <4> QED
        BY <3>3, <4>1 DEF CrosvmInv
    <3>6. CASE p = "85"
      <4>1. Effect(p, root, failed).aside = root.aside /\ Effect(p, root, failed).crosvm = root.crosvm
        BY <2>0, <3>6 DEF Effect, Mesa, Roots
      <4> QED
        BY <3>3, <4>1 DEF CrosvmInv
    <3>7. CASE p = "86"
      BY <3>3, <3>7 DEF Effect, CrosvmInv
    <3>8. CASE p = "87"
      <4>1. \/ root' = root
            \/ root' = [root EXCEPT !.aside = IF root.aside # "none" THEN @ ELSE root.crosvm,
                                    !.crosvm = "wrapper"]
        BY <3>2, <3>3, <3>8 DEF Effect, Seccomp
      <4> QED
        BY <2>0, <4>1 DEF CrosvmInv, Roots
    <3> QED
      BY <3>4, <3>5, <3>6, <3>7, <3>8
  <2>2. CASE Rebuild
    BY <2>2 DEF Rebuild, Pristine, CrosvmInv
  <2>3. CASE UNCHANGED patchVars
    BY <2>3 DEF patchVars, CrosvmInv
  <2> QED
    BY <2>1, <2>2, <2>3 DEF PatchNext
<1>3. CrosvmInv => CrosvmIsReached
  BY DEF CrosvmInv, CrosvmIsReached
<1> QED
  BY <1>1, <1>2, <1>3, PatchInvariance, PTL DEF PatchSpec

=============================================================================
