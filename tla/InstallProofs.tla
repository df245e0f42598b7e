---------------------------- MODULE InstallProofs -----------------------------
(***************************************************************************)
(* The partition table of the installers is sound on every disk of at      *)
(* least 14 GiB with blocks of 512 or 4096 bytes, and what they read       *)
(* completely is where the table says, for sources of any size. It stays   *)
(* so when the installation is copied to any larger disk and resized, and  *)
(* the recovery image that is extracted from it has a sound table and      *)
(* holds what was installed.                                               *)
(***************************************************************************)
EXTENDS SystemTools, TLAPS

\* A whole number of blocks that holds n sectors, and less than a block more.
LEMMA Rounding ==
  ASSUME NEW b \in {1, 8}, NEW n \in Nat
  PROVE  LET k == n \div b + (IF n % b > 0 THEN 1 ELSE 0) IN
         /\ k \in Nat
         /\ n <= k * b
         /\ k * b <= n + 7
         /\ (k * b) % b = 0
         /\ n > 0 => k > 0
<1>1. CASE b = 1 BY <1>1
<1>2. CASE b = 8 BY <1>2
<1> QED BY <1>1, <1>2

\* A multiple of the block size is given to cgpt in blocks without a loss.
LEMMA ExactBlocks ==
  ASSUME NEW b \in {1, 8}, NEW n \in Nat, n % b = 0
  PROVE  n \div b \in Nat /\ (n \div b) * b = n
<1>1. CASE b = 1 BY <1>1
<1>2. CASE b = 8 BY <1>2
<1> QED BY <1>1, <1>2

\* The blocks that are left of n sectors when the first m are taken.
LEMMA Remainder ==
  ASSUME NEW b \in {1, 8}, NEW n \in Nat, NEW m \in Nat, m % b = 0, m + 8 < n
  PROVE  LET k == n \div b - m \div b IN
         k \in Nat /\ k > 0 /\ k * b \in Nat /\ m + k * b <= n
<1>1. CASE b = 1 BY <1>1, SMT
<1>2. CASE b = 8 BY <1>2, SMT
<1> QED BY <1>1, <1>2

\* 4096 bytes are a multiple of both block sizes.
LEMMA Alignment ==
  ASSUME NEW n \in Nat, NEW b \in {1, 8}
  PROVE  AlignUp(n) \in Nat /\ n <= AlignUp(n) /\ AlignUp(n) <= n + 7
         /\ AlignUp(n) % b = 0 /\ AlignUp(n) % 8 = 0
  BY DEF AlignUp

\* The lengths of the entries add up to less than the smallest disk.
LEMMA LayoutFits ==
  /\ Len(Layout) = 13
  /\ \A i \in 1 .. 13 :
       /\ Layout[i].part \in {0} \cup (2 .. 12)
       /\ Layout[i].sectors \in Nat
       /\ Layout[i].sectors > 0
       /\ Reach[i] \in Nat
       /\ Reach[i] + Layout[i].sectors + 14 <= Reach[i + 1]
  /\ Reach[1] = 64
  /\ Reach[14] \in Nat
  /\ Reach[14] + 7 + 48 + 8 < MinSectors
<1>1. Len(Layout) = 13
  BY SMT DEF Layout
<1>2. \A i \in 1 .. 13 :
       /\ Layout[i].part \in {0} \cup (2 .. 12)
       /\ Layout[i].sectors \in Nat
       /\ Layout[i].sectors > 0
       /\ Reach[i] \in Nat
       /\ Reach[i] + Layout[i].sectors + 14 <= Reach[i + 1]
  <2> DEFINE Good(i) ==
       /\ Layout[i].part \in {0} \cup (2 .. 12)
       /\ Layout[i].sectors \in Nat
       /\ Layout[i].sectors > 0
       /\ Reach[i] \in Nat
       /\ Reach[i] + Layout[i].sectors + 14 <= Reach[i + 1]
  <2>1. Good(1) BY SMT DEF Layout, Entry, Reach
  <2>2. Good(2) BY SMT DEF Layout, Entry, Reach
  <2>3. Good(3) BY SMT DEF Layout, Entry, Reach
  <2>4. Good(4) BY SMT DEF Layout, Entry, Reach
  <2>5. Good(5) BY SMT DEF Layout, Entry, Reach
  <2>6. Good(6) BY SMT DEF Layout, Entry, Reach
  <2>7. Good(7) BY SMT DEF Layout, Entry, Reach
  <2>8. Good(8) BY SMT DEF Layout, Entry, Reach
  <2>9. Good(9) BY SMT DEF Layout, Entry, Reach
  <2>10. Good(10) BY SMT DEF Layout, Entry, Reach
  <2>11. Good(11) BY SMT DEF Layout, Entry, Reach
  <2>12. Good(12) BY SMT DEF Layout, Entry, Reach
  <2>13. Good(13) BY SMT DEF Layout, Entry, Reach
  <2> HIDE DEF Good
  <2>14. \A i \in 1 .. 13 : Good(i)
    BY <2>1, <2>2, <2>3, <2>4, <2>5, <2>6, <2>7, <2>8, <2>9, <2>10, <2>11, <2>12,
       <2>13, SMT
  <2> QED BY <2>14, SMT DEF Good
<1>3. Reach[1] = 64 /\ Reach[14] \in Nat /\ Reach[14] + 7 + 48 + 8 < MinSectors
  BY SMT DEF Reach, MinSectors
<1> QED BY <1>1, <1>2, <1>3, SMT

\* Every partition but STATE has one entry.
LEMMA LayoutCovers ==
  /\ \A p \in 2 .. 12 : \E i \in 1 .. 13 : Layout[i].part = p
  /\ \A i, j \in 1 .. 13 : i # j /\ Layout[i].part = Layout[j].part => Layout[i].part = 0
<1>1. \A p \in 2 .. 12 : \E i \in 1 .. 13 : Layout[i].part = p
  <2>1. /\ Layout[1].part = 11 /\ Layout[2].part = 6 /\ Layout[3].part = 7
        /\ Layout[4].part = 9 /\ Layout[5].part = 10 /\ Layout[7].part = 2
        /\ Layout[8].part = 4 /\ Layout[9].part = 8 /\ Layout[11].part = 12
        /\ Layout[12].part = 5 /\ Layout[13].part = 3
    BY SMT DEF Layout, Entry
  <2> QED BY <2>1
<1>2. \A i, j \in 1 .. 13 : i # j /\ Layout[i].part = Layout[j].part => Layout[i].part = 0
  BY SMT DEF Layout, Entry
<1> QED BY <1>1, <1>2

-----------------------------------------------------------------------------

LEMMA DeviceFacts ==
  ASSUME TypeOK
  PROVE  dev.block \in {1, 8} /\ dev.sectors \in Nat /\ dev.sectors >= MinSectors
  BY InstallAssumption, SMT DEF TypeOK

LEMMA InitIInv == Init => IInv
<1> SUFFICES ASSUME Init PROVE IInv
  OBVIOUS
<1> USE DEF Init, Partitions
<1>1. TypeOK
  BY InstallAssumption, LayoutFits, SMT DEF TypeOK
<1>2. dev.block \in {1, 8}
  BY <1>1, DeviceFacts
<1>3. EntriesInv
  <2>1. curr % dev.block = 0
    BY <1>2, SMT
  <2>2. \A p \in Partitions : Begins(p) = 0 /\ PartitionSectors(p) = 0 /\ blocks[p] = 0
    BY <1>2, SMT DEF Begins, PartitionSectors
  <2> QED BY <2>1, <2>2, LayoutFits, SMT DEF EntriesInv, Apart
<1>4. CopiesInv
  BY SMT DEF CopiesInv, Copied
<1> QED BY <1>1, <1>3, <1>4, SMT DEF IInv, TableSound

\* A new entry begins where the last one ended, or up to 7 sectors later.
LEMMA AddEntryInv == IInv /\ AddEntry => IInv'
<1> SUFFICES ASSUME IInv, AddEntry PROVE IInv'
  OBVIOUS
<1> DEFINE e == Layout[entry]
           at == IF e.align THEN AlignUp(curr) ELSE curr
           b == dev.block
           n == BlocksFor(e.sectors)
<1>1. /\ TypeOK /\ EntriesInv /\ CopiesInv /\ pc = "table"
      /\ entry \in 1 .. 13 /\ entry + 1 \in 2 .. 14
      /\ b \in {1, 8} /\ dev.sectors \in Nat
  BY DeviceFacts, LayoutFits, SMT DEF IInv, AddEntry, TypeOK
<1>2. /\ e.part \in {0} \cup (2 .. 12) /\ e.sectors \in Nat /\ e.sectors > 0
      /\ Reach[entry] \in Nat
      /\ Reach[entry] + e.sectors + 14 <= Reach[entry + 1]
  BY <1>1, LayoutFits
<1>3. at \in Nat /\ curr <= at /\ at <= curr + 7 /\ at % b = 0
  <2>1. curr \in Nat /\ curr % b = 0
    BY <1>1 DEF TypeOK, EntriesInv
  <2>2. /\ AlignUp(curr) \in Nat /\ curr <= AlignUp(curr) /\ AlignUp(curr) <= curr + 7
        /\ AlignUp(curr) % b = 0
    BY <2>1, <1>1, Alignment
  <2>3. CASE e.align
    BY <2>2, <2>3
  <2>4. CASE ~ e.align
    BY <2>1, <2>4, SMT
  <2> QED BY <2>3, <2>4
<1>4. at \div b \in Nat /\ (at \div b) * b = at
  BY <1>1, <1>3, ExactBlocks
<1>5. /\ n \in Nat /\ e.sectors <= n * b /\ n * b <= e.sectors + 7
      /\ (n * b) % b = 0 /\ n > 0
  BY <1>1, <1>2, Rounding DEF BlocksFor
<1>6. /\ pc' = pc /\ dev' = dev /\ mode' = mode /\ sizes' = sizes /\ legacy' = legacy
      /\ next' = next /\ from' = from /\ len' = len /\ content' = content /\ whole' = whole
      /\ entry' = entry + 1
      /\ curr' = at + n * b
      /\ start' = [p \in Partitions |-> IF p = e.part THEN at \div b ELSE start[p]]
      /\ blocks' = [p \in Partitions |-> IF p = e.part THEN n ELSE blocks[p]]
  BY DEF AddEntry, targetVars, copyVars
<1> HIDE DEF e, at, b, n
<1>7. n * b \in Nat
  BY <1>1, <1>5, SMT
<1>8. TypeOK'
  BY <1>1, <1>3, <1>4, <1>5, <1>6, <1>7, LayoutFits, SMT DEF TypeOK
<1>9. \A p \in Partitions :
        /\ p # e.part => Begins(p)' = Begins(p) /\ PartitionSectors(p)' = PartitionSectors(p)
                          /\ blocks'[p] = blocks[p]
        /\ p = e.part => Begins(p)' = at /\ PartitionSectors(p)' = n * b /\ blocks'[p] = n
  BY <1>1, <1>4, <1>6, SMT DEF Begins, PartitionSectors, b
<1>10. \A p \in Partitions : Begins(p) \in Nat /\ PartitionSectors(p) \in Nat
                              /\ blocks[p] \in Nat
                              /\ (blocks[p] = 0 => PartitionSectors(p) = 0)
  BY <1>1, SMT DEF TypeOK, Begins, PartitionSectors, b
<1>11. curr \in Nat /\ curr >= 64 /\ curr <= Reach[entry]
  BY <1>1 DEF EntriesInv, TypeOK
<1>12. EntriesInv'
  <2>1. curr' % dev'.block = 0
    <3>1. CASE b = 1 BY <3>1, <1>3, <1>6, <1>7, SMT DEF b
    <3>2. CASE b = 8 BY <3>2, <1>3, <1>5, <1>6, <1>7, SMT DEF b
    <3> QED BY <3>1, <3>2, <1>1
  <2>2. curr' >= 64 /\ curr' <= Reach[entry']
    BY <1>1, <1>2, <1>3, <1>5, <1>6, <1>7, <1>11, LayoutFits, SMT
  <2>3. ASSUME NEW i \in 1 .. entry' - 1, Layout[i].part # 0
        PROVE  PartitionSectors(Layout[i].part)' >= Layout[i].sectors
    <3>1. i \in 1 .. 13 /\ Layout[i].part \in Partitions
      BY <1>1, <1>6, <2>3, LayoutFits, SMT DEF Partitions
    <3>2. CASE i = entry
      BY <3>1, <3>2, <1>5, <1>9 DEF e
    <3>3. CASE i # entry
      <4>1. Layout[i].part # e.part
        BY <3>1, <3>3, <2>3, <1>1, LayoutCovers DEF e
      <4>2. i \in 1 .. entry - 1
        BY <3>3, <1>1, <1>6, SMT
      <4> QED BY <4>1, <4>2, <3>1, <1>1, <1>9, <2>3 DEF EntriesInv
    <3> QED BY <3>2, <3>3
  <2>4. ASSUME NEW p \in Partitions, blocks'[p] > 0
        PROVE  Begins(p)' >= 64 /\ Begins(p)' + PartitionSectors(p)' <= curr'
    <3>1. CASE p = e.part
      BY <3>1, <1>3, <1>6, <1>7, <1>9, <1>11, SMT
    <3>2. CASE p # e.part
      <4>1. blocks[p] > 0 /\ Begins(p)' = Begins(p) /\ PartitionSectors(p)' = PartitionSectors(p)
        BY <3>2, <2>4, <1>9
      <4>2. Begins(p) >= 64 /\ Begins(p) + PartitionSectors(p) <= curr
        BY <4>1, <1>1 DEF EntriesInv
      <4> QED BY <4>1, <4>2, <1>3, <1>6, <1>7, <1>10, <1>11, SMT
    <3> QED BY <3>1, <3>2
  <2>5. ASSUME NEW p \in Partitions, NEW q \in Partitions, p # q
        PROVE  Apart(Begins(p)', PartitionSectors(p)', Begins(q)', PartitionSectors(q)')
    <3>1. \A r \in Partitions : PartitionSectors(r) = 0 \/ Begins(r) + PartitionSectors(r) <= at
      <4> SUFFICES ASSUME NEW r \in Partitions, blocks[r] > 0
                   PROVE  Begins(r) + PartitionSectors(r) <= at
        BY <1>10, SMT
      <4>1. Begins(r) + PartitionSectors(r) <= curr
        BY <1>1 DEF EntriesInv
      <4> QED BY <4>1, <1>3, <1>10, <1>11, SMT
    <3>2. Apart(Begins(p), PartitionSectors(p), Begins(q), PartitionSectors(q))
      BY <1>1, <2>5 DEF EntriesInv
    <3>3. CASE p = e.part
      BY <3>1, <3>3, <2>5, <1>9, SMT DEF Apart
    <3>4. CASE q = e.part
      BY <3>1, <3>4, <2>5, <1>9, SMT DEF Apart
    <3>5. CASE p # e.part /\ q # e.part
      BY <3>2, <3>5, <1>9
    <3> QED BY <3>3, <3>4, <3>5
  <2> QED BY <2>1, <2>2, <2>3, <2>4, <2>5 DEF EntriesInv
<1>13. CopiesInv'
  <2>1. next = 1 /\ next' = 1 /\ pc' = "table"
    BY <1>1, <1>6 DEF CopiesInv
  <2>2. \A p \in Copied : p \in Nat /\ p >= 1 /\ ~ whole[p]
    BY <1>1, <2>1, SMT DEF CopiesInv, Copied, Partitions
  <2>3. Copied' = Copied /\ (mode' = "image" => dev'.block = 1)
    BY <1>1, <1>6 DEF CopiesInv, Copied
  <2> QED BY <1>6, <2>1, <2>2, <2>3, SMT DEF CopiesInv
<1> QED BY <1>1, <1>6, <1>8, <1>12, <1>13, SMT DEF IInv, TableSound

\* STATE begins where the last entry ended and leaves 48 sectors.
LEMMA AddStateInv == IInv /\ AddState => IInv'
<1> SUFFICES ASSUME IInv, AddState PROVE IInv'
  OBVIOUS
<1> DEFINE at == AlignUp(curr)
           b == dev.block
           n == dev.sectors \div b - (at + 48) \div b
<1>1. /\ TypeOK /\ EntriesInv /\ CopiesInv /\ pc = "table" /\ entry = 14
      /\ b \in {1, 8} /\ dev.sectors \in Nat /\ dev.sectors >= MinSectors
      /\ curr \in Nat /\ curr >= 64 /\ curr <= Reach[14]
  BY DeviceFacts, LayoutFits, SMT DEF IInv, AddState, TypeOK, EntriesInv
<1>2. at \in Nat /\ curr <= at /\ at <= curr + 7 /\ at % b = 0 /\ at % 8 = 0
  BY <1>1, Alignment
<1>3. at \div b \in Nat /\ (at \div b) * b = at
  BY <1>1, <1>2, ExactBlocks
<1>4. MinSectors \in Nat /\ Reach[14] \in Nat /\ Reach[14] + 63 < MinSectors
  BY LayoutFits, SMT DEF MinSectors
<1>5. at + 48 + 8 < dev.sectors
  BY <1>1, <1>2, <1>4, SMT
<1>6. n \in Nat /\ n > 0 /\ n * b \in Nat /\ at + n * b <= dev.sectors - 48
  <2>1. at + 48 \in Nat /\ (at + 48) % b = 0
    <3>1. CASE b = 1 BY <3>1, <1>2, SMT
    <3>2. CASE b = 8 BY <3>2, <1>2, SMT
    <3> QED BY <3>1, <3>2, <1>1
  <2>2. /\ n \in Nat /\ n > 0 /\ n * b \in Nat
        /\ at + 48 + n * b <= dev.sectors
    <3> HIDE DEF b, at
    <3> QED BY <2>1, <1>1, <1>5, Remainder, SMT
  <2> QED BY <2>2, <1>1, <1>2, SMT
<1>7. /\ pc' = "copy" /\ dev' = dev /\ mode' = mode /\ sizes' = sizes /\ legacy' = legacy
      /\ next' = next /\ from' = from /\ len' = len /\ content' = content /\ whole' = whole
      /\ entry' = entry
      /\ curr' = at
      /\ start' = [start EXCEPT ![1] = at \div b]
      /\ blocks' = [blocks EXCEPT ![1] = n]
  BY DEF AddState, targetVars, copyVars
<1> HIDE DEF at, b, n
<1>8. TypeOK'
  <2>1. start' \in [Partitions -> Nat] /\ blocks' \in [Partitions -> Nat]
    <3>1. start \in [Partitions -> Nat] /\ blocks \in [Partitions -> Nat]
      BY <1>1 DEF TypeOK
    <3>2. at \div b \in Nat /\ n \in Nat
      BY <1>3, <1>6
    <3>3. start' = [start EXCEPT ![1] = at \div b] /\ blocks' = [blocks EXCEPT ![1] = n]
      BY <1>7
    <3> QED BY <3>1, <3>2, <3>3
  <2> QED BY <2>1, <1>1, <1>2, <1>7 DEF TypeOK
<1>9. /\ Begins(1)' = at /\ PartitionSectors(1)' = n * b /\ blocks'[1] = n
      /\ \A p \in Partitions \ {1} :
           Begins(p)' = Begins(p) /\ PartitionSectors(p)' = PartitionSectors(p)
           /\ blocks'[p] = blocks[p]
  BY <1>1, <1>3, <1>7, SMT DEF Begins, PartitionSectors, b, TypeOK, Partitions
<1>10. \A p \in Partitions : Begins(p) \in Nat /\ PartitionSectors(p) \in Nat
                              /\ blocks[p] \in Nat
                              /\ (PartitionSectors(p) > 0 => blocks[p] > 0)
  BY <1>1, SMT DEF TypeOK, Begins, PartitionSectors, b
<1>11. \A i \in 1 .. 13 :
         Layout[i].part # 0 => PartitionSectors(Layout[i].part) >= Layout[i].sectors
  BY <1>1, SMT DEF EntriesInv
<1>12. \A p \in Partitions \ {1} :
         /\ blocks[p] > 0 /\ Begins(p) >= 64
         /\ Begins(p) + PartitionSectors(p) <= curr
  <2> SUFFICES ASSUME NEW p \in Partitions \ {1}
               PROVE  /\ blocks[p] > 0 /\ Begins(p) >= 64
                      /\ Begins(p) + PartitionSectors(p) <= curr
    OBVIOUS
  <2>1. p \in 2 .. 12
    BY SMT DEF Partitions
  <2>2. PICK i \in 1 .. 13 : Layout[i].part = p
    BY <2>1, LayoutCovers
  <2>3. PartitionSectors(p) > 0
    BY <2>1, <2>2, <1>10, <1>11, LayoutFits, SMT
  <2>4. blocks[p] > 0
    BY <2>3, <1>10
  <2> QED BY <2>4, <1>1 DEF EntriesInv
<1>13. TableSound'
  <2>1. \A i \in 1 .. 13 :
          Layout[i].part # 0 => PartitionSectors(Layout[i].part)' >= Layout[i].sectors
    <3> SUFFICES ASSUME NEW i \in 1 .. 13, Layout[i].part # 0
                 PROVE  PartitionSectors(Layout[i].part)' >= Layout[i].sectors
      OBVIOUS
    <3>1. Layout[i].part \in Partitions \ {1}
      BY LayoutFits, SMT DEF Partitions
    <3> QED BY <3>1, <1>9, <1>11
  <2>2. HeadSectors' <= 64 /\ HeadSectors' \in Nat /\ TailSectors' <= 48 /\ TailSectors' \in Nat
    BY SMT DEF HeadSectors, TailSectors
  <2>3. ASSUME NEW p \in Partitions
        PROVE  /\ blocks'[p] > 0 /\ Begins(p)' >= HeadSectors'
               /\ Begins(p)' + PartitionSectors(p)' <= dev'.sectors - TailSectors'
    <3>1. CASE p = 1
      BY <3>1, <2>2, <1>1, <1>2, <1>6, <1>7, <1>9, SMT
    <3>2. CASE p # 1
      <4>1. /\ blocks[p] > 0 /\ Begins(p) >= 64
            /\ Begins(p) + PartitionSectors(p) <= curr
        BY <3>2, <1>12
      <4>2. /\ Begins(p)' = Begins(p) /\ PartitionSectors(p)' = PartitionSectors(p)
            /\ blocks'[p] = blocks[p]
        BY <3>2, <1>9
      <4> QED BY <4>1, <4>2, <2>2, <1>1, <1>2, <1>5, <1>7, <1>10, SMT
    <3> QED BY <3>1, <3>2
  <2>4. ASSUME NEW p \in Partitions, NEW q \in Partitions, p # q
        PROVE  Apart(Begins(p)', PartitionSectors(p)', Begins(q)', PartitionSectors(q)')
    <3>1. Apart(Begins(p), PartitionSectors(p), Begins(q), PartitionSectors(q))
      BY <1>1, <2>4 DEF EntriesInv
    <3>2. CASE p # 1 /\ q # 1
      BY <3>1, <3>2, <1>9
    <3>3. CASE p = 1
      BY <3>3, <2>4, <1>1, <1>2, <1>9, <1>10, <1>12, SMT DEF Apart
    <3>4. CASE q = 1
      BY <3>4, <2>4, <1>1, <1>2, <1>9, <1>10, <1>12, SMT DEF Apart
    <3> QED BY <3>2, <3>3, <3>4
  <2>5. Len(Layout) = 13
    BY LayoutFits
  <2> QED BY <2>1, <2>3, <2>4, <2>5 DEF TableSound
<1>14. CopiesInv'
  <2>1. next = 1 /\ next' = 1 /\ pc' = "copy"
    BY <1>1, <1>7 DEF CopiesInv
  <2>2. \A p \in Copied : p \in Nat /\ p >= 1 /\ ~ whole[p]
    BY <1>1, <2>1, SMT DEF CopiesInv, Copied, Partitions
  <2>3. Copied' = Copied /\ (mode' = "image" => dev'.block = 1)
    BY <1>1, <1>7 DEF CopiesInv, Copied
  <2> QED BY <1>7, <2>1, <2>2, <2>3, SMT DEF CopiesInv
<1> QED BY <1>7, <1>8, <1>13, <1>14 DEF IInv

-----------------------------------------------------------------------------

LEMMA Lengths ==
  ASSUME TypeOK, TableSound, pc # "table", NEW p \in Partitions
  PROVE  /\ SourceOf(p) \in SourceNames \cup {"mkfs"}
         /\ PartitionSectors(p) \in Nat /\ Begins(p) \in Nat
         /\ Size(p) \in Nat /\ Destination(p) \in Nat /\ Room(p) \in Nat
<1>1. dev.block \in {1, 8} /\ dev.sectors \in Nat
  BY DeviceFacts
<1>2. start[p] \in Nat /\ blocks[p] \in Nat
  BY DEF TypeOK
<1>3. SourceOf(p) \in SourceNames \cup {"mkfs"}
  <2>1. /\ PartitionName[4] = "p4" /\ PartitionName[3] = "p3"
        /\ 3 \in 1 .. 12 /\ 4 \in 1 .. 12 /\ p \in 1 .. 12
    BY SMT DEF PartitionName, Partitions
  <2>2. {"p4", "p3", "rootc.img", "rootc.img from p8", "efi_legacy.img",
         PartitionName[p]} \subseteq SourceNames
    BY <2>1 DEF SourceNames
  <2>3. SourceOf(p) \in {"mkfs", "p4", "p3", "rootc.img", "rootc.img from p8",
                      "efi_legacy.img", PartitionName[p]}
    <3>1. CASE mode = "clone"
      BY <3>1 DEF SourceOf
    <3>2. CASE mode # "clone"
      BY <3>2 DEF SourceOf
    <3> QED BY <3>1, <3>2
  <2> QED BY <2>2, <2>3
<1>4. PartitionSectors(p) \in Nat /\ Begins(p) \in Nat /\ start[p] <= Begins(p)
  <2>1. CASE dev.block = 1
    BY <1>2, <2>1 DEF PartitionSectors, Begins
  <2>2. CASE dev.block = 8
    BY <1>2, <2>2 DEF PartitionSectors, Begins
  <2> QED BY <1>1, <2>1, <2>2
<1>5. Size(p) \in Nat
  <2>1. sizes \in [SourceNames -> Nat]
    BY DEF TypeOK
  <2> QED BY <1>3, <1>4, <2>1 DEF Size
<1>6. Begins(p) + PartitionSectors(p) <= dev.sectors
  <2>1. Begins(p) + PartitionSectors(p) <= dev.sectors - TailSectors
    BY DEF TableSound
  <2> QED BY <2>1, <1>1, <1>4, SMT DEF TailSectors
<1>7. Destination(p) \in Nat
  BY <1>2, <1>4 DEF Destination, Begins
<1>8. Room(p) \in Nat
  <2>1. CASE mode = "disk"
    BY <2>1, <1>1, <1>2, <1>4, <1>6, SMT DEF Room, Destination
  <2>2. CASE mode # "disk"
    BY <2>2, <1>4 DEF Room
  <2> QED BY <2>1, <2>2
<1> QED BY <1>3, <1>4, <1>5, <1>7, <1>8

\* Copying does not touch the table.
LEMMA TableStays ==
  ASSUME UNCHANGED <<targetVars, tableVars>>, TableSound, pc # "table"
  PROVE  /\ TableSound'
         /\ Copied' = Copied
         /\ \A p \in Partitions :
              /\ Size(p)' = Size(p) /\ Room(p)' = Room(p)
              /\ Destination(p)' = Destination(p)
<1>1. /\ dev' = dev /\ mode' = mode /\ sizes' = sizes /\ legacy' = legacy
      /\ entry' = entry /\ curr' = curr /\ start' = start /\ blocks' = blocks
  BY DEF targetVars, tableVars
<1>2. TableSound'
  BY <1>1 DEF TableSound, PartitionSectors, Begins, HeadSectors, TailSectors
<1>3. Copied' = Copied
  BY <1>1 DEF Copied
<1>4. \A p \in Partitions :
        /\ Size(p)' = Size(p) /\ Room(p)' = Room(p) /\ Destination(p)' = Destination(p)
  BY <1>1 DEF Size, Room, Destination, PartitionSectors, SourceOf
<1> QED BY <1>2, <1>3, <1>4

\* What the three outcomes of a copy have in common.
LEMMA Transfer ==
  ASSUME IInv, CopyWhole \/ ReadBreaks \/ WriteFails
  PROVE  /\ Copying
         /\ \E n \in Nat, all \in BOOLEAN :
              /\ n <= Size(next) /\ n <= Room(next)
              /\ Write(n, all)
         /\ \/ next' = next + 1 /\ pc' = pc
            \/ next' = next /\ pc' = "failed"
<1>1. TypeOK /\ TableSound
  BY DEF IInv
<1>2. Copying
  BY DEF CopyWhole, ReadBreaks, WriteFails
<1>3. pc = "copy" /\ next \in Partitions
  BY <1>1, <1>2, SMT DEF Copying, Copied, Partitions
<1>4. Size(next) \in Nat /\ Room(next) \in Nat
  BY <1>1, <1>3, Lengths
<1>5. CASE CopyWhole
  <2>1. /\ Size(next) <= Size(next) /\ Size(next) <= Room(next)
        /\ Write(Size(next), TRUE) /\ next' = next + 1 /\ pc' = pc
    <3>1. Size(next) <= Size(next)
      BY <1>4, SMT
    <3> QED BY <3>1, <1>5 DEF CopyWhole
  <2> QED BY <1>2, <1>4, <2>1
<1>6. CASE ReadBreaks
  <2>1. PICK n \in Cuts : n < Size(next) /\ n <= Room(next) /\ Write(n, FALSE)
    BY <1>6 DEF ReadBreaks
  <2>2. n \in Nat /\ n <= Size(next)
    BY <1>4, <2>1, InstallAssumption, SMT
  <2>3. next' = next + 1 /\ pc' = pc
    BY <1>6 DEF ReadBreaks
  <2> QED BY <1>2, <2>1, <2>2, <2>3
<1>7. CASE WriteFails
  <2>1. PICK n \in Cuts \cup {Room(next)} :
          n < Size(next) /\ n <= Room(next) /\ Write(n, FALSE)
    BY <1>7 DEF WriteFails
  <2>2. n \in Nat /\ n <= Size(next)
    BY <1>4, <2>1, InstallAssumption, SMT
  <2>3. \/ next' = next + 1 /\ pc' = pc
        \/ next' = next /\ pc' = "failed"
    BY <1>7 DEF WriteFails
  <2> QED BY <1>2, <2>1, <2>2, <2>3
<1> QED BY <1>5, <1>6, <1>7

LEMMA TransferInv == IInv /\ (CopyWhole \/ ReadBreaks \/ WriteFails) => IInv'
<1> SUFFICES ASSUME IInv, CopyWhole \/ ReadBreaks \/ WriteFails PROVE IInv'
  OBVIOUS
<1>1. TypeOK /\ TableSound /\ CopiesInv
  BY DEF IInv
<1>2. /\ pc = "copy" /\ next \in Partitions /\ next \in Copied /\ next \in 1 .. 12
      /\ Copied \subseteq Partitions
  BY <1>1, Transfer, SMT DEF Copying, Copied, Partitions
<1>3. PICK n \in Nat, all \in BOOLEAN :
        n <= Size(next) /\ n <= Room(next) /\ Write(n, all)
  BY Transfer
<1>4. \/ next' = next + 1 /\ pc' = pc
      \/ next' = next /\ pc' = "failed"
  BY Transfer
<1>5. /\ from' = [from EXCEPT ![next] = Destination(next)]
      /\ len' = [len EXCEPT ![next] = n]
      /\ content' = [content EXCEPT ![next] = SourceOf(next)]
      /\ whole' = [whole EXCEPT ![next] = all]
      /\ UNCHANGED <<targetVars, tableVars>>
  BY <1>3 DEF Write
<1>6. /\ dev' = dev /\ mode' = mode /\ sizes' = sizes /\ legacy' = legacy
      /\ entry' = entry /\ curr' = curr /\ start' = start /\ blocks' = blocks
  BY <1>5 DEF targetVars, tableVars
<1>7. SourceOf(next) \in SourceNames \cup {"mkfs"} /\ Destination(next) \in Nat
  BY <1>1, <1>2, Lengths
<1>8. TypeOK'
  <2>1. pc' \in {"table", "copy", "installed", "failed"} /\ next' \in 1 .. 13
    BY <1>2, <1>4, SMT
  <2>2. /\ from \in [Partitions -> Nat] /\ len \in [Partitions -> Nat]
        /\ content \in [Partitions -> SourceNames \cup {"mkfs", "none"}]
        /\ whole \in [Partitions -> BOOLEAN]
    BY <1>1 DEF TypeOK
  <2>3. from' \in [Partitions -> Nat] /\ len' \in [Partitions -> Nat]
    BY <2>2, <1>3, <1>5, <1>7
  <2>4. content' \in [Partitions -> SourceNames \cup {"mkfs", "none"}]
    BY <2>2, <1>5, <1>7
  <2>5. whole' \in [Partitions -> BOOLEAN]
    BY <2>2, <1>3, <1>5
  <2> QED BY <2>1, <2>3, <2>4, <2>5, <1>1, <1>6 DEF TypeOK
<1>9. /\ TableSound' /\ Copied' = Copied
      /\ \A p \in Partitions :
           /\ Size(p)' = Size(p) /\ Room(p)' = Room(p)
           /\ Destination(p)' = Destination(p)
  BY <1>1, <1>2, <1>5, TableStays
<1>10. CopiesInv'
  <2>1. mode' = "image" => dev'.block = 1
    BY <1>1, <1>6 DEF CopiesInv
  <2>2. pc' # "table" /\ pc' # "installed"
    BY <1>2, <1>4
  <2>3. ASSUME NEW p \in Copied, p < next'
        PROVE  from'[p] = Destination(p)' /\ len'[p] <= Room(p)' /\ len'[p] <= Size(p)'
    <3>1. CASE p = next
      BY <3>1, <1>1, <1>2, <1>3, <1>5, <1>9 DEF TypeOK
    <3>2. CASE p # next
      <4>1. p < next /\ p \in Partitions
        BY <3>2, <2>3, <1>2, <1>4, SMT DEF Partitions
      <4>2. from[p] = Destination(p) /\ len[p] <= Room(p) /\ len[p] <= Size(p)
        BY <4>1, <1>1 DEF CopiesInv
      <4>3. from'[p] = from[p] /\ len'[p] = len[p]
        BY <3>2, <4>1, <1>1, <1>5 DEF TypeOK
      <4> QED BY <4>1, <4>2, <4>3, <1>9
    <3> QED BY <3>1, <3>2
  <2>4. ASSUME NEW p \in Copied, ~ (p < next'), pc' # "failed"
        PROVE  ~ whole'[p]
    <3>1. next' = next + 1 /\ pc = "copy"
      BY <2>4, <1>2, <1>4
    <3>2. p # next /\ ~ (p < next) /\ p \in Partitions
      BY <3>1, <2>4, <1>2, SMT DEF Partitions
    <3>3. ~ whole[p]
      BY <3>1, <3>2, <1>1 DEF CopiesInv
    <3> QED BY <3>2, <3>3, <1>1, <1>5 DEF TypeOK
  <2> QED BY <2>1, <2>2, <2>3, <2>4, <1>9 DEF CopiesInv
<1>11. pc' # "table"
  BY <1>2, <1>4
<1> QED BY <1>8, <1>9, <1>10, <1>11 DEF IInv

LEMMA SkipInv == IInv /\ (Skip \/ Finish) => IInv'
<1> SUFFICES ASSUME IInv, Skip \/ Finish PROVE IInv'
  OBVIOUS
<1>1. TypeOK /\ TableSound /\ CopiesInv /\ pc = "copy"
  BY DEF IInv, Skip, Finish
<1>2. /\ UNCHANGED <<targetVars, tableVars>>
      /\ from' = from /\ len' = len /\ content' = content /\ whole' = whole
  BY DEF Skip, Finish, copyVars
<1>3. /\ dev' = dev /\ mode' = mode /\ sizes' = sizes /\ legacy' = legacy
      /\ entry' = entry /\ curr' = curr /\ start' = start /\ blocks' = blocks
  BY <1>2 DEF targetVars, tableVars
<1>4. \/ pc' = "copy" /\ next' = next + 1 /\ next \notin Copied /\ next \in 1 .. 12
      \/ pc' = "installed" /\ next' = next /\ next = 13
  BY <1>1, SMT DEF Skip, Finish, TypeOK
<1>5. pc' \in {"table", "copy", "installed", "failed"} /\ next' \in 1 .. 13
  BY <1>1, <1>4, SMT
<1>6. TypeOK'
  BY <1>1, <1>2, <1>3, <1>5 DEF TypeOK
<1>7. /\ TableSound' /\ Copied' = Copied
      /\ \A p \in Partitions :
           /\ Size(p)' = Size(p) /\ Room(p)' = Room(p)
           /\ Destination(p)' = Destination(p)
  BY <1>1, <1>2, TableStays
<1>8. Copied \subseteq Partitions
  BY DEF Copied
<1>9. ASSUME NEW p \in Copied
      PROVE  (p < next' <=> p < next)
  <2>1. p \in 1 .. 12 /\ next \in 1 .. 13
    BY <1>1, <1>8 DEF Partitions, TypeOK
  <2>2. CASE next' = next
    BY <2>2
  <2>3. CASE next' = next + 1 /\ next \notin Copied
    <3>1. p # next
      BY <2>3
    <3> QED BY <2>1, <2>3, <3>1, SMT
  <2> QED BY <1>4, <2>2, <2>3
<1>10. CopiesInv'
  BY <1>1, <1>2, <1>3, <1>4, <1>7, <1>8, <1>9 DEF CopiesInv
<1> QED BY <1>4, <1>6, <1>7, <1>10 DEF IInv

LEMMA NextIInv == IInv /\ [Next]_vars => IInv'
<1>1. IInv /\ UNCHANGED vars => IInv'
  <2> SUFFICES ASSUME IInv, UNCHANGED vars PROVE IInv'
    OBVIOUS
  <2>1. /\ pc' = pc /\ dev' = dev /\ mode' = mode /\ sizes' = sizes /\ legacy' = legacy
        /\ entry' = entry /\ curr' = curr /\ start' = start /\ blocks' = blocks
        /\ next' = next /\ from' = from /\ len' = len /\ content' = content /\ whole' = whole
    BY DEF vars, targetVars, tableVars, copyVars
  <2>2. \A p : /\ PartitionSectors(p)' = PartitionSectors(p) /\ Begins(p)' = Begins(p)
              /\ SourceOf(p)' = SourceOf(p) /\ Destination(p)' = Destination(p)
    BY <2>1 DEF PartitionSectors, Begins, SourceOf, Destination
  <2>3. \A p : Size(p)' = Size(p) /\ Room(p)' = Room(p)
    BY <2>1, <2>2 DEF Size, Room
  <2>4. Copied' = Copied /\ HeadSectors' = HeadSectors /\ TailSectors' = TailSectors
    BY <2>1 DEF Copied, HeadSectors, TailSectors
  <2>5. TypeOK'
    BY <2>1 DEF IInv, TypeOK
  <2>6. pc = "table" => EntriesInv'
    BY <2>1, <2>2 DEF IInv, EntriesInv
  <2>7. TableSound'
    BY <2>1, <2>2, <2>4 DEF IInv, TableSound
  <2>8. CopiesInv'
    BY <2>1, <2>2, <2>3, <2>4 DEF IInv, CopiesInv
  <2> QED BY <2>1, <2>5, <2>6, <2>7, <2>8 DEF IInv
<1> QED BY <1>1, AddEntryInv, AddStateInv, TransferInv, SkipInv DEF Next

\* The inductive invariant holds on every destination, with every source and
\* wherever transfers break off.
THEOREM Invariance == Spec => []IInv
  BY InitIInv, NextIInv, PTL DEF Spec

\* All state has its type: no offset or length becomes negative or fractional
\* (write_base_table, the arithmetic in $(( )) of the installers).
THEOREM TypeCorrect == Spec => []TypeOK
<1>1. IInv => TypeOK
  BY DEF IInv
<1> QED BY <1>1, Invariance, PTL

\* The partition table is sound: partitions are as long as asked for, disjoint
\* and within the disk, and STATE is not empty (write_base_table).
THEOREM TableIsSound == Spec => []TableSound
<1>1. IInv => TableSound
  BY DEF IInv
<1> QED BY <1>1, Invariance, PTL

\* Of each copy of a finished installation the destination and the length are
\* those of its partition.
LEMMA InPlace == IInv => CopiesInPlace
<1> SUFFICES ASSUME IInv, pc = "installed", mode = "disk" => dev.block = 1 /\ Fits,
                    NEW p \in Copied, whole[p]
             PROVE  Holds(p)
  BY DEF CopiesInPlace
<1>1. TypeOK /\ TableSound /\ CopiesInv /\ next = 13
  BY DEF IInv, CopiesInv
<1>2. \A q \in Copied : q \in Partitions /\ q < 13
  BY SMT DEF Copied, Partitions
<1>3. \A q \in Copied :
        /\ from[q] = Begins(q)
        /\ len[q] <= PartitionSectors(q)
        /\ len[q] \in Nat /\ PartitionSectors(q) \in Nat /\ Begins(q) \in Nat
  <2> SUFFICES ASSUME NEW q \in Copied
               PROVE  /\ from[q] = Begins(q)
                      /\ len[q] <= PartitionSectors(q)
                      /\ len[q] \in Nat /\ PartitionSectors(q) \in Nat /\ Begins(q) \in Nat
    OBVIOUS
  <2>1. from[q] = Destination(q) /\ len[q] <= Room(q) /\ len[q] <= Size(q)
    BY <1>1, <1>2 DEF CopiesInv
  <2>2. /\ PartitionSectors(q) \in Nat /\ Begins(q) \in Nat /\ Size(q) \in Nat
        /\ len[q] \in Nat /\ start[q] \in Nat
    BY <1>1, <1>2, Lengths DEF TypeOK
  <2>3. CASE mode = "disk"
    <3>1. Destination(q) = Begins(q)
      BY <2>2, <2>3, SMT DEF Destination, Begins
    <3>2. Size(q) <= PartitionSectors(q)
      BY <2>3 DEF Fits
    <3> QED BY <2>1, <2>2, <3>1, <3>2, SMT
  <2>4. CASE mode # "disk"
    BY <2>1, <2>2, <2>4 DEF Destination, Begins, Room
  <2> QED BY <2>3, <2>4
<1>4. ASSUME NEW q \in Copied, q > p
      PROVE  Apart(from[p], len[p], from[q], len[q])
  <2>1. p # q /\ p \in Partitions /\ q \in Partitions
    BY <1>2, <1>4, SMT DEF Partitions
  <2>2. Apart(Begins(p), PartitionSectors(p), Begins(q), PartitionSectors(q))
    BY <1>1, <2>1 DEF TableSound
  <2> QED BY <1>3, <2>2, SMT DEF Apart
<1> QED BY <1>3, <1>4 DEF Holds

\* Whatever was read completely is in its partition and not overwritten by the
\* copy of another one.
THEOREM CopiesAreInPlace == Spec => []CopiesInPlace
BY InPlace, Invariance, PTL

-----------------------------------------------------------------------------
(***************************************************************************)
(* The installation.                                                       *)
(***************************************************************************)

LEMMA InitState == Init => StateInv
<1> SUFFICES ASSUME Init PROVE StateInv
  OBVIOUS
<1>1. entry = 1 /\ pc = "table"
  BY DEF Init
<1> QED
  BY <1>1 DEF StateInv

\* A partition and where it is depend on the table and the destination only.
LEMMA TableUnchanged ==
  ASSUME UNCHANGED <<dev, start, blocks>>
  PROVE  \A p : PartitionSectors(p)' = PartitionSectors(p) /\ Begins(p)' = Begins(p)
BY DEF PartitionSectors, Begins

LEMMA EntryState == IInv /\ StateInv /\ AddEntry => StateInv'
<1> SUFFICES ASSUME IInv, StateInv, AddEntry PROVE StateInv'
  OBVIOUS
<1>1. /\ TypeOK /\ pc = "table" /\ entry \in 1 .. 13 /\ dev.block \in {1, 8}
  BY DeviceFacts, LayoutFits DEF IInv, AddEntry, TypeOK
<1> DEFINE e == Layout[entry]
<1>2. /\ pc' = "table" /\ entry' = entry + 1 /\ dev' = dev
      /\ blocks' = [p \in Partitions |-> IF p = e.part THEN BlocksFor(e.sectors) ELSE blocks[p]]
  BY <1>1 DEF AddEntry, targetVars
<1>3. Layout[12].part = 5 /\ Layout[12].sectors = 8388608 /\ Layout[13].part = 3
  BY DEF Layout, Entry
<1>4. 5 \in Partitions
  BY DEF Partitions
<1>5. ASSUME entry' > 12
      PROVE  PartitionSectors(5)' = 8388608
  <2>1. CASE entry = 12
    <3>1. blocks'[5] = BlocksFor(8388608)
      BY <1>2, <1>3, <1>4, <2>1
    <3>2. CASE dev.block = 1
      BY <1>2, <3>1, <3>2 DEF BlocksFor, PartitionSectors
    <3>3. CASE dev.block = 8
      BY <1>2, <3>1, <3>3 DEF BlocksFor, PartitionSectors
    <3> QED
      BY <1>1, <3>2, <3>3
  <2>2. CASE entry = 13
    <3>1. blocks'[5] = blocks[5]
      BY <1>2, <1>3, <1>4, <2>2
    <3> QED
      BY <1>2, <2>2, <3>1 DEF StateInv, PartitionSectors
  <2> QED
    BY <1>1, <1>2, <1>5, <2>1, <2>2
<1> QED
  BY <1>2, <1>5 DEF StateInv

LEMMA LastState == IInv /\ StateInv /\ AddState => StateInv'
<1> SUFFICES ASSUME IInv, StateInv, AddState PROVE StateInv'
  OBVIOUS
<1> DEFINE at == AlignUp(curr)
           b == dev.block
           n == dev.sectors \div b - (at + 48) \div b
<1>1. /\ TypeOK /\ EntriesInv /\ pc = "table" /\ entry = 14
      /\ b \in {1, 8} /\ dev.sectors \in Nat /\ dev.sectors >= MinSectors
      /\ curr \in Nat /\ curr >= 64 /\ curr <= Reach[14]
  BY DeviceFacts, LayoutFits, SMT DEF IInv, AddState, TypeOK, EntriesInv
<1>2. at \in Nat /\ curr <= at /\ at <= curr + 7 /\ at % b = 0 /\ at % 8 = 0
  BY <1>1, Alignment
<1>3. at \div b \in Nat /\ (at \div b) * b = at
  BY <1>1, <1>2, ExactBlocks
<1>4. MinSectors \in Nat /\ Reach[14] \in Nat /\ Reach[14] + 63 < MinSectors
  BY LayoutFits, SMT DEF MinSectors
<1>5. at + 48 + 8 < dev.sectors
  BY <1>1, <1>2, <1>4, SMT
<1>6. n \in Nat /\ n * b \in Nat /\ at + n * b <= dev.sectors - 48
  <2>1. at + 48 \in Nat /\ (at + 48) % b = 0
    <3>1. CASE b = 1 BY <3>1, <1>2, SMT
    <3>2. CASE b = 8 BY <3>2, <1>2, SMT
    <3> QED BY <3>1, <3>2, <1>1
  <2>2. /\ n \in Nat /\ n * b \in Nat
        /\ at + 48 + n * b <= dev.sectors
    <3> HIDE DEF b, at
    <3> QED BY <2>1, <1>1, <1>5, Remainder, SMT
  <2> QED BY <2>2, <1>1, <1>2, SMT
<1>7. /\ pc' = "copy" /\ dev' = dev /\ entry' = entry
      /\ start' = [start EXCEPT ![1] = at \div b]
      /\ blocks' = [blocks EXCEPT ![1] = n]
  BY DEF AddState, targetVars
<1>8. 1 \in Partitions /\ 5 \in Partitions \ {1} /\ Len(Layout) = 13
  BY LayoutFits DEF Partitions
<1> HIDE DEF at, n
<1>9. Begins(1)' = at /\ PartitionSectors(1)' = n * b
  BY <1>1, <1>3, <1>7, <1>8 DEF Begins, PartitionSectors, TypeOK
<1>10. ASSUME NEW p \in Partitions \ {1}
       PROVE  Begins(p)' = Begins(p) /\ PartitionSectors(p)' = PartitionSectors(p)
  BY <1>1, <1>7 DEF Begins, PartitionSectors, TypeOK
<1>11. ASSUME NEW p \in Partitions \ {1}
       PROVE  Begins(p)' + PartitionSectors(p)' <= Begins(1)'
  <2>1. blocks[p] > 0
    <3>1. p \in 2 .. 12
      BY DEF Partitions
    <3>2. PICK i \in 1 .. 13 : Layout[i].part = p
      BY <3>1, LayoutCovers
    <3>3. PartitionSectors(p) >= Layout[i].sectors /\ Layout[i].sectors \in Nat /\ Layout[i].sectors > 0
      BY <1>1, <3>1, <3>2, LayoutFits DEF EntriesInv
    <3>4. blocks[p] \in Nat /\ (blocks[p] = 0 => PartitionSectors(p) = 0)
      BY <1>1 DEF TypeOK, PartitionSectors
    <3> QED
      BY <3>3, <3>4
  <2>2. Begins(p) + PartitionSectors(p) <= curr
    BY <1>1, <2>1 DEF EntriesInv
  <2>3. Begins(p) \in Nat /\ PartitionSectors(p) \in Nat
    BY <1>1, SMT DEF TypeOK, Begins, PartitionSectors
  <2> QED
    BY <1>1, <1>2, <1>9, <1>10, <2>2, <2>3
<1>12. PartitionSectors(5)' = 8388608
  BY <1>1, <1>8, <1>10 DEF StateInv
<1>13. Begins(1)' + PartitionSectors(1)' <= dev'.sectors - 48
  BY <1>6, <1>7, <1>9
<1> QED
  BY <1>1, <1>7, <1>8, <1>11, <1>12, <1>13 DEF StateInv

LEMMA NextState == IInv /\ StateInv /\ Next => StateInv'
<1> SUFFICES ASSUME IInv, StateInv, Next PROVE StateInv'
  OBVIOUS
<1>1. CASE AddEntry
  BY <1>1, EntryState
<1>2. CASE AddState
  BY <1>2, LastState
<1>3. CASE Skip \/ CopyWhole \/ ReadBreaks \/ WriteFails \/ Finish
  <2>1. /\ pc = "copy" /\ UNCHANGED <<dev, entry, start, blocks>>
    BY <1>3 DEF Skip, CopyWhole, ReadBreaks, WriteFails, Finish, Copying, Write, targetVars, tableVars
  <2> QED
    BY <2>1, TableUnchanged DEF StateInv
<1> QED
  BY <1>1, <1>2, <1>3 DEF Next

\* What the tools rely on once the installation has worked.
WhenInstalled == pc = "installed" => InstalledInv

LEMMA InstalledFacts == IInv => WhenInstalled
<1> SUFFICES ASSUME IInv, pc = "installed" PROVE InstalledInv
  BY DEF WhenInstalled
<1>1. TypeOK /\ TableSound /\ CopiesInv /\ next = 13
  BY DEF IInv, CopiesInv
<1>2. dev \in [block : {1, 8}, sectors : Nat] /\ dev.sectors >= MinSectors
  BY <1>1, InstallAssumption DEF TypeOK
<1>3. ASSUME mode # "clone"
      PROVE  len[12] <= sizes["efi_legacy.img"]
  <2>1. 12 \in Copied /\ 12 < next
    BY <1>1, <1>3 DEF Copied, Partitions
  <2>2. len[12] <= Size(12)
    BY <1>1, <2>1 DEF CopiesInv
  <2>3. SourceOf(12) = "efi_legacy.img"
    BY <1>3 DEF SourceOf
  <2> QED
    BY <2>2, <2>3 DEF Size
<1> QED
  BY <1>1, <1>2, <1>3 DEF InstalledInv, TypeOK

-----------------------------------------------------------------------------
(***************************************************************************)
(* resize-data, on a disk that may be larger than the one installed to.    *)
(***************************************************************************)

\* The installation as the tools find it.
Ready == InstalledInv /\ StateInv /\ pc = "installed"

LEMMA PartitionTypes ==
  ASSUME InstalledInv, NEW p \in Partitions
  PROVE  Begins(p) \in Nat /\ PartitionSectors(p) \in Nat
BY SMT DEF InstalledInv, Begins, PartitionSectors

\* A larger disk changes nothing but the room after STATE.
LEMMA LargerKeeps ==
  ASSUME Ready, NEW n \in Nat, n > dev.sectors, dev' = [dev EXCEPT !.sectors = n],
         UNCHANGED <<pc, mode, sizes, entry, start, blocks, len>>
  PROVE  Ready'
<1> USE DEF Ready
<1>1. /\ dev' \in [block : {1, 8}, sectors : Nat]
      /\ dev'.block = dev.block /\ dev'.sectors = n /\ dev.sectors \in Nat /\ dev.sectors >= MinSectors
  BY DEF InstalledInv
<1>2. \A p \in Partitions : PartitionSectors(p)' = PartitionSectors(p) /\ Begins(p)' = Begins(p)
  BY <1>1 DEF PartitionSectors, Begins
<1>3. 1 \in Partitions /\ 5 \in Partitions /\ \A i \in 1 .. Len(Layout) : Layout[i].part # 0 => Layout[i].part \in Partitions
  BY LayoutFits DEF Partitions
<1>4. \A p \in Partitions : Begins(p) \in Nat /\ PartitionSectors(p) \in Nat
  BY PartitionTypes
<1>5. HeadSectors' = HeadSectors /\ TailSectors' = TailSectors /\ TailSectors \in Nat
  BY <1>1 DEF HeadSectors, TailSectors
<1>6. TableSound'
  <2>1. TableSound
    BY DEF InstalledInv
  <2>2. ASSUME NEW p \in Partitions
        PROVE  /\ blocks'[p] > 0 /\ Begins(p)' >= HeadSectors'
               /\ Begins(p)' + PartitionSectors(p)' <= dev'.sectors - TailSectors'
    <3>1. /\ blocks[p] > 0 /\ Begins(p) >= HeadSectors
          /\ Begins(p) + PartitionSectors(p) <= dev.sectors - TailSectors
      BY <2>1 DEF TableSound
    <3> QED
      BY <1>1, <1>2, <1>4, <1>5, <3>1
  <2>3. \A i \in 1 .. Len(Layout) :
          Layout[i].part # 0 => PartitionSectors(Layout[i].part)' >= Layout[i].sectors
    BY <1>2, <1>3, <2>1 DEF TableSound
  <2>4. \A p, q \in Partitions : p # q =>
          Apart(Begins(p)', PartitionSectors(p)', Begins(q)', PartitionSectors(q)')
    BY <1>2, <2>1 DEF TableSound
  <2> QED
    BY <2>2, <2>3, <2>4 DEF TableSound
<1>7. InstalledInv'
  <2>1. dev'.sectors >= MinSectors
    BY <1>1 DEF MinSectors
  <2> QED
    BY <1>1, <1>6, <2>1 DEF InstalledInv
<1>8. StateInv'
  <2>1. Begins(1)' + PartitionSectors(1)' <= dev'.sectors - 48
    BY <1>1, <1>2, <1>3, <1>4 DEF StateInv
  <2>2. \A p \in Partitions \ {1} : Begins(p)' + PartitionSectors(p)' <= Begins(1)'
    BY <1>2, <1>3 DEF StateInv
  <2>3. entry' > 12 => PartitionSectors(5)' = 8388608
    BY <1>2, <1>3 DEF StateInv
  <2> QED
    BY <2>1, <2>2, <2>3 DEF StateInv
<1> QED
  BY <1>7, <1>8

\* cgpt is asked for what is left of the disk in sectors, and refuses it where
\* a block has eight of them.
LEMMA WhatResizeDoes ==
  ASSUME Ready, Resize
  PROVE  /\ start' = start /\ dev' = dev /\ entry' = entry /\ mode' = mode /\ sizes' = sizes
         /\ pc' = pc /\ len' = len
         /\ \/ dev.block = 8 /\ blocks' = blocks
            \/ /\ dev.block = 1 /\ NewSize \in Nat /\ NewSize >= blocks[1]
               /\ Begins(1) + NewSize = dev.sectors - 48
               /\ blocks' = [blocks EXCEPT ![1] = NewSize]
<1> USE DEF Ready
<1>1. /\ start' = start /\ dev' = dev /\ entry' = entry /\ mode' = mode /\ sizes' = sizes
      /\ pc' = pc /\ len' = len
      /\ blocks' = IF Fitting(NewSize) THEN [blocks EXCEPT ![1] = NewSize] ELSE blocks
  BY DEF Resize, targetVars, copyVars
<1>2. /\ dev.block \in {1, 8} /\ dev.sectors \in Nat /\ dev.sectors >= 29360128
      /\ start[1] \in Nat /\ blocks[1] \in Nat
  BY DEF InstalledInv, Partitions, MinSectors
<1>3. start[1] * dev.block + blocks[1] * dev.block <= dev.sectors - 48
  BY DEF StateInv, Begins, PartitionSectors
<1>4. CASE dev.block = 1
  <2>1. NewSize = dev.sectors - start[1] - 48 /\ Begins(1) = start[1]
    BY <1>2, <1>4 DEF NewSize, Begins
  <2>2. NewSize \in Nat /\ NewSize >= blocks[1] /\ Begins(1) + NewSize = dev.sectors - 48
    BY <1>2, <1>3, <1>4, <2>1
  <2>3. Fitting(NewSize)
    BY <1>2, <1>4, <2>2 DEF Fitting, TailSectors
  <2> QED
    BY <1>1, <1>4, <2>2, <2>3
<1>5. CASE dev.block = 8
  <2>1. ~ Fitting(NewSize)
    BY <1>2, <1>3, <1>5 DEF Fitting, NewSize, Begins, TailSectors
  <2> QED
    BY <1>1, <1>5, <2>1
<1> QED
  BY <1>2, <1>4, <1>5

LEMMA ResizeKeeps ==
  ASSUME Ready, Resize
  PROVE  Ready'
<1> USE DEF Ready
<1>1. /\ start' = start /\ dev' = dev /\ entry' = entry /\ mode' = mode /\ sizes' = sizes
      /\ pc' = pc /\ len' = len
      /\ \/ dev.block = 8 /\ blocks' = blocks
         \/ /\ dev.block = 1 /\ NewSize \in Nat /\ NewSize >= blocks[1]
            /\ Begins(1) + NewSize = dev.sectors - 48
            /\ blocks' = [blocks EXCEPT ![1] = NewSize]
  BY WhatResizeDoes
<1>2. CASE blocks' = blocks
  <2>1. \A p : PartitionSectors(p)' = PartitionSectors(p) /\ Begins(p)' = Begins(p)
    BY <1>1, <1>2, TableUnchanged
  <2>2. HeadSectors' = HeadSectors /\ TailSectors' = TailSectors
    BY <1>1 DEF HeadSectors, TailSectors
  <2>3. TableSound'
    BY <1>1, <1>2, <2>1, <2>2 DEF InstalledInv, TableSound
  <2> QED
    BY <1>1, <1>2, <2>1, <2>3 DEF InstalledInv, StateInv
<1>3. CASE /\ dev.block = 1 /\ NewSize \in Nat /\ NewSize >= blocks[1]
           /\ Begins(1) + NewSize = dev.sectors - 48
           /\ blocks' = [blocks EXCEPT ![1] = NewSize]
  <2>1. 1 \in Partitions /\ 5 \in Partitions \ {1} /\ Len(Layout) = 13
    BY LayoutFits DEF Partitions
  <2>2. /\ \A p \in Partitions : Begins(p)' = Begins(p)
        /\ PartitionSectors(1)' = NewSize /\ PartitionSectors(1) = blocks[1] /\ blocks'[1] = NewSize
        /\ \A p \in Partitions \ {1} : PartitionSectors(p)' = PartitionSectors(p) /\ blocks'[p] = blocks[p]
    BY <1>1, <1>3, <2>1 DEF InstalledInv, Begins, PartitionSectors
  <2>3. \A p \in Partitions : Begins(p) \in Nat /\ PartitionSectors(p) \in Nat /\ blocks[p] \in Nat
    BY PartitionTypes DEF InstalledInv
  <2>4. blocks' \in [Partitions -> Nat]
    BY <1>3 DEF InstalledInv
  <2>5. HeadSectors' = 34 /\ TailSectors' = 33 /\ HeadSectors = 34 /\ TailSectors = 33
        /\ dev.sectors \in Nat
    BY <1>1, <1>3 DEF HeadSectors, TailSectors, InstalledInv
  <2>6. TableSound
    BY DEF InstalledInv
  <2>7. ASSUME NEW p \in Partitions
        PROVE  /\ blocks'[p] > 0 /\ Begins(p)' >= HeadSectors'
               /\ Begins(p)' + PartitionSectors(p)' <= dev'.sectors - TailSectors'
    <3>1. /\ blocks[p] > 0 /\ Begins(p) >= HeadSectors
          /\ Begins(p) + PartitionSectors(p) <= dev.sectors - TailSectors
      BY <2>6 DEF TableSound
    <3>2. CASE p = 1
      BY <1>1, <1>3, <2>2, <2>3, <2>5, <3>1, <3>2
    <3>3. CASE p # 1
      BY <1>1, <2>2, <2>5, <3>1, <3>3
    <3> QED
      BY <3>2, <3>3
  <2>8. ASSUME NEW i \in 1 .. Len(Layout), Layout[i].part # 0
        PROVE  PartitionSectors(Layout[i].part)' >= Layout[i].sectors
    <3>1. Layout[i].part \in Partitions \ {1}
      BY <2>1, <2>8, LayoutFits DEF Partitions
    <3> QED
      BY <2>2, <2>6, <2>8, <3>1 DEF TableSound
  <2>9. \A p \in Partitions \ {1} : Begins(p)' + PartitionSectors(p)' <= Begins(1)'
    BY <2>1, <2>2 DEF StateInv
  <2>10. ASSUME NEW p \in Partitions, NEW q \in Partitions, p # q
         PROVE  Apart(Begins(p)', PartitionSectors(p)', Begins(q)', PartitionSectors(q)')
    <3>1. CASE p = 1
      BY <2>9, <2>10, <3>1 DEF Apart
    <3>2. CASE q = 1
      BY <2>9, <2>10, <3>2 DEF Apart
    <3>3. CASE p # 1 /\ q # 1
      <4>1. Apart(Begins(p), PartitionSectors(p), Begins(q), PartitionSectors(q))
        BY <2>6, <2>10 DEF TableSound
      <4> QED
        BY <2>2, <3>3, <4>1
    <3> QED
      BY <3>1, <3>2, <3>3
  <2>11. TableSound'
    BY <2>7, <2>8, <2>10 DEF TableSound
  <2>12. InstalledInv'
    BY <1>1, <2>4, <2>11 DEF InstalledInv
  <2>13. PartitionSectors(5)' = PartitionSectors(5)
    BY <2>1, <2>2
  <2>14. Begins(1)' + PartitionSectors(1)' <= dev'.sectors - 48
    BY <1>1, <1>3, <2>1, <2>2, <2>5
  <2>15. StateInv'
    BY <1>1, <2>9, <2>13, <2>14 DEF StateInv
  <2> QED
    BY <1>1, <2>12, <2>15
<1> QED
  BY <1>1, <1>2, <1>3


-----------------------------------------------------------------------------
(***************************************************************************)
(* The table of the image.                                                 *)
(***************************************************************************)

\* The entries of the image in their order, with room for the alignment.
LEMMA ImageFits ==
  /\ Len(ImageLayout) = 13
  /\ \A i \in 1 .. 13 :
       /\ ImageLayout[i].part \in {0} \cup (2 .. 12)
       /\ ImageLayout[i].sectors \in Nat
       /\ ImageLayout[i].sectors > 0
       /\ ImageReach[i] \in Nat
       /\ ImageReach[i] + ImageLayout[i].sectors + 7 <= ImageReach[i + 1]
  /\ ImageReach[1] = 64
  /\ ImageReach[14] = 8519845
<1> DEFINE Good(i) ==
       /\ ImageLayout[i].part \in {0} \cup (2 .. 12)
       /\ ImageLayout[i].sectors \in Nat
       /\ ImageLayout[i].sectors > 0
       /\ ImageReach[i] \in Nat
       /\ ImageReach[i] + ImageLayout[i].sectors + 7 <= ImageReach[i + 1]
<1>1. Good(1) BY SMT DEF ImageLayout, Number, Entry, ImageReach
<1>2. Good(2) BY SMT DEF ImageLayout, Number, Entry, ImageReach
<1>3. Good(3) BY SMT DEF ImageLayout, Number, Entry, ImageReach
<1>4. Good(4) BY SMT DEF ImageLayout, Number, Entry, ImageReach
<1>5. Good(5) BY SMT DEF ImageLayout, Number, Entry, ImageReach
<1>6. Good(6) BY SMT DEF ImageLayout, Number, Entry, ImageReach
<1>7. Good(7) BY SMT DEF ImageLayout, Number, Entry, ImageReach
<1>8. Good(8) BY SMT DEF ImageLayout, Number, Entry, ImageReach
<1>9. Good(9) BY SMT DEF ImageLayout, Number, Entry, ImageReach
<1>10. Good(10) BY SMT DEF ImageLayout, Number, Entry, ImageReach
<1>11. Good(11) BY SMT DEF ImageLayout, Number, Entry, ImageReach
<1>12. Good(12) BY SMT DEF ImageLayout, Number, Entry, ImageReach
<1>13. Good(13) BY SMT DEF ImageLayout, Number, Entry, ImageReach
<1> HIDE DEF Good
<1>14. \A i \in 1 .. 13 : Good(i)
  BY <1>1, <1>2, <1>3, <1>4, <1>5, <1>6, <1>7, <1>8, <1>9, <1>10, <1>11, <1>12,
     <1>13, SMT
<1>15. Len(ImageLayout) = 13
  BY SMT DEF ImageLayout
<1>16. ImageReach[1] = 64 /\ ImageReach[14] = 8519845
  BY SMT DEF ImageReach
<1> QED
  BY <1>14, <1>15, <1>16, SMT DEF Good

\* Every partition but STATE has one entry, and those that are copied to are as
\* long as this.
LEMMA ImageCovers ==
  /\ \A p \in 2 .. 12 : \E i \in 1 .. 13 : ImageLayout[i].part = p
  /\ \A i, j \in 1 .. 13 :
       i # j /\ ImageLayout[i].part = ImageLayout[j].part => ImageLayout[i].part = 0
  /\ ImageLayout[13].part = 3 /\ ImageLayout[13].sectors = 8388608
  /\ ImageLayout[8].part = 4 /\ ImageLayout[8].sectors = 65536
  /\ ImageLayout[11].part = 12 /\ ImageLayout[11].sectors = 65536
<1>1. /\ ImageLayout[1].part = 11 /\ ImageLayout[2].part = 6 /\ ImageLayout[3].part = 7
      /\ ImageLayout[4].part = 9 /\ ImageLayout[5].part = 10 /\ ImageLayout[7].part = 2
      /\ ImageLayout[8].part = 4 /\ ImageLayout[9].part = 8 /\ ImageLayout[11].part = 12
      /\ ImageLayout[12].part = 5 /\ ImageLayout[13].part = 3
  BY SMT DEF ImageLayout, Number, Entry
<1>2. \A i, j \in 1 .. 13 :
        i # j /\ ImageLayout[i].part = ImageLayout[j].part => ImageLayout[i].part = 0
  BY SMT DEF ImageLayout, Number, Entry
<1>3. /\ ImageLayout[13].sectors = 8388608 /\ ImageLayout[8].sectors = 65536
      /\ ImageLayout[11].sectors = 65536
  BY SMT DEF ImageLayout, Number, Entry
<1> QED
  BY <1>1, <1>2, <1>3

LEMMA CopiesAre ==
  /\ Len(Copies) = 3
  /\ Copies[1].src = 4 /\ Copies[1].dst = 4
  /\ Copies[2].src = 5 /\ Copies[2].dst = 3
  /\ Copies[3].src = 12 /\ Copies[3].dst = 12
BY DEF Copies

\* A new entry begins where the last one ended, or up to 7 sectors later.
LEMMA ImageEntryKeeps ==
  ASSUME ToolsTypeOK, tool = "table", ImageEntriesInv, AddImageEntry
  PROVE  ToolsTypeOK' /\ ImageEntriesInv'
<1> DEFINE e == ImageLayout[ientry]
           at == IF e.align THEN AlignUp(icurr) ELSE icurr
<1>1. ientry \in 1 .. 13 /\ ientry + 1 \in 2 .. 14 /\ ientry' = ientry + 1
  <2>1. ientry \in 1 .. Len(ImageLayout) + 1
    BY DEF ToolsTypeOK
  <2>2. ientry <= Len(ImageLayout) /\ ientry' = ientry + 1
    BY DEF AddImageEntry
  <2> QED
    BY <2>1, <2>2, ImageFits
<1>2. /\ e.part \in {0} \cup (2 .. 12) /\ e.sectors \in Nat /\ e.sectors > 0
      /\ ImageReach[ientry] \in Nat
      /\ ImageReach[ientry] + e.sectors + 7 <= ImageReach[ientry + 1]
  BY <1>1, ImageFits
<1>3. icurr \in Nat /\ icurr >= 64 /\ icurr <= ImageReach[ientry]
  BY DEF ImageEntriesInv, ToolsTypeOK
<1>4. at \in Nat /\ icurr <= at /\ at <= icurr + 7
  <2>1. AlignUp(icurr) \in Nat /\ icurr <= AlignUp(icurr) /\ AlignUp(icurr) <= icurr + 7
    BY <1>3, Alignment
  <2> QED
    BY <1>3, <2>1
<1>5. /\ image' = IF e.part = 0 THEN image
                  ELSE [start |-> [image.start EXCEPT ![e.part] = at],
                        sectors |-> [image.sectors EXCEPT ![e.part] = e.sectors]]
      /\ icurr' = at + e.sectors
      /\ UNCHANGED <<icopy, ilen, broken, resized>> /\ tool' = "table"
  BY DEF AddImageEntry, Do
<1>6. ImageReach[ientry + 1] \in Nat
  <2>1. CASE ientry = 13
    BY <2>1, ImageFits
  <2>2. CASE ientry # 13
    BY <1>1, <2>2, ImageFits
  <2> QED
    BY <2>1, <2>2
<1> HIDE DEF e, at
<1>7. /\ image.start \in [Partitions -> Nat] /\ image.sectors \in [Partitions -> Nat]
      /\ image \in [start : [Partitions -> Nat], sectors : [Partitions -> Nat]]
  BY DEF ToolsTypeOK
<1>8. \A p \in Partitions :
        /\ p # e.part => image'.start[p] = image.start[p] /\ image'.sectors[p] = image.sectors[p]
        /\ p = e.part => image'.start[p] = at /\ image'.sectors[p] = e.sectors
  <2>1. CASE e.part = 0
    BY <1>5, <2>1 DEF Partitions
  <2>2. CASE e.part # 0
    BY <1>2, <1>5, <1>7, <2>2 DEF Partitions
  <2> QED
    BY <2>1, <2>2
<1>9. image' \in [start : [Partitions -> Nat], sectors : [Partitions -> Nat]]
  <2>1. CASE e.part = 0
    BY <1>5, <1>7, <2>1
  <2>2. CASE e.part # 0
    <3>1. [image.start EXCEPT ![e.part] = at] \in [Partitions -> Nat]
      BY <1>4, <1>7
    <3>2. [image.sectors EXCEPT ![e.part] = e.sectors] \in [Partitions -> Nat]
      BY <1>2, <1>7
    <3> QED
      BY <1>5, <2>2, <3>1, <3>2
  <2> QED
    BY <2>1, <2>2
<1>10. icurr' \in Nat /\ icurr' >= 64 /\ icurr' <= ImageReach[ientry']
  BY <1>1, <1>2, <1>3, <1>4, <1>5, <1>6
<1>11. ToolsTypeOK'
  <2>1. /\ tool' = "table" /\ icopy' = icopy /\ ilen' = ilen /\ broken' = broken
        /\ resized' = resized
    BY <1>5
  <2>2. ientry' \in 1 .. Len(ImageLayout) + 1
    BY <1>1, ImageFits
  <2>3. /\ icopy \in 1 .. Len(Copies) + 1 /\ ilen \in [Partitions -> Nat] /\ broken \in BOOLEAN
        /\ resized \in BOOLEAN
    BY DEF ToolsTypeOK
  <2>4. icurr' \in Nat
    BY <1>10
  <2> QED
    BY <1>9, <2>1, <2>2, <2>3, <2>4 DEF ToolsTypeOK
<1>12. ASSUME NEW i \in 1 .. ientry' - 1, ImageLayout[i].part # 0
       PROVE  image'.sectors[ImageLayout[i].part] = ImageLayout[i].sectors
  <2>1. i \in 1 .. 13 /\ ImageLayout[i].part \in Partitions
    BY <1>1, <1>12, ImageFits DEF Partitions
  <2>2. CASE i = ientry
    BY <1>8, <2>1, <2>2 DEF e
  <2>3. CASE i # ientry
    <3>1. ImageLayout[i].part # e.part
      BY <1>1, <1>12, <2>1, <2>3, ImageCovers DEF e
    <3>2. i \in 1 .. ientry - 1
      BY <1>1, <2>3
    <3> QED
      BY <1>8, <1>12, <2>1, <3>1, <3>2 DEF ImageEntriesInv
  <2> QED
    BY <2>2, <2>3
<1>13. ASSUME NEW p \in Partitions, image.sectors[p] > 0
       PROVE  image.start[p] >= 64 /\ image.start[p] + image.sectors[p] <= at
  BY <1>3, <1>4, <1>7, <1>13 DEF ImageEntriesInv
<1>14. ASSUME NEW p \in Partitions, image'.sectors[p] > 0
       PROVE  image'.start[p] >= 64 /\ image'.start[p] + image'.sectors[p] <= icurr'
  <2>1. CASE p = e.part
    BY <1>2, <1>3, <1>4, <1>5, <1>8, <2>1
  <2>2. CASE p # e.part
    BY <1>2, <1>4, <1>5, <1>7, <1>8, <1>13, <1>14, <2>2
  <2> QED
    BY <2>1, <2>2
<1>15. ASSUME NEW p \in Partitions, NEW q \in Partitions, p # q
       PROVE  Apart(image'.start[p], image'.sectors[p], image'.start[q], image'.sectors[q])
  <2>1. \A r \in Partitions : image.sectors[r] = 0 \/ image.start[r] + image.sectors[r] <= at
    BY <1>7, <1>13
  <2>2. CASE p = e.part
    BY <1>8, <1>15, <2>1, <2>2 DEF Apart
  <2>3. CASE q = e.part
    BY <1>8, <1>15, <2>1, <2>3 DEF Apart
  <2>4. CASE p # e.part /\ q # e.part
    BY <1>8, <1>15, <2>4 DEF ImageEntriesInv
  <2> QED
    BY <2>2, <2>3, <2>4
<1> QED
  BY <1>5, <1>10, <1>11, <1>12, <1>14, <1>15 DEF ImageEntriesInv

\* STATE takes what is left of the file.
LEMMA ImageStateKeeps ==
  ASSUME ToolsTypeOK, ImageEntriesInv, ExtractInv, AddImageState
  PROVE  ToolsTypeOK' /\ ImageSound' /\ ExtractInv'
<1> DEFINE at == AlignUp(icurr)
           n == ImageSectors - (at + 48)
<1>1. /\ ientry = 14 /\ tool' = "copy" /\ UNCHANGED <<ientry, icurr, icopy, ilen, broken, resized>>
      /\ image' = [start |-> [image.start EXCEPT ![1] = at],
                   sectors |-> [image.sectors EXCEPT ![1] = n]]
  BY ImageFits DEF AddImageState, Do
<1>2. icurr \in Nat /\ icurr >= 64 /\ icurr <= 8519845
  BY <1>1, ImageFits DEF ImageEntriesInv, ToolsTypeOK
<1>3. at \in Nat /\ icurr <= at /\ at <= icurr + 7
  BY <1>2, Alignment
<1>4. n \in Nat /\ n > 0 /\ at + n = ImageSectors - 48 /\ ImageSectors = 10485760
  BY <1>2, <1>3 DEF ImageSectors
<1> HIDE DEF at, n
<1>5. /\ image.start \in [Partitions -> Nat] /\ image.sectors \in [Partitions -> Nat]
      /\ 1 \in Partitions
  BY DEF ToolsTypeOK, Partitions
<1>6. /\ image'.start[1] = at /\ image'.sectors[1] = n
      /\ \A p \in Partitions \ {1} :
           image'.start[p] = image.start[p] /\ image'.sectors[p] = image.sectors[p]
  BY <1>1, <1>5
<1>7. ToolsTypeOK'
  <2>1. image' \in [start : [Partitions -> Nat], sectors : [Partitions -> Nat]]
    BY <1>1, <1>3, <1>4, <1>5
  <2> QED
    BY <1>1, <2>1 DEF ToolsTypeOK
<1>8. ASSUME NEW p \in Partitions \ {1}
      PROVE  /\ image.sectors[p] > 0 /\ image.start[p] >= 64
             /\ image.start[p] + image.sectors[p] <= at
  <2>1. p \in 2 .. 12
    BY DEF Partitions
  <2>2. PICK i \in 1 .. 13 : ImageLayout[i].part = p
    BY <2>1, ImageCovers
  <2>3. image.sectors[p] > 0
    BY <1>1, <2>1, <2>2, ImageFits DEF ImageEntriesInv
  <2>4. image.start[p] >= 64 /\ image.start[p] + image.sectors[p] <= icurr
    BY <2>3 DEF ImageEntriesInv
  <2> QED
    BY <1>2, <1>3, <1>5, <2>3, <2>4
<1>9. ImageSound'
  <2>1. ASSUME NEW p \in Partitions
        PROVE  /\ image'.sectors[p] > 0 /\ image'.start[p] >= 34
               /\ image'.start[p] + image'.sectors[p] <= ImageSectors - 33
    <3>1. CASE p = 1
      BY <1>2, <1>3, <1>4, <1>6, <3>1
    <3>2. CASE p # 1
      BY <1>3, <1>4, <1>5, <1>6, <1>8, <3>2
    <3> QED
      BY <3>1, <3>2
  <2>2. ASSUME NEW p \in Partitions, NEW q \in Partitions, p # q
        PROVE  Apart(image'.start[p], image'.sectors[p], image'.start[q], image'.sectors[q])
    <3>1. CASE p = 1
      BY <1>6, <1>8, <2>2, <3>1 DEF Apart
    <3>2. CASE q = 1
      BY <1>6, <1>8, <2>2, <3>2 DEF Apart
    <3>3. CASE p # 1 /\ q # 1
      BY <1>6, <2>2, <3>3 DEF ImageEntriesInv
    <3> QED
      BY <3>1, <3>2, <3>3
  <2> QED
    BY <1>7, <2>1, <2>2 DEF ImageSound
<1>10. ImageEntriesInv /\ ientry = 14
  BY <1>1
<1>11. /\ image.sectors[3] = 8388608 /\ image.sectors[4] = 65536
       /\ image.sectors[12] = 65536
  BY <1>10, ImageCovers DEF ImageEntriesInv
<1>12. ExtractInv'
  <2>1. icopy' = 1 /\ tool' = "copy"
    BY <1>1 DEF ImageEntriesInv
  <2>2. 3 \in Partitions \ {1} /\ 4 \in Partitions \ {1} /\ 12 \in Partitions \ {1}
    BY DEF Partitions
  <2> QED
    BY <1>6, <1>11, <2>1, <2>2 DEF ExtractInv
<1> QED
  BY <1>7, <1>9, <1>12

-----------------------------------------------------------------------------
(***************************************************************************)
(* The copies to the image.                                                *)
(***************************************************************************)

\* Each copy reaches as far as its source and the image's partition do.
LEMMA CopyKeeps ==
  ASSUME InstalledInv, ToolsTypeOK, ImageSound, ExtractInv, CopyToImage
  PROVE  ToolsTypeOK' /\ ImageSound' /\ ExtractInv'
<1> DEFINE c == Copies[icopy]
<1>1. /\ tool = "copy" /\ tool' = "copy" /\ UNCHANGED <<vars, resized>> /\ icopy <= 3
  BY CopiesAre DEF CopyToImage, Do
<1>2. icopy \in 1 .. 3 /\ c.src \in Partitions /\ c.dst \in Partitions
  <2>1. icopy \in 1 .. 3
    BY <1>1, CopiesAre DEF ToolsTypeOK
  <2> QED
    BY <2>1, CopiesAre DEF Partitions
<1>3. PICK n \in Nat, breaks \in BOOLEAN :
        Pv(n, breaks) /\ (~ breaks => n = PartitionSectors(c.src))
  <2>1. CASE Pv(PartitionSectors(c.src), FALSE)
    BY <1>2, <2>1, PartitionTypes
  <2>2. CASE \E n \in Cuts : n < PartitionSectors(c.src) /\ Pv(n, TRUE)
    BY <2>2, InstallAssumption
  <2> QED
    BY <2>1, <2>2 DEF CopyToImage
<1>4. /\ ilen' = [ilen EXCEPT ![c.dst] = Least(n, image.sectors[c.dst])]
      /\ broken' = (broken \/ breaks)
      /\ icopy' = icopy + 1
      /\ image' = image /\ ientry' = ientry /\ icurr' = icurr
  BY <1>3 DEF Pv
<1>5. /\ ilen \in [Partitions -> Nat] /\ image.sectors \in [Partitions -> Nat]
      /\ broken \in BOOLEAN
  BY DEF ToolsTypeOK
<1>6. ToolsTypeOK'
  <2>1. Least(n, image.sectors[c.dst]) \in Nat
    BY <1>2, <1>5 DEF Least
  <2>2. ilen' \in [Partitions -> Nat]
    BY <1>2, <1>4, <1>5, <2>1
  <2>3. broken' \in BOOLEAN
    BY <1>4
  <2>4. icopy' \in 1 .. Len(Copies) + 1
    BY <1>2, <1>4, CopiesAre
  <2>5. resized' = resized
    BY <1>1
  <2> QED
    BY <1>1, <1>4, <2>2, <2>3, <2>4, <2>5 DEF ToolsTypeOK
<1>7. ImageSound'
  BY <1>1, <1>4, <1>6 DEF ImageSound
<1>8. ASSUME ~ broken', NEW i \in 1 .. icopy' - 1
      PROVE  ilen'[Copies[i].dst]
               = Least(PartitionSectors(Copies[i].src), image.sectors[Copies[i].dst])
  <2>1. ~ broken /\ ~ breaks
    BY <1>4, <1>8
  <2>2. i \in 1 .. 3 /\ i <= icopy
    BY <1>2, <1>4
  <2>3. CASE i = icopy
    BY <1>2, <1>3, <1>4, <1>5, <2>1, <2>3
  <2>4. CASE i # icopy
    <3>1. Copies[i].dst # c.dst
      BY <1>2, <2>2, <2>4, CopiesAre
    <3>2. ilen[Copies[i].dst]
            = Least(PartitionSectors(Copies[i].src), image.sectors[Copies[i].dst])
      BY <1>1, <1>2, <2>1, <2>2, <2>4 DEF ExtractInv
    <3> QED
      BY <1>4, <1>5, <3>1, <3>2
  <2> QED
    BY <2>3, <2>4
<1>9. \A p : PartitionSectors(p)' = PartitionSectors(p)
  BY <1>1, TableUnchanged DEF vars, targetVars, tableVars
<1>10. ExtractInv'
  <2>1. /\ image.sectors[3] = 8388608 /\ image.sectors[4] = 65536
        /\ image.sectors[12] = 65536
    BY <1>1 DEF ExtractInv
  <2> QED
    BY <1>1, <1>4, <1>8, <1>9, <2>1 DEF ExtractInv
<1> QED
  BY <1>6, <1>7, <1>10

-----------------------------------------------------------------------------
(***************************************************************************)
(* All steps.                                                              *)
(***************************************************************************)

\* The tools leave the installation alone but for the two actions above.
LEMMA InstallationStays ==
  ASSUME UNCHANGED vars
  PROVE  /\ InstalledInv' = InstalledInv /\ StateInv' = StateInv
         /\ Running' = Running /\ CopiesInPlace' = CopiesInPlace
         /\ \A p : PartitionSectors(p)' = PartitionSectors(p)
<1> USE DEF vars, targetVars, tableVars, copyVars
<1>1. \A p : PartitionSectors(p)' = PartitionSectors(p) /\ Begins(p)' = Begins(p)
  BY TableUnchanged
<1>2. Copied' = Copied /\ HeadSectors' = HeadSectors /\ TailSectors' = TailSectors
  BY DEF Copied, HeadSectors, TailSectors
<1>3. \A p : Holds(p)' = Holds(p)
  BY <1>1, <1>2 DEF Holds
<1>4. \A p : Size(p)' = Size(p)
  <2>1. \A p : SourceOf(p)' = SourceOf(p)
    BY Zenon DEF SourceOf
  <2> QED
    BY <1>1, <2>1 DEF Size
<1>5. Fits' = Fits
  BY <1>1, <1>2, <1>4 DEF Fits
<1>6. TableSound' = TableSound
  BY <1>1, <1>2 DEF TableSound
<1>7. InstalledInv' = InstalledInv
  BY <1>6 DEF InstalledInv
<1>8. StateInv' = StateInv
  BY <1>1 DEF StateInv
<1>9. Running' = Running
  BY <1>2, <1>3 DEF Running
<1>10. CopiesInPlace' = CopiesInPlace
  BY <1>2, <1>3, <1>5 DEF CopiesInPlace
<1> QED
  BY <1>1, <1>7, <1>8, <1>9, <1>10

\* A STATE that grows still holds what was copied to it.
LEMMA StillRunning ==
  ASSUME Ready, Ready', Running, UNCHANGED <<mode, copyVars>>,
         \A p \in Partitions :
           Begins(p)' = Begins(p) /\ PartitionSectors(p)' >= PartitionSectors(p)
  PROVE  Running' /\ CopiesInPlace'
<1>1. Copied' = Copied /\ Copied \subseteq Partitions
  BY DEF Copied
<1>2. ASSUME NEW p \in Copied
      PROVE  Holds(p)'
  <2>1. Holds(p)
    BY <1>2 DEF Running
  <2>2. /\ len \in [Partitions -> Nat] /\ PartitionSectors(p) \in Nat
        /\ PartitionSectors(p)' \in Nat
    <3>1. PartitionSectors(p) \in Nat
      BY <1>1, <1>2, PartitionTypes DEF Ready
    <3>2. PartitionSectors(p)' \in Nat
      <4>1. /\ dev'.block \in Nat /\ blocks' \in [Partitions -> Nat]
        BY DEF Ready, InstalledInv
      <4> QED
        BY <1>1, <1>2, <4>1, SMT DEF PartitionSectors
    <3>3. len \in [Partitions -> Nat]
      BY DEF Ready, InstalledInv
    <3> QED
      BY <3>1, <3>2, <3>3
  <2>3. len[p] <= PartitionSectors(p)'
    <3>1. len[p] <= PartitionSectors(p) /\ len[p] \in Nat
      BY <1>1, <1>2, <2>1, <2>2 DEF Holds
    <3>2. PartitionSectors(p)' >= PartitionSectors(p)
      BY <1>1, <1>2
    <3> QED
      BY <2>2, <3>1, <3>2
  <2> QED
    BY <1>1, <2>1, <2>3 DEF Holds, copyVars
<1>3. Running'
  BY <1>1, <1>2 DEF Running, Ready
<1> QED
  BY <1>1, <1>2, <1>3 DEF CopiesInPlace

LEMMA InitTools == ToolsInit => ToolsInv
<1> SUFFICES ASSUME ToolsInit PROVE ToolsInv
  OBVIOUS
<1>1. Init /\ pc = "table" /\ tool = "none" /\ sizes \in Sources
  BY DEF ToolsInit, Init
<1>2. IInv /\ StateInv /\ CopiesInPlace
  BY <1>1, InitIInv, InitState DEF CopiesInPlace
<1>3. /\ image \in [start : [Partitions -> Nat], sectors : [Partitions -> Nat]]
      /\ \A p \in Partitions : image.start[p] = 0 /\ image.sectors[p] = 0
  BY DEF ToolsInit
<1>4. ToolsTypeOK
  <2>1. /\ ientry \in 1 .. Len(ImageLayout) + 1 /\ icurr \in Nat
        /\ icopy \in 1 .. Len(Copies) + 1
    BY ImageFits, CopiesAre DEF ToolsInit
  <2>2. ilen \in [Partitions -> Nat] /\ broken \in BOOLEAN /\ resized \in BOOLEAN
    BY DEF ToolsInit
  <2> QED
    BY <1>1, <1>3, <2>1, <2>2 DEF ToolsTypeOK
<1>5. ImageEntriesInv
  <2>1. icopy = 1 /\ ientry = 1 /\ icurr = 64
    BY DEF ToolsInit
  <2> QED
    BY <1>3, <2>1, ImageFits DEF ImageEntriesInv, Apart
<1> QED
  BY <1>1, <1>2, <1>4, <1>5 DEF ToolsInv, ImageSound, ExtractInv

\* The table and the contents depend on what the tools keep only.
LEMMA ImageStays ==
  ASSUME UNCHANGED <<imageVars, tool, resized>>
  PROVE  /\ ToolsTypeOK' = ToolsTypeOK /\ ImageEntriesInv' = ImageEntriesInv
         /\ ImageSound' = ImageSound
BY DEF imageVars, ToolsTypeOK, ImageEntriesInv, ImageSound

LEMMA NextTools == ToolsInv /\ [ToolsNext]_allVars => ToolsInv'
<1> SUFFICES ASSUME ToolsInv, [ToolsNext]_allVars PROVE ToolsInv'
  OBVIOUS
<1>1. /\ StateInv /\ CopiesInPlace /\ ToolsTypeOK /\ (tool # "none" => Running)
      /\ (tool \in {"none", "table"} => ImageEntriesInv) /\ ImageSound /\ ExtractInv
      /\ sizes \in Sources
  BY DEF ToolsInv
<1>2. pc = "installed" => InstalledInv /\ Ready
  BY <1>1 DEF ToolsInv, Ready
<1>3. CASE Install
  <2>1. Next /\ UNCHANGED <<imageVars, tool, resized>>
    BY <1>3 DEF Install, toolVars
  <2>2. pc # "installed" /\ sizes' = sizes
    BY <2>1 DEF Next, AddEntry, AddState, Skip, CopyWhole, ReadBreaks, WriteFails, Finish,
                Copying, Write, targetVars
  <2>3. IInv /\ tool = "none"
    BY <1>1, <2>2 DEF ToolsInv, Running
  <2>4. IInv'
    BY <2>1, <2>3, NextIInv
  <2>5. StateInv'
    BY <1>1, <2>1, <2>3, NextState
  <2>6. CopiesInPlace'
    BY <2>4, InPlace, PTL
  <2>7. pc' = "installed" => InstalledInv'
    <3>1. WhenInstalled'
      BY <2>4, InstalledFacts, PTL
    <3> QED
      BY <3>1 DEF WhenInstalled
  <2>8. ToolsTypeOK' /\ ImageEntriesInv' /\ ImageSound' /\ tool' = "none"
    BY <1>1, <2>1, <2>3, ImageStays
  <2>9. ExtractInv'
    BY <2>8 DEF ExtractInv
  <2> QED
    BY <1>1, <2>2, <2>4, <2>5, <2>6, <2>7, <2>8, <2>9 DEF ToolsInv
<1>4. ASSUME Running, UNCHANGED vars,
             ToolsTypeOK', ImageSound', ExtractInv', tool' = "table" => ImageEntriesInv',
             tool' # "none"
      PROVE  ToolsInv'
  <2>1. InstalledInv /\ pc' = "installed" /\ sizes' = sizes
    BY <1>2, <1>4 DEF Running, vars, targetVars
  <2>2. InstalledInv' /\ StateInv' /\ CopiesInPlace' /\ Running'
    BY <1>1, <1>4, <2>1, InstallationStays
  <2> QED
    BY <1>1, <1>4, <2>1, <2>2 DEF ToolsInv
<1>5. CASE Create
  <2>1. /\ Running /\ UNCHANGED vars /\ tool = "none" /\ tool' = "table"
        /\ UNCHANGED <<imageVars, resized>>
    BY <1>5 DEF Create, Do
  <2>2. ToolsTypeOK' /\ ImageEntriesInv' /\ ImageSound' /\ ExtractInv'
    BY <1>1, <2>1 DEF ToolsTypeOK, ImageEntriesInv, ImageSound, ExtractInv, imageVars
  <2> QED
    BY <1>4, <2>1, <2>2
<1>6. CASE AddImageEntry
  <2>1. Running /\ UNCHANGED vars /\ tool = "table" /\ tool' = "table"
    BY <1>6 DEF AddImageEntry, Do
  <2>2. ToolsTypeOK' /\ ImageEntriesInv'
    BY <1>1, <1>6, <2>1, ImageEntryKeeps
  <2>3. ImageSound' /\ ExtractInv'
    BY <2>1 DEF ImageSound, ExtractInv
  <2> QED
    BY <1>4, <2>1, <2>2, <2>3
<1>7. CASE AddImageState
  <2>1. Running /\ UNCHANGED vars /\ tool = "table" /\ tool' = "copy"
    BY <1>7 DEF AddImageState, Do
  <2>2. ToolsTypeOK' /\ ImageSound' /\ ExtractInv'
    BY <1>1, <1>7, <2>1, ImageStateKeeps
  <2> QED
    BY <1>4, <2>1, <2>2
<1>8. CASE CopyToImage
  <2>1. Running /\ UNCHANGED vars /\ tool = "copy" /\ tool' = "copy"
    BY <1>8 DEF CopyToImage, Do
  <2>2. InstalledInv
    BY <1>2, <2>1 DEF Running
  <2>3. ToolsTypeOK' /\ ImageSound' /\ ExtractInv'
    BY <1>1, <1>8, <2>2, CopyKeeps
  <2> QED
    BY <1>4, <2>1, <2>3
<1>9. CASE Created
  <2>1. /\ Running /\ UNCHANGED vars /\ tool = "copy" /\ tool' = "created"
        /\ UNCHANGED <<imageVars, resized>> /\ icopy = Len(Copies) + 1
    BY <1>9 DEF Created, Do
  <2>2. ToolsTypeOK'
    BY <1>1, <2>1 DEF ToolsTypeOK, imageVars
  <2>3. ImageSound'
    BY <1>1, <2>1, <2>2 DEF ImageSound, imageVars
  <2>4. \A p : PartitionSectors(p)' = PartitionSectors(p)
    BY <2>1, InstallationStays
  <2>5. ExtractInv'
    BY <1>1, <2>1, <2>4 DEF ExtractInv, imageVars
  <2> QED
    BY <1>4, <2>1, <2>2, <2>3, <2>5
<1>10. ASSUME Ready, Ready', Running, tool = "none", tool' = "none", sizes' = sizes,
              resized' \in BOOLEAN, UNCHANGED <<mode, copyVars, imageVars>>,
              \A p \in Partitions :
                Begins(p)' = Begins(p) /\ PartitionSectors(p)' >= PartitionSectors(p)
       PROVE  ToolsInv'
  <2>1. CopiesInPlace'
    BY <1>10, StillRunning
  <2>2. ToolsTypeOK' /\ ImageEntriesInv' /\ ImageSound' /\ ExtractInv'
    BY <1>1, <1>10 DEF ToolsTypeOK, ImageEntriesInv, ImageSound, ExtractInv, imageVars
  <2> QED
    BY <1>1, <1>10, <2>1, <2>2 DEF ToolsInv, Ready
<1>11. CASE CopyToLarger
  <2>1. PICK n \in Larger : n > dev.sectors /\ dev' = [dev EXCEPT !.sectors = n]
    BY <1>11 DEF CopyToLarger
  <2>2. /\ Running /\ tool = "none" /\ resized' = FALSE
        /\ UNCHANGED <<pc, mode, sizes, legacy, tableVars, next, copyVars, tool, imageVars>>
    BY <1>11 DEF CopyToLarger
  <2>3. Ready /\ n \in Nat
    BY <1>2, <2>1, <2>2, ToolsAssumption DEF Running
  <2>4. Ready'
    BY <2>1, <2>2, <2>3, LargerKeeps DEF tableVars, copyVars
  <2>5. dev'.block = dev.block
    BY <2>1, <2>3 DEF Ready, InstalledInv
  <2>6. \A p \in Partitions : Begins(p)' = Begins(p) /\ PartitionSectors(p)' = PartitionSectors(p)
    BY <2>2, <2>5 DEF Begins, PartitionSectors, tableVars
  <2>7. \A p \in Partitions : PartitionSectors(p) \in Nat
    BY <2>3, PartitionTypes DEF Ready
  <2>8. \A p \in Partitions : PartitionSectors(p)' >= PartitionSectors(p)
    BY <2>6, <2>7
  <2>9. sizes' = sizes /\ resized' \in BOOLEAN /\ tool' = "none"
    BY <2>2
  <2> QED
    BY <1>10, <2>2, <2>3, <2>4, <2>6, <2>8, <2>9
<1>12. CASE Resize
  <2>1. /\ Running /\ tool = "none" /\ resized' = TRUE
        /\ UNCHANGED <<mode, sizes, copyVars, tool, imageVars>>
    BY <1>12 DEF Resize, targetVars
  <2>2. Ready
    BY <1>2, <2>1 DEF Running
  <2>3. Ready'
    BY <1>12, <2>2, ResizeKeeps
  <2>4. /\ start' = start /\ dev' = dev
        /\ \/ blocks' = blocks
           \/ /\ dev.block = 1 /\ NewSize \in Nat /\ NewSize >= blocks[1]
              /\ blocks' = [blocks EXCEPT ![1] = NewSize]
    BY <1>12, <2>2, WhatResizeDoes
  <2>5. \A p \in Partitions : Begins(p)' = Begins(p) /\ PartitionSectors(p) \in Nat
    BY <2>2, <2>4, PartitionTypes DEF Begins, Ready
  <2>6. ASSUME NEW p \in Partitions
        PROVE  PartitionSectors(p)' >= PartitionSectors(p)
    <3>1. CASE blocks' = blocks
      BY <2>4, <2>5, <3>1 DEF PartitionSectors
    <3>2. CASE /\ dev.block = 1 /\ NewSize \in Nat /\ NewSize >= blocks[1]
               /\ blocks' = [blocks EXCEPT ![1] = NewSize]
      <4>1. blocks \in [Partitions -> Nat]
        BY <2>2 DEF Ready, InstalledInv
      <4> QED
        BY <2>4, <3>2, <4>1 DEF PartitionSectors
    <3> QED
      BY <2>4, <3>1, <3>2
  <2> QED
    BY <1>10, <2>1, <2>2, <2>3, <2>5, <2>6
<1>13. CASE UNCHANGED allVars
  <2>1. UNCHANGED vars /\ UNCHANGED <<imageVars, tool, resized>> /\ sizes' = sizes /\ pc' = pc
    BY <1>13 DEF allVars, toolVars, vars, targetVars
  <2>2. /\ InstalledInv' = InstalledInv /\ StateInv' /\ CopiesInPlace' /\ Running' = Running
        /\ \A p : PartitionSectors(p)' = PartitionSectors(p)
    BY <1>1, <2>1, InstallationStays
  <2>3. IInv => IInv'
    BY <2>1, NextIInv
  <2>4. /\ ToolsTypeOK' /\ ImageSound'
        /\ (tool \in {"none", "table"} => ImageEntriesInv')
    BY <1>1, <2>1, ImageStays
  <2>5. ExtractInv'
    BY <1>1, <2>1, <2>2 DEF ExtractInv, imageVars
  <2> QED
    BY <1>1, <2>1, <2>2, <2>3, <2>4, <2>5 DEF ToolsInv
<1> QED
  BY <1>3, <1>5, <1>6, <1>7, <1>8, <1>9, <1>11, <1>12, <1>13 DEF ToolsNext

\* The invariant of the installation and of the tools that run in it.
THEOREM ToolsInvariance == ToolsSpec => []ToolsInv
BY InitTools, NextTools, PTL DEF ToolsSpec

\* The table of the recovery image is sound (extract-recovery).
THEOREM ImageIsSound == ToolsSpec => []ImageSound
<1>1. ToolsInv => ImageSound
  BY DEF ToolsInv
<1> QED BY <1>1, ToolsInvariance, PTL

\* The table stays sound, and the contents stay in their place, when an
\* installation is copied to a larger disk, resized, and extracted from
\* (resize-data, extract-recovery).
THEOREM SoundForTheTools == ToolsSpec => [](TableSound /\ CopiesInPlace)
<1>1. ToolsInv => TableSound /\ CopiesInPlace
  BY DEF ToolsInv, InstalledInv, IInv
<1> QED BY <1>1, ToolsInvariance, PTL

\* An extracted image holds what the installer had put into the partitions it is
\* copied from, if they could be read: for every installation whose EFI
\* partition came from an image of at most 32 MiB (extract-recovery).
THEOREM WhatIsExtracted ==
  ASSUME \A s \in Sources : s["efi_legacy.img"] <= 65536
  PROVE  ToolsSpec => []ExtractedIsInstalled
<1>1. ToolsInv => ExtractedIsInstalled
  <2> SUFFICES ASSUME ToolsInv, tool = "created", ~ broken
               PROVE  /\ \A i \in 1 .. Len(Copies) :
                           len[Copies[i].src] <= 65536 =>
                             ilen[Copies[i].dst] >= len[Copies[i].src]
                      /\ mode # "clone" => ilen[12] >= len[12]
                      /\ ilen[3] >= len[5]
    BY DEF ExtractedIsInstalled
  <2>1. Running /\ InstalledInv /\ StateInv /\ sizes \in Sources
    BY DEF ToolsInv, Running
  <2>2. /\ image.sectors[3] = 8388608 /\ image.sectors[4] = 65536
        /\ image.sectors[12] = 65536
        /\ \A i \in 1 .. 3 :
             ilen[Copies[i].dst]
               = Least(PartitionSectors(Copies[i].src), image.sectors[Copies[i].dst])
    BY CopiesAre DEF ToolsInv, ExtractInv
  <2>3. \A p \in {4, 5, 12} : p \in Partitions /\ p \in Copied
    BY DEF Copied, Partitions
  <2>4. \A p \in {4, 5, 12} :
          len[p] \in Nat /\ PartitionSectors(p) \in Nat /\ len[p] <= PartitionSectors(p)
    BY <2>1, <2>3, PartitionTypes DEF Running, Holds, InstalledInv
  <2>5. /\ ilen[4] = Least(PartitionSectors(4), 65536)
        /\ ilen[3] = Least(PartitionSectors(5), 8388608)
        /\ ilen[12] = Least(PartitionSectors(12), 65536)
    BY <2>2, CopiesAre
  <2>6. PartitionSectors(5) = 8388608
    BY <2>1, LayoutFits DEF StateInv, Running
  <2>7. ASSUME mode # "clone"
        PROVE  len[12] <= 65536
    <3>1. len[12] <= sizes["efi_legacy.img"] /\ sizes["efi_legacy.img"] <= 65536
      BY <2>1, <2>7 DEF InstalledInv
    <3>2. "efi_legacy.img" \in SourceNames
      BY DEF SourceNames
    <3>3. sizes["efi_legacy.img"] \in Nat
      BY <2>1, <3>2, InstallAssumption
    <3> QED
      BY <2>4, <3>1, <3>3
  <2>8. len[4] <= 65536 => ilen[4] >= len[4]
    BY <2>4, <2>5 DEF Least
  <2>9. len[12] <= 65536 => ilen[12] >= len[12]
    BY <2>4, <2>5 DEF Least
  <2>10. ilen[3] >= len[5]
    BY <2>4, <2>5, <2>6 DEF Least
  <2> QED
    BY <2>7, <2>8, <2>9, <2>10, CopiesAre
<1> QED BY <1>1, ToolsInvariance, PTL

\* resize-data keeps where STATE begins and what it holds, and lets it grow to
\* the backup of the table where the disk has blocks of 512 bytes.
THEOREM StateOnlyGrows == ToolsSpec => ResizeKeepsState
<1>1. ToolsInv /\ Resize =>
        /\ start' = start
        /\ blocks'[1] >= blocks[1]
        /\ dev.block = 1 => Begins(1) + blocks'[1] = dev.sectors - 48
  <2> SUFFICES ASSUME ToolsInv, Resize
               PROVE  /\ start' = start
                      /\ blocks'[1] >= blocks[1]
                      /\ dev.block = 1 => Begins(1) + blocks'[1] = dev.sectors - 48
    OBVIOUS
  <2>1. Ready
    BY DEF ToolsInv, Ready, Resize, Running
  <2>2. 1 \in Partitions /\ blocks \in [Partitions -> Nat]
    BY <2>1 DEF Ready, InstalledInv, Partitions
  <2> QED
    BY <2>1, <2>2, WhatResizeDoes
<1>2. ToolsInv /\ [ToolsNext]_allVars =>
        [Resize => /\ start' = start
                   /\ blocks'[1] >= blocks[1]
                   /\ dev.block = 1 => Begins(1) + blocks'[1] = dev.sectors - 48]_allVars
  BY <1>1
<1> QED BY <1>2, ToolsInvariance, PTL DEF ToolsSpec, ResizeKeepsState

=============================================================================
