----------------------------- MODULE MCInstall -----------------------------
(***************************************************************************)
(* Values of the constants of ChromeosInstall and SystemTools for TLC.     *)
(***************************************************************************)
EXTENDS SystemTools, TLC

\* The smallest disk that is accepted: an image of 14 GiB.
Disks512 == { [block |-> 1, sectors |-> MinSectors] }

\* A disk of 32 GB with blocks of 4096 bytes.
Disks4096 == { [block |-> 8, sectors |-> 62533296] }

AllDisks == Disks512 \cup Disks4096

\* A recovery image with a ROOT-A of n sectors, and a running system that was
\* installed by the same script.
SizesWith(n) ==
  "p1" :> 8192 @@ "p2" :> 131072 @@ "p3" :> n @@ "p4" :> 131072 @@ "p5" :> 8388608
  @@ "p6" :> 1 @@ "p7" :> 2097152 @@ "p8" :> 32768 @@ "p9" :> 1 @@ "p10" :> 1
  @@ "p11" :> 16384 @@ "p12" :> 131072
  @@ "rootc.img" :> 2097152 @@ "rootc.img from p8" :> 32768
  @@ "efi_secure.img" :> 65536 @@ "efi_legacy.img" :> 65536

\* ROOT-A as large as its partition, and one that is too large for it.
UsualSizes == { SizesWith(8388608) }
AllSizes == UsualSizes \cup { SizesWith(9000000) }

\* The KERN-B of a recovery image is as large as that of the extracted one, or
\* as that of the installation.
TwoKernels == {[s EXCEPT !["p4"] = n] : s \in UsualSizes, n \in {65536, 131072}}

\* ... and a ROOT-A that is too large for its partition.
ManySizes == TwoKernels \cup AllSizes

\* Disks of 16, 32 and 64 GB.
SomeDisks == {31116288, 62533296, 125045424}

\* An installation may be on one of those from the start.
ManyDisks == AllDisks \cup [block : {1, 8}, sectors : SomeDisks]

=============================================================================
